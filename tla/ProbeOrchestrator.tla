--------------------------- MODULE ProbeOrchestrator ---------------------------
(***************************************************************************)
(* The probe orchestrator of the component monitor: in every cycle it      *)
(* empties the results channel, starts one goroutine per prober, collects  *)
(* as many results as there are probers or until a cycle's time is over,   *)
(* merges them and posts a report.                                          *)
(*                                                                         *)
(* The channel is unbuffered: a goroutine with a result waits in its send   *)
(* until the orchestrator receives, in this cycle or in a later one.  Per   *)
(* prober there is the goroutine of this cycle (slot 0) and up to           *)
(* MaxStragglers of earlier ones; a goroutine beyond that is one that never *)
(* answers, which nothing can tell from its absence.                        *)
(***************************************************************************)
EXTENDS Integers, FiniteSets

CONSTANTS
    Probers,
    Subs,            \* sub-components
    SubOf,           \* prober -> the sub-component it probes
    CtxAware,        \* the probers whose send gives up when the context is canceled (systemd)
    MaxStragglers    \* bound: goroutines of earlier cycles that may still answer

ASSUME OrchestratorAssumption ==
    /\ IsFiniteSet(Probers) /\ Probers # {}
    /\ SubOf \in [Probers -> Subs]
    /\ CtxAware \subseteq Probers
    /\ MaxStragglers \in Nat

VARIABLES
    pc,         \* where Run is
    probe,      \* the probe goroutines: prober, slot -> what it is doing
    collected,  \* the results of this cycle, until they are sent: prober, slot, result
    cause,      \* history: why the collection ended
    onTime,     \* history: no goroutine of an earlier cycle was left when this one started
    report,     \* the last report: what it says of every sub-component
    canceled,   \* the context
    late        \* history: reports sent by cycles that ended after the cancellation

vars == <<pc, probe, collected, cause, onTime, report, canceled, late>>

Slots   == 0..MaxStragglers
Results == {"up", "down", "error"}
Causes  == {"none", "complete", "timeout", "canceled"}

TypeOK ==
    /\ pc \in {"start", "drain", "collect", "send", "wait", "exited"}
    /\ probe \in [Probers \X Slots -> {"none", "running"} \cup Results]
    /\ collected \in SUBSET (Probers \X Slots \X Results)
    /\ cause \in Causes
    /\ onTime \in BOOLEAN
    /\ report \in [Subs -> {"omitted", "Healthy", "failing"}]
    /\ canceled \in BOOLEAN
    /\ late \in 0..2

Init ==
    /\ pc = "start"
    /\ probe = [g \in Probers \X Slots |-> "none"]
    /\ collected = {}
    /\ cause = "none"
    /\ onTime = TRUE
    /\ report = [s \in Subs |-> "omitted"]
    /\ canceled = FALSE
    /\ late = 0

Sending(g) == probe[g] \in Results

--------------------------------------------------------------------------------
(***************************************************************************)
(* The orchestrator's loop.                                                 *)
(***************************************************************************)
BeginCycle_NoCheck ==
    /\ pc = "start"
    /\ pc' = "drain"
    /\ UNCHANGED <<probe, collected, cause, onTime, report, canceled, late>>

BeginCycle ==
    /\ pc = "start"
    /\ pc' = IF canceled THEN "exited" ELSE "drain"
    /\ UNCHANGED <<probe, collected, cause, onTime, report, canceled, late>>

DrainOne ==
    /\ pc = "drain"
    /\ \E g \in Probers \X Slots :
         /\ Sending(g)
         /\ probe' = [probe EXCEPT ![g] = "none"]
    /\ UNCHANGED <<pc, collected, cause, onTime, report, canceled, late>>

Running(p) == {k \in Slots : probe[<<p, k>>] = "running"}

\* The channel is empty: one goroutine per prober is started, next to those of
\* earlier cycles that still run and will answer.
StartProbes ==
    /\ pc = "drain"
    /\ \A g \in Probers \X Slots : ~Sending(g)
    /\ \E left \in [Probers -> Slots] :
         /\ \A p \in Probers : left[p] <= Cardinality(Running(p))
         /\ probe' = [g \in Probers \X Slots |->
                         IF g[2] <= left[g[1]] THEN "running" ELSE "none"]
    /\ onTime' = \A p \in Probers : Running(p) = {}
    /\ collected' = {}
    /\ pc' = "collect"
    /\ UNCHANGED <<cause, report, canceled, late>>

StopCollecting(why) ==
    /\ pc = "collect"
    /\ pc' = "send"
    /\ cause' = why
    /\ UNCHANGED <<probe, collected, onTime, report, canceled, late>>

ReceiveResult ==
    /\ pc = "collect"
    /\ Cardinality(collected) < Cardinality(Probers)
    /\ \E g \in Probers \X Slots :
         /\ Sending(g)
         /\ collected' = collected \cup {<<g[1], g[2], probe[g]>>}
         /\ probe' = [probe EXCEPT ![g] = "none"]
    /\ UNCHANGED <<pc, cause, onTime, report, canceled, late>>

CollectedAll_OneMissing ==
    Cardinality(collected) >= Cardinality(Probers) - 1 /\ StopCollecting("complete")

CollectedAll == Cardinality(collected) = Cardinality(Probers) /\ StopCollecting("complete")

CollectTimeout_WaitsForFirst ==
    collected # {} /\ Cardinality(collected) < Cardinality(Probers) /\ StopCollecting("timeout")

CollectTimeout == Cardinality(collected) < Cardinality(Probers) /\ StopCollecting("timeout")

CollectCanceled ==
    canceled /\ Cardinality(collected) < Cardinality(Probers) /\ StopCollecting("canceled")

\* What the merge makes of the results of one sub-component (see StatusMerge).
Merged(s) ==
    LET said == {r[3] : r \in {q \in collected : SubOf[q[1]] = s}}
    IN  CASE "down" \in said -> "failing"
          [] said = {"up"}   -> "Healthy"
          [] OTHER           -> "omitted"

\* The report is sent whatever ended the collection, and whether it arrives or
\* not the cycle goes on.
SendReport ==
    /\ pc = "send"
    /\ report' = [s \in Subs |-> Merged(s)]
    /\ late' = IF canceled /\ late < 2 THEN late + 1 ELSE late
    /\ pc' = "wait"
    /\ collected' = {}
    /\ cause' = "none"
    /\ onTime' = TRUE
    /\ UNCHANGED <<probe, canceled>>

\* The rest of the cycle's time is over, or nothing was left of it.
NextCycle ==
    /\ pc = "wait"
    /\ pc' = "start"
    /\ UNCHANGED <<probe, collected, cause, onTime, report, canceled, late>>

StopWaiting ==
    /\ pc = "wait"
    /\ canceled
    /\ pc' = "exited"
    /\ UNCHANGED <<probe, collected, cause, onTime, report, canceled, late>>

Run ==
    \/ BeginCycle
    \/ DrainOne
    \/ StartProbes
    \/ ReceiveResult
    \/ CollectedAll
    \/ CollectTimeout
    \/ CollectCanceled
    \/ SendReport
    \/ NextCycle
    \/ StopWaiting

--------------------------------------------------------------------------------
(***************************************************************************)
(* The probe goroutines, and the cancellation.                              *)
(***************************************************************************)
Answer(g) ==
    /\ probe[g] = "running"
    /\ \E r \in Results : probe' = [probe EXCEPT ![g] = r]
    /\ UNCHANGED <<pc, collected, cause, onTime, report, canceled, late>>

GiveUpSend_Never(g) == FALSE /\ UNCHANGED vars

GiveUpSend(g) ==
    /\ Sending(g)
    /\ canceled
    /\ g[1] \in CtxAware
    /\ probe' = [probe EXCEPT ![g] = "none"]
    /\ UNCHANGED <<pc, collected, cause, onTime, report, canceled, late>>

Probe(g) == Answer(g) \/ GiveUpSend(g)

Cancel ==
    /\ ~canceled
    /\ canceled' = TRUE
    /\ UNCHANGED <<pc, probe, collected, cause, onTime, report, late>>

Next ==
    \/ Run
    \/ \E g \in Probers \X Slots : Probe(g)
    \/ Cancel

Spec == Init /\ [][Next]_vars

\* Run's goroutine is scheduled, timers fire and the client's request ends; a
\* probe may hang, but not once its context is canceled.
FairSpec ==
    /\ Spec
    /\ WF_vars(Run)
    /\ \A g \in Probers \X Slots : WF_vars(canceled /\ Probe(g))

--------------------------------------------------------------------------------
(***************************************************************************)
(* Properties.                                                              *)
(***************************************************************************)
\* A collection that ends because all results are in has heard every prober of
\* this cycle, if no goroutine of an earlier cycle was left at its start, and a
\* healthy status is then unanimous: the count of results stands for the set of
\* probers.
CompleteCyclesSpeakForAll ==
    (pc = "send" /\ cause = "complete" /\ onTime) =>
        \A p \in Probers : \E r \in Results :
            /\ <<p, 0, r>> \in collected
            /\ r # "up" => Merged(SubOf[p]) # "Healthy"

\* A canceled orchestrator, which a configuration reload replaces by a new one,
\* sends at most one more report.
OneReportAfterCancel == late <= 1

\* "Draining channels before next cycle...", "Discarding old result": what a
\* report is made of was probed in its cycle.
NoOldResults == \A r \in collected : r[2] = 0

\* However many probes hang, reports keep being sent until the cancellation.
ReportsKeepComing == <>canceled \/ []<>(pc = "send")

\* A canceled orchestrator returns.
StopsWhenCanceled == canceled ~> pc = "exited"

\* Nothing of a prober that minds the context is left after that.
CtxAwareProbesEnd ==
    canceled ~> [](\A g \in CtxAware \X Slots : probe[g] = "none")
================================================================================
