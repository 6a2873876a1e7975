------------------------------- MODULE Dashboard -------------------------------
(***************************************************************************)
(* The dashboard server: report processing and the absent-report checker   *)
(* next to each other, with people who create, edit and delete outages,    *)
(* the configuration file that is reloaded under all of them, the passing  *)
(* of time, and restarts.                                                   *)
(***************************************************************************)
EXTENDS ReportProcessing, AbsentChecker

CONSTANTS
    Editors,   \* goroutines serving PATCH requests
    Edits,     \* what people ask for: a subset of {"end", "reopen", "confirm", "unconfirm"}
    MaxUser    \* bound: active outages people have opened at one time

ASSUME EditAssumption == Edits \subseteq {"end", "reopen", "confirm", "unconfirm"}

VARIABLE editor  \* each PATCH request: the slot it works on and its edited copy

vars == <<config, outages, pings, handler, told, checker, editor>>

Editing == [slot : Slots, copy : Outage]

TypeOK ==
    /\ StateTypeOK
    /\ ReportTypeOK
    /\ CheckerTypeOK
    /\ editor \in [Editors -> Editing \cup {Idle}]

Init ==
    /\ StateInit
    /\ ReportInit
    /\ CheckerInit
    /\ editor = [e \in Editors |-> Idle]

HeldByEditor(e) == IF editor[e] = Idle THEN {} ELSE {editor[e].slot}

\* Slots a new outage may take: nobody holds a copy of the ended row in them.
FreeSlots == Free((UNION {HeldByHandler(h) : h \in Handlers})
                    \cup HeldByChecker \cup (UNION {HeldByEditor(e) : e \in Editors}))

\* A person has changed an outage of s: what a report said before no longer
\* tells what the table should hold.
Forget(s) == told' = [m \in Monitors |-> [told[m] EXCEPT ![s] = "nothing"]]

(***************************************************************************)
(* People.  A PATCH edits a copy of the row and saves it in a later step.   *)
(* Where an outage was discovered is what the body of the POST says: nothing *)
(* keeps a person from declaring it an absent report.                       *)
(***************************************************************************)
UserCreates(s) ==
    /\ Configured(s)
    /\ Cardinality({i \in Slots : outages[i] # NoOutage /\ ~outages[i].ended
                                    /\ outages[i].by = EndUser}) < MaxUser
    /\ \E confirmed \in BOOLEAN, source \in {Frontend, ComponentMonitor, AbsentReportSource} :
         CreateOutage(FreeSlots,
             [sub |-> s, by |-> EndUser, source |-> source, ended |-> FALSE,
              confirmed |-> confirmed \/ ~config[s].requiresConfirmation])
    /\ UNCHANGED <<config, pings, reportVars, checker, editor>>

Edited(o, edit) ==
    CASE edit = "end"       -> [o EXCEPT !.ended = TRUE]
      [] edit = "reopen"    -> [o EXCEPT !.ended = FALSE]
      [] edit = "confirm"   -> [o EXCEPT !.confirmed = TRUE]
      [] edit = "unconfirm" -> [o EXCEPT !.confirmed = FALSE]

UserLoads(e, i, edit) ==
    /\ editor[e] = Idle
    /\ outages[i] # NoOutage
    /\ Configured(outages[i].sub)
    /\ editor' = [editor EXCEPT ![e] = [slot |-> i, copy |-> Edited(outages[i], edit)]]
    /\ UNCHANGED <<state, reportVars, checker>>

UserSaves(e) ==
    /\ editor[e] # Idle
    /\ UpdateOutage(editor[e].slot, editor[e].copy)
    /\ Forget(editor[e].copy.sub)
    /\ editor' = [editor EXCEPT ![e] = Idle]
    /\ UNCHANGED <<config, pings, handler, checker>>

UserDeletes(i) ==
    /\ outages[i] # NoOutage
    /\ Configured(outages[i].sub)
    /\ outages' = [outages EXCEPT ![i] = NoOutage]
    /\ Forget(outages[i].sub)
    /\ UNCHANGED <<config, pings, handler, checker, editor>>

(***************************************************************************)
(* The world around.                                                        *)
(***************************************************************************)
ReloadConfig ==
    /\ config' \in Configs
    /\ config' # config
    /\ UNCHANGED <<outages, pings, reportVars, checker, editor>>

Tick ==
    /\ pings' = [s \in Subs |-> Older(pings[s])]
    /\ UNCHANGED <<config, outages, reportVars, checker, editor>>

Restart ==
    /\ Faults
    /\ handler' = [h \in Handlers |-> Idle]
    /\ checker' = CheckerIdle
    /\ editor' = [e \in Editors |-> Idle]
    /\ told' = [m \in Monitors |-> [s \in Subs |-> "nothing"]]
    /\ UNCHANGED state

ReportAction ==
    /\ \E h \in Handlers :
         \/ \E m \in Monitors, r \in Reports : ReceiveReport(h, m, r)
         \/ HandlerStep(h, FreeSlots)
         \/ FailRequest(h)
    /\ UNCHANGED <<checker, editor>>

CheckerAction == (CheckerStep(FreeSlots) \/ SkipSub) /\ UNCHANGED <<reportVars, editor>>

UserAction ==
    \/ \E s \in Subs : UserCreates(s)
    \/ \E e \in Editors, i \in Slots, edit \in Edits : UserLoads(e, i, edit)
    \/ \E e \in Editors : UserSaves(e)
    \/ \E i \in Slots : UserDeletes(i)

Next ==
    \/ ReportAction
    \/ CheckerAction
    \/ UserAction
    \/ ReloadConfig
    \/ Tick
    \/ Restart

Spec == Init /\ [][Next]_vars

--------------------------------------------------------------------------------
(***************************************************************************)
(* Properties.                                                              *)
(***************************************************************************)
ActiveRow(i) == outages[i] # NoOutage /\ ~outages[i].ended

ActiveBy(s, by) == {i \in Slots : ActiveRow(i) /\ outages[i].sub = s /\ outages[i].by = by}

\* "Active outage from this component-monitor already exists, skipping creation":
\* whoever opens outages automatically has at most one active per sub-component,
\* as long as a monitor's reports are processed one at a time and people who edit
\* an outage only end it, whatever is reloaded, deleted or restarted.  Any other
\* edit saves the end time it has read, and with it reopens what was ended.
OneActivePerSource ==
    \A s \in Subs, by \in Monitors \cup {AbsentReportCreator} :
        Cardinality(ActiveBy(s, by)) <= 1

\* After a report has been processed the table agrees with it: nothing of its
\* monitor is active where it said healthy (and may resolve), something is
\* where it said unhealthy, until a person changes it or the next report comes.
ReportedStateHolds ==
    \A m \in Monitors, s \in Subs :
        /\ told[m][s] = "healthy" => ActiveBy(s, m) = {}
        /\ told[m][s] = "unhealthy" => ActiveBy(s, m) # {}

EndsRow(i) == ActiveRow(i) /\ outages'[i] # NoOutage /\ outages'[i].ended

PersonSaved == \E e \in Editors : editor[e] # Idle /\ editor'[e] = Idle

ItsMonitorResolved(i) ==
    \E h \in Handlers : /\ handler[h].pc = "resolve"
                        /\ handler'[h] # handler[h]
                        /\ outages[i].by = Monitor(h)
                        /\ Current(h).status = "Healthy"
                        /\ handler[h].cfg.autoResolve

CheckerResolved(i) ==
    /\ checker.pc = "resolve"
    /\ checker' # checker
    /\ outages[i].source = AbsentReportSource
    /\ ~checker.absent
    /\ checker.cfg[checker.sub].autoResolve

\* Nothing ends without a cause: an end time is set by a PATCH, by a healthy
\* report of the monitor that opened the outage, or, with a ping in time, by the
\* checker for an outage that says it was discovered from an absent report, be it
\* the checker's own or a person's; the latter two only under a configuration
\* that allows auto-resolution.
EndedForCause ==
    [][\A i \in Slots :
          EndsRow(i) => PersonSaved \/ ItsMonitorResolved(i) \/ CheckerResolved(i)]_vars

\* What the code does not promise: that automation ends only what it opened.
EndedByOwnerOnly ==
    [][\A i \in Slots :
          EndsRow(i) => \/ PersonSaved \/ ItsMonitorResolved(i)
                        \/ CheckerResolved(i) /\ outages[i].by = AbsentReportCreator]_vars

\* "This should never happen, since the request validation should have caught
\* this": a status that passed validation names a configured sub-component when
\* it is processed.
KnownAfterValidation ==
    \A h \in Handlers : handler[h].pc = "lookup" => Configured(Current(h).sub)

(***************************************************************************)
(* Liveness.  The checker's goroutine runs: its timer keeps ticking and    *)
(* its statements return.                                                   *)
(***************************************************************************)
FairSpec == Spec /\ WF_vars(CheckerAction)

ActiveAbsent(s) == {i \in Slots : ActiveRow(i) /\ outages[i].sub = s
                                     /\ outages[i].source = AbsentReportSource}

\* No report has come within three reporting intervals, or none ever.
Silent(s) == pings[s] = NoPing \/ pings[s] > Threshold

\* A monitored sub-component whose monitor stays silent has an active outage
\* again and again, even when people end or delete it.
AbsenceIsReported ==
    \A s \in Subs :
        <>[](Monitored(config[s]) /\ Silent(s)) => []<>(ActiveAbsent(s) # {})

\* Once reports keep coming in time, the checker's outage goes away where
\* auto-resolution is on, also next to people's that say they are absent reports.
PresenceIsNoticed ==
    \A s \in Subs :
        <>[](Monitored(config[s]) /\ config[s].autoResolve /\ ~Silent(s))
            => []<>(ActiveBy(s, AbsentReportCreator) = {})
================================================================================
