------------------------------ MODULE MonitorProofs ------------------------------
(***************************************************************************)
(* Theorems about the component monitor's two loops.  Of ProbeOrchestrator, *)
(* for any probers and any number of late goroutines: the types, what a      *)
(* canceled orchestrator still does, and whom a complete cycle has heard.    *)
(* Of ConfigReload, whose watcher replaces the orchestrator, for any         *)
(* contents of the file: the types, and that it skips only what it serves.   *)
(***************************************************************************)
EXTENDS ProbeOrchestrator, ConfigReload, MergeProofs

\* Run and the probe goroutines keep their shape: in particular every report says
\* of a sub-component one of three things.
THEOREM TypeCorrect == Spec => []TypeOK
<1> USE OrchestratorAssumption
<1>1. Init => TypeOK
  <2>1. Init => onTime \in BOOLEAN /\ canceled \in BOOLEAN
    BY Zenon DEF Init
  <2>2. QED BY <2>1, SMT DEF Init, TypeOK, Results, Causes
<1>2. TypeOK /\ [Next]_vars => TypeOK'
  <2> SUFFICES ASSUME TypeOK, [Next]_vars PROVE TypeOK'
    OBVIOUS
  <2> USE DEF TypeOK, Results, Causes
  <2>1. CASE BeginCycle
    BY <2>1, SMT DEF BeginCycle
  <2>2. CASE DrainOne
    BY <2>2, SMT DEF DrainOne
  <2>3. CASE StartProbes
    <3>1. probe' \in [Probers \X Slots -> {"none", "running"} \cup Results]
      BY <2>3, SMT DEF StartProbes
    <3>2. onTime' \in BOOLEAN
      BY <2>3, Zenon DEF StartProbes
    <3>3. QED BY <2>3, <3>1, <3>2, SMT DEF StartProbes
  <2>4. CASE ReceiveResult
    BY <2>4, SMT DEF ReceiveResult, Sending
  <2>5. CASE CollectedAll
    BY <2>5, SMT DEF CollectedAll, StopCollecting
  <2>6. CASE CollectTimeout
    BY <2>6, SMT DEF CollectTimeout, StopCollecting
  <2>7. CASE CollectCanceled
    BY <2>7, SMT DEF CollectCanceled, StopCollecting
  <2>8. CASE SendReport
    <3>1. report' \in [Subs -> {"omitted", "Healthy", "failing"}]
      BY <2>8, SMT DEF SendReport, Merged
    <3>2. onTime' \in BOOLEAN /\ canceled' \in BOOLEAN
      BY <2>8, Zenon DEF SendReport
    <3>3. QED BY <2>8, <3>1, <3>2, SMT DEF SendReport
  <2>9. CASE NextCycle
    BY <2>9, SMT DEF NextCycle
  <2>10. CASE StopWaiting
    BY <2>10, SMT DEF StopWaiting
  <2>11. ASSUME NEW g \in Probers \X Slots, Probe(g) PROVE TypeOK'
    BY <2>11, SMT DEF Probe, Answer, GiveUpSend, Sending
  <2>12. CASE Cancel
    <3>1. canceled' \in BOOLEAN
      BY <2>12, Zenon DEF Cancel
    <3>2. QED BY <2>12, <3>1, SMT DEF Cancel
  <2>13. CASE UNCHANGED vars
    BY <2>13, SMT DEF vars
  <2>14. QED
    BY <2>1, <2>2, <2>3, <2>4, <2>5, <2>6, <2>7, <2>8, <2>9, <2>10, <2>11, <2>12, <2>13, Zenon
    DEF Next, Run
<1>3. QED BY <1>1, <1>2, PTL DEF Spec

--------------------------------------------------------------------------------
\* After its last report a canceled orchestrator is on its way out: it waits, or
\* checks the context before the next cycle, or has returned.
OnItsWayOut ==
    late > 0 => canceled /\ late = 1 /\ pc \in {"wait", "start", "exited"}

LEMMA WayOutStep == TypeOK /\ OnItsWayOut /\ [Next]_vars => OnItsWayOut'
<1> SUFFICES ASSUME TypeOK, OnItsWayOut, [Next]_vars PROVE OnItsWayOut'
  OBVIOUS
<1>a. (pc \in {"drain", "collect", "send"} => late = 0) /\ late \in 0..2
  BY SMT DEF TypeOK, OnItsWayOut
<1>b. ASSUME late' = late, late = 0 PROVE OnItsWayOut'
  BY <1>b, SMT DEF OnItsWayOut
<1>c. ASSUME late' = late, canceled' = canceled, pc \in {"wait", "start", "exited"},
             canceled => pc' \in {"wait", "start", "exited"}
      PROVE OnItsWayOut'
  BY <1>a, <1>c, Zenon DEF OnItsWayOut
<1>1. CASE BeginCycle
  BY <1>1, <1>c, Zenon DEF BeginCycle
<1>2. CASE DrainOne
  BY <1>2, <1>a, <1>b, Zenon DEF DrainOne
<1>3. CASE StartProbes
  BY <1>3, <1>a, <1>b, Zenon DEF StartProbes
<1>4. CASE ReceiveResult
  BY <1>4, <1>a, <1>b, Zenon DEF ReceiveResult
<1>5. CASE CollectedAll \/ CollectTimeout \/ CollectCanceled
  BY <1>5, <1>a, <1>b, Zenon DEF CollectedAll, CollectTimeout, CollectCanceled, StopCollecting
<1>6. CASE SendReport
  <2>1. late = 0 /\ canceled' = canceled /\ pc' = "wait"
    BY <1>6, <1>a, Zenon DEF SendReport
  <2>2. late' = IF canceled /\ late < 2 THEN late + 1 ELSE late
    BY <1>6, Zenon DEF SendReport
  <2>3. CASE canceled
    <3>1. late' = 1
      BY <2>1, <2>2, <2>3, SMT
    <3>2. QED BY <2>1, <2>3, <3>1, Zenon DEF OnItsWayOut
  <2>4. CASE ~canceled
    BY <2>1, <2>2, <2>4, <1>b, Zenon
  <2>5. QED BY <2>3, <2>4
<1>7. CASE NextCycle
  BY <1>7, <1>c, Zenon DEF NextCycle
<1>8. CASE StopWaiting
  BY <1>8, <1>c, Zenon DEF StopWaiting
<1>9. ASSUME NEW g \in Probers \X Slots, Probe(g) PROVE OnItsWayOut'
  <2>1. late' = late /\ canceled' = canceled /\ pc' = pc
    BY <1>9, Zenon DEF Probe, Answer, GiveUpSend
  <2>2. QED BY <2>1, Zenon DEF OnItsWayOut
<1>10. CASE Cancel
  <2>1. late' = late /\ canceled' /\ pc' = pc
    BY <1>10, Zenon DEF Cancel
  <2>2. QED BY <2>1, Zenon DEF OnItsWayOut
<1>11. CASE UNCHANGED vars
  <2>1. late' = late /\ canceled' = canceled /\ pc' = pc
    BY <1>11, Zenon DEF vars
  <2>2. QED BY <2>1, Zenon DEF OnItsWayOut
<1>12. QED
  BY <1>1, <1>2, <1>3, <1>4, <1>5, <1>6, <1>7, <1>8, <1>9, <1>10, <1>11, Zenon DEF Next, Run

\* However many probes hang and whatever the channel still delivers, an
\* orchestrator whose context was canceled posts at most one more report (Run
\* checks the context at the start of a cycle and while it waits).
THEOREM AtMostOneReport == Spec => []OneReportAfterCancel
<1>1. Init => OnItsWayOut
  BY SMT DEF Init, OnItsWayOut
<1>2. TypeOK /\ OnItsWayOut => OneReportAfterCancel
  BY SMT DEF TypeOK, OnItsWayOut, OneReportAfterCancel
<1>3. QED BY <1>1, <1>2, WayOutStep, TypeCorrect, PTL DEF Spec

--------------------------------------------------------------------------------
\* In a punctual cycle there is one goroutine per prober: its result is collected,
\* or it is still at work, and nothing of an earlier cycle is left.
Punctual ==
    (pc \in {"collect", "send"} /\ onTime) =>
        /\ \A g \in Probers \X Slots : g[2] # 0 => probe[g] = "none"
        /\ \A r \in collected : r[2] = 0 /\ probe[<<r[1], r[2]>>] = "none"
        /\ \A q, r \in collected : q[1] = r[1] => q = r

\* What ended the collection as complete.
AllIn ==
    (pc = "send" /\ cause = "complete") => Cardinality(collected) = Cardinality(Probers)

LEMMA PunctualStart ==
    ASSUME TypeOK, StartProbes
    PROVE  Punctual'
<1> SUFFICES ASSUME onTime' PROVE Punctual'
  BY Zenon DEF Punctual
<1>1. \A p \in Probers : Running(p) = {}
  BY Zenon DEF StartProbes
<1>2. PICK left \in [Probers -> Slots] :
        /\ \A p \in Probers : left[p] <= Cardinality(Running(p))
        /\ probe' = [g \in Probers \X Slots |->
                        IF g[2] <= left[g[1]] THEN "running" ELSE "none"]
  BY Zenon DEF StartProbes
<1>3. \A p \in Probers : left[p] <= 0
  BY <1>1, <1>2, FS_EmptySet, Zenon
<1>4. \A g \in Probers \X Slots : g[2] # 0 => probe'[g] = "none"
  BY <1>2, <1>3, OrchestratorAssumption, SMT DEF Slots
<1>5. collected' = {}
  BY Zenon DEF StartProbes
<1>6. QED BY <1>4, <1>5, Zenon DEF Punctual

LEMMA PunctualReceive ==
    ASSUME TypeOK, Punctual, ReceiveResult
    PROVE  Punctual'
<1> SUFFICES ASSUME onTime' PROVE Punctual'
  BY Zenon DEF Punctual
<1>1. pc = "collect" /\ onTime
  BY Zenon DEF ReceiveResult
<1>2. PICK g \in Probers \X Slots :
        /\ Sending(g)
        /\ collected' = collected \cup {<<g[1], g[2], probe[g]>>}
        /\ probe' = [probe EXCEPT ![g] = "none"]
  BY Zenon DEF ReceiveResult
<1>3. probe[g] # "none"
  BY <1>2, SMT DEF Sending, Results
<1>4. g[2] = 0 /\ g = <<g[1], 0>> /\ g[1] \in Probers
  BY <1>1, <1>3, SMT DEF Punctual
<1>5. \A h \in Probers \X Slots : probe'[h] = IF h = g THEN "none" ELSE probe[h]
  BY <1>2, SMT DEF TypeOK
<1>6. \A h \in Probers \X Slots : h[2] # 0 => probe'[h] = "none"
  BY <1>1, <1>5, SMT DEF Punctual
<1>7. \A r \in collected : r[2] = 0 /\ <<r[1], r[2]>> \in Probers \X Slots
  <2>1. \A r \in collected : <<r[1], r[2]>> \in Probers \X Slots
    BY SMT DEF TypeOK
  <2>2. QED BY <1>1, <2>1, Zenon DEF Punctual
<1>8. \A r \in collected : r[1] # g[1]
  <2>1. ASSUME NEW r \in collected, r[1] = g[1] PROVE FALSE
    <3>1. probe[<<r[1], r[2]>>] = "none"
      BY <1>1, Zenon DEF Punctual
    <3>2. <<r[1], r[2]>> = g
      <4>1. r[2] = 0
        BY <1>7
      <4>2. <<r[1], r[2]>> = <<g[1], 0>>
        BY <2>1, <4>1
      <4>3. QED BY <1>4, <4>2
    <3>3. QED BY <1>3, <3>1, <3>2, Zenon
  <2>2. QED BY <2>1, Zenon
<1>9. \A r \in collected' : r[2] = 0 /\ probe'[<<r[1], r[2]>>] = "none"
  <2>1. ASSUME NEW r \in collected PROVE r[2] = 0 /\ probe'[<<r[1], r[2]>>] = "none"
    <3>1. probe[<<r[1], r[2]>>] = "none" /\ r[2] = 0
      BY <1>1, Zenon DEF Punctual
    <3>2. QED BY <1>5, <1>7, <3>1, Zenon
  <2>2. ASSUME NEW r, r = <<g[1], g[2], probe[g]>>
        PROVE  r[2] = 0 /\ probe'[<<r[1], r[2]>>] = "none"
    <3>1. r[2] = 0 /\ <<r[1], r[2]>> = g
      BY <1>4, <2>2, SMT
    <3>2. QED BY <1>5, <3>1, Zenon
  <2>3. QED BY <1>2, <2>1, <2>2, Zenon
<1>10. \A q, r \in collected' : q[1] = r[1] => q = r
  <2>1. \A q, r \in collected : q[1] = r[1] => q = r
    BY <1>1, Zenon DEF Punctual
  <2>2. <<g[1], g[2], probe[g]>>[1] = g[1]
    OBVIOUS
  <2>3. QED BY <1>2, <1>8, <2>1, <2>2, Zenon
<1>11. QED BY <1>6, <1>9, <1>10, Zenon DEF Punctual

\* A goroutine that answers or gives up is not one whose result is collected.
LEMMA PunctualProbe ==
    ASSUME TypeOK, Punctual, NEW g \in Probers \X Slots, Probe(g)
    PROVE  Punctual'
<1> SUFFICES ASSUME pc' \in {"collect", "send"}, onTime' PROVE Punctual'
  BY Zenon DEF Punctual
<1>1. pc' = pc /\ onTime' = onTime /\ collected' = collected
  BY Zenon DEF Probe, Answer, GiveUpSend
<1>2. probe[g] # "none" /\ \E w : probe' = [probe EXCEPT ![g] = w]
  <2>1. CASE Answer(g)
    <3>1. probe[g] = "running" /\ \E w : probe' = [probe EXCEPT ![g] = w]
      BY <2>1, Zenon DEF Answer
    <3>2. QED BY <3>1, Zenon
  <2>2. CASE GiveUpSend(g)
    <3>1. probe' = [probe EXCEPT ![g] = "none"] /\ probe[g] \in Results
      BY <2>2, Zenon DEF GiveUpSend, Sending
    <3>2. probe[g] # "none"
      BY <3>1, SMT DEF Results
    <3>3. QED BY <3>1, <3>2, Zenon
  <2>3. QED BY <2>1, <2>2, Zenon DEF Probe
<1>3. \A h \in Probers \X Slots : probe[h] = "none" => probe'[h] = "none"
  BY <1>2, SMT DEF TypeOK
<1>4. \A r \in collected : <<r[1], r[2]>> \in Probers \X Slots
  BY SMT DEF TypeOK
<1>5. QED BY <1>1, <1>3, <1>4, Zenon DEF Punctual

\* Everything else leaves the cycle's goroutines and results alone, or ends it.
LEMMA PunctualOther ==
    ASSUME Punctual, probe' = probe, collected' = collected, onTime' = onTime,
           pc' \in {"collect", "send"} => pc \in {"collect", "send"}
    PROVE  Punctual'
BY Zenon DEF Punctual

LEMMA PunctualStep == TypeOK /\ Punctual /\ [Next]_vars => Punctual'
<1> SUFFICES ASSUME TypeOK, Punctual, [Next]_vars PROVE Punctual'
  OBVIOUS
<1>1. CASE BeginCycle
  BY <1>1, SMT DEF BeginCycle, Punctual
<1>2. CASE DrainOne
  BY <1>2, SMT DEF DrainOne, Punctual
<1>3. CASE StartProbes
  BY <1>3, PunctualStart
<1>4. CASE ReceiveResult
  BY <1>4, PunctualReceive
<1>5. CASE CollectedAll \/ CollectTimeout \/ CollectCanceled
  BY <1>5, PunctualOther, Zenon
  DEF CollectedAll, CollectTimeout, CollectCanceled, StopCollecting
<1>6. CASE SendReport
  BY <1>6, SMT DEF SendReport, Punctual
<1>7. CASE NextCycle \/ StopWaiting
  <2>1. pc' \in {"start", "exited"}
    BY <1>7, Zenon DEF NextCycle, StopWaiting
  <2>2. QED BY <2>1, SMT DEF Punctual
<1>8. ASSUME NEW g \in Probers \X Slots, Probe(g) PROVE Punctual'
  BY <1>8, PunctualProbe
<1>9. CASE Cancel
  BY <1>9, PunctualOther, Zenon DEF Cancel
<1>10. CASE UNCHANGED vars
  BY <1>10, PunctualOther, Zenon DEF vars
<1>11. QED
  BY <1>1, <1>2, <1>3, <1>4, <1>5, <1>6, <1>7, <1>8, <1>9, <1>10, Zenon DEF Next, Run

LEMMA AllInStep == AllIn /\ [Next]_vars => AllIn'
<1> SUFFICES ASSUME AllIn, [Next]_vars PROVE AllIn'
  OBVIOUS
<1>1. CASE BeginCycle \/ DrainOne \/ StartProbes \/ ReceiveResult
  BY <1>1, SMT DEF BeginCycle, DrainOne, StartProbes, ReceiveResult, AllIn
<1>2. CASE CollectedAll
  BY <1>2, Zenon DEF CollectedAll, StopCollecting, AllIn
<1>3. CASE CollectTimeout \/ CollectCanceled
  BY <1>3, SMT DEF CollectTimeout, CollectCanceled, StopCollecting, AllIn
<1>4. CASE SendReport \/ NextCycle \/ StopWaiting
  BY <1>4, SMT DEF SendReport, NextCycle, StopWaiting, AllIn
<1>5. ASSUME NEW g \in Probers \X Slots, Probe(g) PROVE AllIn'
  BY <1>5, Zenon DEF Probe, Answer, GiveUpSend, AllIn
<1>6. CASE Cancel \/ UNCHANGED vars
  BY <1>6, Zenon DEF Cancel, vars, AllIn
<1>7. QED
  BY <1>1, <1>2, <1>3, <1>4, <1>5, <1>6, Zenon DEF Next, Run

\* As many results as probers, and no two of one prober: the map from results to
\* their probers, which is injective, reaches every prober.
LEMMA EveryProberIsHeard ==
    ASSUME TypeOK, Punctual, AllIn, pc = "send", cause = "complete", onTime
    PROVE  \A p \in Probers : \E r \in Results : <<p, 0, r>> \in collected
<1> DEFINE of == [r \in collected |-> r[1]]
<1>1. of \in Injection(collected, Probers)
  <2>1. of \in [collected -> Probers]
    BY SMT DEF TypeOK
  <2>2. \A q, r \in collected : q[1] = r[1] => q = r
    BY Zenon DEF Punctual
  <2>3. IsInjective(of)
    BY <2>2, Zenon DEF IsInjective
  <2>4. QED BY <2>1, <2>3, Zenon DEF Injection
<1>2. Cardinality(collected) = Cardinality(Probers)
  BY Zenon DEF AllIn
<1>3. of \in Surjection(collected, Probers)
  <2>1. IsFiniteSet(Probers)
    BY OrchestratorAssumption
  <2> HIDE DEF of
  <2>2. QED BY <1>1, <1>2, <2>1, FS_Injection, Zenon
<1>4. \A p \in Probers : \E q \in collected : q[1] = p
  BY <1>3, Zenon DEF Surjection
<1>5. \A q \in collected : q[2] = 0
  BY Zenon DEF Punctual
<1>6. \A q \in collected : q = <<q[1], q[2], q[3]>> /\ q[3] \in Results
  BY SMT DEF TypeOK
<1>7. SUFFICES ASSUME NEW p \in Probers PROVE \E r \in Results : <<p, 0, r>> \in collected
  OBVIOUS
<1>8. PICK q \in collected : q[1] = p
  BY <1>4
<1>9. q = <<p, 0, q[3]>> /\ q[3] \in Results
  BY <1>5, <1>6, <1>8
<1>10. QED BY <1>9, Zenon

\* For any number of probers, a collection that ends because all results are in
\* (collectProbeResults counts results, not probers) has heard each of them if no
\* late goroutine was left at its start, and reports healthy only what all of them
\* found healthy.
THEOREM CompleteIsUnanimous == Spec => []CompleteCyclesSpeakForAll
<1>1. Init => Punctual /\ AllIn
  BY SMT DEF Init, Punctual, AllIn
<1>2. TypeOK /\ Punctual /\ AllIn => CompleteCyclesSpeakForAll
  <2> SUFFICES ASSUME TypeOK, Punctual, AllIn, pc = "send", cause = "complete", onTime,
                      NEW p \in Probers
               PROVE  \E r \in Results : /\ <<p, 0, r>> \in collected
                                         /\ r # "up" => Merged(SubOf[p]) # "Healthy"
    BY Zenon DEF CompleteCyclesSpeakForAll
  <2>1. PICK r \in Results : <<p, 0, r>> \in collected
    BY EveryProberIsHeard, Zenon
  <2>2. ASSUME r # "up" PROVE Merged(SubOf[p]) # "Healthy"
    <3> DEFINE said == {w[3] : w \in {q \in collected : SubOf[q[1]] = SubOf[p]}}
    <3>1. r \in said
      <4>1. <<p, 0, r>>[1] = p /\ <<p, 0, r>>[3] = r
        OBVIOUS
      <4>2. QED BY <2>1, <4>1, Zenon
    <3>2. said # {"up"}
      BY <2>2, <3>1, Zenon
    <3>3. Merged(SubOf[p]) = CASE "down" \in said -> "failing"
                               [] said = {"up"}   -> "Healthy"
                               [] OTHER           -> "omitted"
      BY Zenon DEF Merged
    <3> HIDE DEF said
    <3>4. QED BY <3>2, <3>3, SMT
  <2>3. QED BY <2>1, <2>2, Zenon
<1>3. QED BY <1>1, <1>2, PunctualStep, AllInStep, TypeCorrect, PTL DEF Spec

--------------------------------------------------------------------------------
(***************************************************************************)
(* The merge, as ProbeOrchestrator sees it: of a result only whether it is  *)
(* up, down or an error, of a status only whether it is failing.            *)
(***************************************************************************)
ClassOf(r) == IF r.error THEN "error" ELSE IF Unhealthy(r) THEN "down" ELSE "up"

ReportedAs(status) == IF status \in {"omitted", "Healthy"} THEN status ELSE "failing"

\* A result is an error, or has a status that is healthy or a severity.
ProbeResults(C) ==
    [status : Severities \cup {"Healthy"}, reasons : Seq(C), error : BOOLEAN]

\* What Merged says of a sub-component is what mergeStatusesForSubComponent makes of its results,
\* if they are of the classes that were collected, in whichever order: nothing else of a result
\* decides between failing, healthy and omitted.
THEOREM MergedIsTheMerge ==
    ASSUME NEW C, NEW group \in Seq(ProbeResults(C)), NEW s \in Subs,
           {ClassOf(r) : r \in Range(group)} =
               {q[3] : q \in {x \in collected : SubOf[x[1]] = s}}
    PROVE  ReportedAs(MergeStatusesForSubComponent(group).status) = Merged(s)
<1> DEFINE R == ProbeResults(C)
      said == MergeStatusesForSubComponent(group)
      Answers == {r \in Range(group) : ~r.error}
      classes == {ClassOf(r) : r \in Range(group)}
<1>1. \A r \in R : r.error \in BOOLEAN /\ r.reasons \in Seq(C) /\ r.status \in Severities \cup {"Healthy"}
  BY DEF ProbeResults
<1>2. Range(group) \subseteq R
  <2>1. group \in Seq(R)
    OBVIOUS
  <2> HIDE DEF R
  <2> QED
    BY <2>1 DEF Range
<1>3. /\ \A r \in Answers : r.status \in Severities => said.status \in Severities
      /\ said.status \notin {"omitted", "Healthy"} => \E r \in Answers : r.status = said.status
      /\ said.status = "omitted" <=>
            \/ Answers = {}
            \/ (\E r \in Range(group) : r.error) /\ \A r \in Answers : ~Unhealthy(r)
  <2>1. /\ \A r \in Answers : r.status \in Severities =>
              /\ said.status \in Severities
              /\ Level(said.status) >= Level(r.status)
              /\ Range(r.reasons) \subseteq Range(said.reasons)
        /\ said.status \notin {"omitted", "Healthy"} =>
              /\ said.status \in Severities /\ \E r \in Answers : r.status = said.status
              /\ said.reasons \in Seq(C)
              /\ Range(said.reasons) = UNION {Range(r.reasons) : r \in {x \in Answers : Unhealthy(x)}}
        /\ said.status = "Healthy" =>
              /\ \A r \in Answers : r.status \notin Severities
              /\ (\E r \in Range(group) : r.error) => \E r \in Answers : Unhealthy(r)
        /\ said.status = "omitted" <=>
              \/ Answers = {}
              \/ (\E r \in Range(group) : r.error) /\ \A r \in Answers : ~Unhealthy(r)
    <3>1. \A r \in R : r.error \in BOOLEAN /\ r.reasons \in Seq(C)
      BY <1>1
    <3> HIDE DEF R
    <3>2. group \in Seq(R)
      BY DEF R
    <3> QED
      BY <3>1, <3>2, MergeTells, Zenon
  <2> HIDE DEF said, Answers
  <2> QED
    BY <2>1
<1>4. Merged(s) = (CASE "down" \in classes -> "failing"
                     [] classes = {"up"}   -> "Healthy"
                     [] OTHER              -> "omitted")
  BY DEF Merged
<1>5. /\ "error" \in classes <=> \E r \in Range(group) : r.error
      /\ "down" \in classes <=> \E r \in Answers : Unhealthy(r)
      /\ "up" \in classes <=> \E r \in Answers : ~Unhealthy(r)
  <2>1. \A r \in Range(group) : /\ ClassOf(r) = "error" <=> r.error
                                /\ ClassOf(r) = "down" <=> ~r.error /\ Unhealthy(r)
                                /\ ClassOf(r) = "up" <=> ~r.error /\ ~Unhealthy(r)
    BY DEF ClassOf
  <2>2. \A c : c \in classes <=> \E r \in Range(group) : ClassOf(r) = c
    OBVIOUS
  <2>3. \A r : r \in Answers <=> r \in Range(group) /\ ~r.error
    OBVIOUS
  <2> HIDE DEF classes, Answers
  <2>4. "error" \in classes <=> \E r \in Range(group) : r.error
    BY <2>1, <2>2
  <2>5. "down" \in classes <=> \E r \in Answers : Unhealthy(r)
    BY <2>1, <2>2, <2>3
  <2>6. "up" \in classes <=> \E r \in Answers : ~Unhealthy(r)
    BY <2>1, <2>2, <2>3
  <2> QED
    BY <2>4, <2>5, <2>6
<1>6. classes \subseteq {"up", "down", "error"}
  BY DEF ClassOf
<1>7. "omitted" \notin Severities /\ "Healthy" \notin Severities
  BY DEF Severities
<1>8. \A r \in Answers : Unhealthy(r) <=> r.status \in Severities
  BY <1>1, <1>2, <1>7 DEF Unhealthy
<1> HIDE DEF said, classes, Answers, R
<1>9. CASE "down" \in classes
  <2>1. said.status \in Severities
    BY <1>3, <1>5, <1>8, <1>9
  <2> QED
    BY <1>4, <1>7, <1>9, <2>1 DEF ReportedAs, said
<1>10. CASE "down" \notin classes
  <2>1. said.status \in {"omitted", "Healthy"}
    BY <1>3, <1>5, <1>10 DEF Unhealthy
  <2>2. Answers = {} <=> "up" \notin classes
    BY <1>5, <1>10
  <2>3. said.status = "omitted" <=> "up" \notin classes \/ "error" \in classes
    BY <1>3, <1>5, <1>10, <2>2
  <2>4. classes = {"up"} <=> "up" \in classes /\ "error" \notin classes
    BY <1>6, <1>10
  <2> QED
    BY <1>4, <1>10, <2>1, <2>3, <2>4 DEF ReportedAs, said
<1> QED
  BY <1>9, <1>10

--------------------------------------------------------------------------------
(***************************************************************************)
(* The configuration manager.                                               *)
(***************************************************************************)
\* The manager and its watcher keep their shape: only validated content is ever
\* served (manager.go, load) or used.
THEOREM ReloadTypeCorrect == ReloadSpec => []ReloadTypeOK
<1> USE ReloadAssumption DEF ReloadAssumption
<1>1. ReloadInit => ReloadTypeOK
  <2>1. ReloadInit => refused \in BOOLEAN
    BY Zenon DEF ReloadInit
  <2>2. QED BY <2>1, SMT DEF ReloadInit, ReloadTypeOK, None
<1>2. ReloadTypeOK /\ [ReloadNext]_reloadVars => ReloadTypeOK'
  <2> SUFFICES ASSUME ReloadTypeOK, [ReloadNext]_reloadVars PROVE ReloadTypeOK'
    OBVIOUS
  <2> USE DEF ReloadTypeOK
  <2>1. CASE Load
    BY <2>1, SMT DEF Load
  <2>2. CASE HashAndWatch
    BY <2>2, SMT DEF HashAndWatch
  <2>3. CASE ApplyFirst
    <3>1. config \in Valid \cup {None} /\ applied' \in {config, applied}
      BY <2>3, Zenon DEF ApplyFirst
    <3>2. QED BY <2>3, <3>1, SMT DEF ApplyFirst
  <2>4. CASE OnUpdate
    BY <2>4, SMT DEF OnUpdate
  <2>5. CASE HashIfChanged
    BY <2>5, SMT DEF HashIfChanged
  <2>6. CASE Reload
    BY <2>6, SMT DEF Reload
  <2>7. CASE Callback
    <3>1. applied' \in Valid \cup {None} /\ refused' \in BOOLEAN
      BY <2>7, Zenon DEF Callback
    <3>2. QED BY <2>7, <3>1, SMT DEF Callback
  <2>8. CASE Edit
    BY <2>8, SMT DEF Edit
  <2>9. CASE UNCHANGED reloadVars
    BY <2>9, SMT DEF reloadVars
  <2>10. QED
    BY <2>1, <2>2, <2>3, <2>4, <2>5, <2>6, <2>7, <2>8, <2>9, Zenon DEF ReloadNext, Start, Poll
<1>3. QED BY <1>1, <1>2, PTL DEF ReloadSpec

--------------------------------------------------------------------------------
\* What the hash of the served content and the hash taken in this poll say of a
\* file that only moves on.
HashesAreBehind ==
    /\ main = "hash" => config = file
    /\ main \in {"load", "hash"} => lastHash = None /\ poll = "idle"
    /\ lastHash \in Contents => lastHash <= file
    /\ poll = "load" => newHash \in Contents /\ newHash <= file
    /\ lastHash = file => config = file

\* If the file changes only after startup and never goes back to an earlier
\* content, the watcher (reloadIfChanged) never takes content it does not serve for
\* unchanged.
THEOREM NothingSkipped ==
    ASSUME Reverts = FALSE, StartupEdits = FALSE
    PROVE  ReloadSpec => []SkippedOnlyWhenServed
<1> USE ReloadAssumption DEF ReloadAssumption
<1>1. ReloadInit => HashesAreBehind
  BY SMT DEF ReloadInit, HashesAreBehind, None
<1>2. ReloadTypeOK /\ ReloadTypeOK' /\ HashesAreBehind /\ [ReloadNext]_reloadVars => HashesAreBehind'
  <2> SUFFICES ASSUME ReloadTypeOK, ReloadTypeOK', HashesAreBehind, [ReloadNext]_reloadVars PROVE HashesAreBehind'
    OBVIOUS
  <2> USE DEF ReloadTypeOK, HashesAreBehind, None
  <2>1. CASE Load
    BY <2>1, SMT DEF Load
  <2>2. CASE HashAndWatch
    BY <2>2, SMT DEF HashAndWatch
  <2>3. CASE ApplyFirst
    BY <2>3, SMT DEF ApplyFirst
  <2>4. CASE OnUpdate
    BY <2>4, SMT DEF OnUpdate
  <2>5. CASE HashIfChanged
    BY <2>5, SMT DEF HashIfChanged, Watching
  <2>6. CASE Reload
    BY <2>6, SMT DEF Reload, Watching
  <2>7. CASE Callback
    BY <2>7, SMT DEF Callback, Watching
  <2>8. CASE Edit
    BY <2>8, SMT DEF Edit
  <2>9. CASE UNCHANGED reloadVars
    BY <2>9, SMT DEF reloadVars
  <2>10. QED
    BY <2>1, <2>2, <2>3, <2>4, <2>5, <2>6, <2>7, <2>8, <2>9, Zenon DEF ReloadNext, Start, Poll
<1>3. HashesAreBehind => SkippedOnlyWhenServed
  BY Zenon DEF HashesAreBehind, SkippedOnlyWhenServed
<1>4. QED BY <1>1, <1>2, <1>3, ReloadTypeCorrect, PTL DEF ReloadSpec
================================================================================
