------------------------------- MODULE ProbeCycle --------------------------------
(***************************************************************************)
(* One cycle of the component monitor end to end: a configuration file is  *)
(* accepted, its probers are created, ask what they monitor, and the report *)
(* is merged from the results that arrived.                                 *)
(*                                                                         *)
(* What is monitored is fixed when a cycle starts: a target is up or down   *)
(* all the time, cannot be asked, or changes as it likes; an HTTP target    *)
(* may also fail at first and recover within its retry_after.  Time passes  *)
(* in ticks of which a cycle has file.frequency.                            *)
(*                                                                         *)
(* A goroutine that is still asking when the next cycle starts, and may     *)
(* answer into it, is the matter of ProbeOrchestrator: here the next cycle  *)
(* waits for it.                                                            *)
(***************************************************************************)
EXTENDS MonitorConfig, StatusMerge

CONSTANTS Files    \* what the configuration file may contain

ASSUME FilesAssumption ==
    \A f \in Files :
        /\ f.components \in Seq([sub : STRING, monitors : SUBSET Monitors])
        /\ \A i \in DOMAIN f.components : IsFiniteSet(f.components[i].monitors)

VARIABLES
    pc,        \* where the orchestrator is
    file,      \* the configuration it runs with
    truth,     \* target -> how it is in this cycle
    probe,     \* prober -> its goroutine
    results,   \* collected in this cycle, in the order of their arrival
    clock,     \* ticks since the start of the cycle
    canceled,  \* the context: a shutdown, or a reload that replaces the orchestrator
    cause,     \* history: why the collection ended
    report     \* sub-component -> what the report says of it

vars == <<pc, file, truth, probe, results, clock, canceled, cause, report>>

Probers == CreateProbers(file)

Subs == {g.sub : g \in Probers}

\* What a prober asks, in its order, and where.
Questions(m) ==
    IF m.kind = "prometheus" THEN m.queries
    ELSE <<[check |-> m.check, severity |-> m.severity]>>

Target(m, i) ==
    <<IF m.kind = "prometheus" THEN Address(m.location) ELSE [monitor |-> m.kind],
      Questions(m)[i].check>>

Targets(m) == {Target(m, i) : i \in DOMAIN Questions(m)}

AllTargets == UNION {Targets(g.monitor) : g \in Probers}

Conditions(t) ==
    {"up", "down", "error", "changing"} \cup
    (IF t[1] = [monitor |-> "http"] THEN {"recovering"} ELSE {})

Init ==
    /\ pc = "load"
    /\ file = [frequency |-> 0, components |-> <<>>]
    /\ truth = <<>> /\ probe = <<>> /\ results = <<>> /\ report = <<>>
    /\ clock = 0
    /\ canceled = FALSE
    /\ cause = "none"

--------------------------------------------------------------------------------
(***************************************************************************)
(* The orchestrator.                                                        *)
(***************************************************************************)
\* A file that is refused, or has no probers, starts no orchestrator; nor does one
\* whose clients cannot be made.
StartOrchestratorWithConfig ==
    /\ pc = "load"
    /\ \E f \in Files : Accepts(f) /\ CreateProbers(f) # {} /\ file' = f
    /\ pc' = "start"
    /\ canceled' = FALSE
    /\ UNCHANGED <<truth, probe, results, clock, cause, report>>

Asking(g) == probe[g].pc \in {"ask", "confirm"}

\* Goroutines of the last cycle that wait in their send are drained.
StartProbes ==
    /\ pc = "start"
    /\ ~canceled
    /\ pc' = "collect"
    /\ truth' \in {t \in [AllTargets -> UNION {Conditions(x) : x \in AllTargets}] :
                      \A x \in AllTargets : t[x] \in Conditions(x)}
    /\ probe' = [g \in Probers |->
                    [pc |-> "ask", at |-> 1, failed |-> <<>>, until |-> 0, result |-> <<>>]]
    /\ results' = <<>> /\ report' = <<>>
    /\ clock' = 0
    /\ cause' = "none"
    /\ UNCHANGED <<file, canceled>>

Receive(g) ==
    /\ pc = "collect"
    /\ probe[g].pc = "send"
    /\ results' = Append(results, probe[g].result)
    /\ probe' = [probe EXCEPT ![g].pc = "gone"]
    /\ UNCHANGED <<pc, file, truth, clock, canceled, cause, report>>

StopCollecting(why) ==
    /\ pc = "collect"
    /\ pc' = "send"
    /\ cause' = why
    /\ UNCHANGED <<file, truth, probe, results, clock, canceled, report>>

AllHeard == Len(results) = Cardinality(Probers)

CollectedAll == AllHeard /\ StopCollecting("complete")

CollectTimeout == clock = file.frequency /\ ~AllHeard /\ StopCollecting("timeout")

CollectCanceled == canceled /\ ~AllHeard /\ StopCollecting("canceled")

ResultsOf(s) == Select({r \in Range(results) : r.by.sub = s}, results)

MergeStatuses == [s \in Subs |-> MergeStatusesForSubComponent(ResultsOf(s))]

SendReport ==
    /\ pc = "send"
    /\ report' = MergeStatuses
    /\ pc' = "wait"
    /\ UNCHANGED <<file, truth, probe, results, clock, canceled, cause>>

\* The rest of the cycle is slept through, unless the context is canceled.
WaitForNextCycle ==
    /\ pc = "wait"
    /\ \A g \in Probers : ~Asking(g)
    /\ pc' = "start"
    /\ UNCHANGED <<file, truth, probe, results, clock, canceled, cause, report>>

\* Run returns; the reload that canceled it has started another orchestrator, with
\* a channel of its own.
Exit ==
    /\ pc \in {"start", "wait"}
    /\ canceled
    /\ pc' = "load"
    /\ truth' = <<>> /\ probe' = <<>> /\ results' = <<>> /\ report' = <<>>
    /\ clock' = 0
    /\ cause' = "none"
    /\ UNCHANGED <<file, canceled>>

Cancel ==
    /\ pc # "load"
    /\ ~canceled
    /\ canceled' = TRUE
    /\ UNCHANGED <<pc, file, truth, probe, results, clock, cause, report>>

\* A cycle has file.frequency ticks; beyond it time matters only to a goroutine that
\* still waits to confirm.
Tick ==
    /\ \/ pc = "collect" /\ clock < file.frequency
       \/ pc = "wait" /\ \E g \in Probers : probe[g].pc = "confirm" /\ clock < probe[g].until
    /\ clock' = clock + 1
    /\ UNCHANGED <<pc, file, truth, probe, results, canceled, cause, report>>

--------------------------------------------------------------------------------
(***************************************************************************)
(* The probers.                                                             *)
(***************************************************************************)
Erred(g) == [by |-> g, error |-> TRUE, status |-> "", reasons |-> <<>>]

Found(g, status, reasons) ==
    [by |-> g, error |-> FALSE, status |-> status, reasons |-> reasons]

\* A status with the one check of a monitor as its reason.
MakeStatus(g, failing) ==
    Found(g, IF failing THEN ToStatus(g.monitor.severity) ELSE "Healthy", <<g.monitor.check>>)

Observations(condition, recovered) ==
    CASE condition = "changing"   -> {"up", "down", "error"}
      [] condition = "recovering" -> {IF recovered THEN "up" ELSE "down"}
      [] OTHER                    -> {condition}

\* What a request to a target comes back with; a canceled one may fail.
Responses(target, recovered) ==
    Observations(truth[target], recovered) \cup (IF canceled THEN {"error"} ELSE {})

Recovered(g) == clock >= g.monitor.retryAfter

HasGoroutine(g, kind, at) ==
    pc \in {"collect", "send", "wait"} /\ g.monitor.kind = kind /\ probe[g].pc = at

Answer(g, result) ==
    /\ probe' = [probe EXCEPT ![g].pc = "send", ![g].result = result]
    /\ UNCHANGED <<pc, file, truth, results, clock, canceled, cause, report>>

ConfirmTime_AtOnce(g) == clock

ConfirmTime(g) == clock + g.monitor.retryAfter

\* HTTPProber.Probe: the first request; a wrong status code is confirmed later.
HTTPAsks(g) ==
    /\ HasGoroutine(g, "http", "ask")
    /\ \E r \in Responses(Target(g.monitor, 1), Recovered(g)) :
         \/ r = "error" /\ Answer(g, Erred(g))
         \/ r = "up" /\ Answer(g, MakeStatus(g, FALSE))
         \/ /\ r = "down"
            /\ probe' = [probe EXCEPT ![g].pc = "confirm", ![g].until = ConfirmTime(g)]
            /\ UNCHANGED <<pc, file, truth, results, clock, canceled, cause, report>>

\* The second request decides.
HTTPConfirms(g) ==
    /\ HasGoroutine(g, "http", "confirm")
    /\ \/ canceled /\ Answer(g, Erred(g))
       \/ /\ clock >= probe[g].until
          /\ \E r \in Responses(Target(g.monitor, 1), Recovered(g)) :
               IF r = "error" THEN Answer(g, Erred(g))
                              ELSE Answer(g, MakeStatus(g, r = "down"))

\* PrometheusProber.Probe: the queries one after the other, until one cannot be run.
\* The client is looked up by the key of the monitor's location.
PrometheusAsks(g) ==
    /\ HasGoroutine(g, "prometheus", "ask")
    /\ LET m  == g.monitor
           at == probe[g].at
           client == CreatePrometheusClients(file)[GetPrometheusLocationKey(m.location)]
       IN  /\ at <= Len(m.queries)
           /\ \E r \in Responses(<<client, m.queries[at].check>>, FALSE) :
                IF r = "error"
                  THEN Answer(g, Erred(g))
                  ELSE /\ probe' = [probe EXCEPT ![g].at = at + 1,
                                       ![g].failed = IF r = "down" THEN Append(@, m.queries[at]) ELSE @]
                       /\ UNCHANGED <<pc, file, truth, results, clock, canceled, cause, report>>

MostCritical(severity, q) ==
    IF GetSeverityLevel(q.severity) > GetSeverityLevel(severity) THEN q.severity ELSE severity

\* createStatusFromQueryResults: the queries that only describe a failure delay the
\* answer and change nothing else of it.
CreateStatusFromQueryResults(g) ==
    LET queries == g.monitor.queries
        failed  == probe[g].failed
        Checks(qs) == [i \in DOMAIN qs |-> qs[i].check]
    IN  IF failed = <<>>
          THEN Found(g, "Healthy", Checks(queries))
          ELSE Found(g, ToStatus(FoldLeft(MostCritical, "", failed)), Checks(failed))

PrometheusAnswers(g) ==
    /\ HasGoroutine(g, "prometheus", "ask")
    /\ probe[g].at > Len(g.monitor.queries)
    /\ Answer(g, CreateStatusFromQueryResults(g))

\* SystemdProber.Probe.
SystemdAsks(g) ==
    /\ HasGoroutine(g, "unit", "ask")
    /\ \E r \in Responses(Target(g.monitor, 1), FALSE) :
         IF r = "error" THEN Answer(g, Erred(g)) ELSE Answer(g, MakeStatus(g, r = "down"))

\* JUnitProber.Probe, as far as the counting of failed runs goes: all of the last runs
\* of a job that is down failed, and none of one that is up (the rest is JUnitProber's).
JUnitAsks(g) ==
    /\ HasGoroutine(g, "junit", "ask")
    /\ LET m == g.monitor
           FailedRuns(r) == IF r = "down" THEN m.historyRuns ELSE 0
       IN  \E r \in Responses(Target(m, 1), FALSE) :
             IF r = "error" THEN Answer(g, Erred(g))
             ELSE Answer(g, MakeStatus(g, FailedRuns(r) >= m.failedRunsThreshold))

Probe(g) ==
    \/ HTTPAsks(g)
    \/ HTTPConfirms(g)
    \/ PrometheusAsks(g)
    \/ PrometheusAnswers(g)
    \/ SystemdAsks(g)
    \/ JUnitAsks(g)

Next ==
    \/ StartOrchestratorWithConfig
    \/ StartProbes
    \/ CollectedAll
    \/ CollectTimeout
    \/ CollectCanceled
    \/ SendReport
    \/ WaitForNextCycle
    \/ Exit
    \/ Cancel
    \/ Tick
    \/ pc # "load" /\ probe # <<>> /\ \E g \in Probers : Receive(g) \/ Probe(g)

Spec == Init /\ [][Next]_vars

--------------------------------------------------------------------------------
(***************************************************************************)
(* Properties.                                                              *)
(***************************************************************************)
Reported == pc = "wait"

Complete == Reported /\ cause = "complete"

HasErred(g) == \E i \in DOMAIN results : results[i].by = g /\ results[i].error

\* What is down throughout a cycle that hears all probers is reported: with at least
\* the severity configured for the failing check, whatever else was found of the
\* sub-component, and with the check among the reasons.  A prober that could not ask
\* everything is silent about what it did ask.
DownIsReported ==
    Complete => \A g \in Probers : \A i \in DOMAIN Questions(g.monitor) :
        LET question == Questions(g.monitor)[i]
            said     == report[g.sub]
        IN  (truth[Target(g.monitor, i)] = "down" /\ ~HasErred(g)) =>
                /\ said.status \notin {"omitted", "Healthy"}
                /\ Level(said.status) >= GetSeverityLevel(question.severity)
                /\ \E k \in DOMAIN said.reasons : said.reasons[k] = question.check

\* Every report, also one of a cycle cut short, gives for a failing status only
\* reasons that are true of this sub-component: checks of its own whose target was
\* not up, and for HTTP did not recover within retry_after.
NoFalseAlarms ==
    Reported => \A s \in Subs :
        report[s].status \notin {"omitted", "Healthy"} =>
            /\ report[s].reasons # <<>>
            /\ \A k \in DOMAIN report[s].reasons :
                 \E g \in Probers : \E i \in DOMAIN Questions(g.monitor) :
                    /\ g.sub = s
                    /\ Questions(g.monitor)[i].check = report[s].reasons[k]
                    /\ truth[Target(g.monitor, i)] \in {"down", "changing"}

\* A sub-component with a target that cannot be asked is not reported healthy by a
\* cycle that hears all probers, so that the dashboard notices its absence.
ErrorsLeaveDoubt ==
    Complete => \A g \in Probers :
        (\E t \in Targets(g.monitor) : truth[t] = "error") => report[g.sub].status # "Healthy"

\* The same of every report, whatever ended its cycle, and of targets that are down:
\* it is not healthy while anything of it that was not heard may be failing.
UnheardIsNotHealthy ==
    Reported => \A g \in Probers :
        (\E t \in Targets(g.monitor) : truth[t] \in {"down", "error"}) =>
            report[g.sub].status # "Healthy"
================================================================================
