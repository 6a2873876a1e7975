--------------------------- MODULE ReportProcessing ----------------------------
(***************************************************************************)
(* POST /api/component-monitor/report: validation and processing of a       *)
(* component monitor's report, one status after another, in the goroutine  *)
(* that serves the request.  Nothing orders the goroutines: a monitor that *)
(* gave up waiting (30 s) may send its next report while the previous one  *)
(* is still being processed; Overlap says whether that happens.             *)
(***************************************************************************)
EXTENDS DashboardState, Sequences

CONSTANTS
    Handlers,  \* request goroutines
    Reports,   \* the status lists monitors send
    Overlap    \* whether reports of one monitor may be processed side by side

VARIABLES
    handler,   \* each request goroutine
    told       \* history: what the last report processed to the end said

reportVars == <<handler, told>>

Idle == [pc |-> "idle"]

\* "Invalid" stands for every status that converts to no severity; a status is
\* healthy, unhealthy or that.
Status == [sub : Subs, status : {"Healthy", "Down", "Invalid"}, reasons : BOOLEAN]

ASSUME ReportAssumption ==
    /\ Overlap \in BOOLEAN
    /\ \A r \in Reports : r \in Seq(Status) /\ r # <<>>

PartialRows == UNION {[S -> Outage] : S \in SUBSET Slots}

Processing ==
    [pc : {"validate", "lookup", "query", "decide", "resolve", "create"},
     monitor : Monitors, report : Reports, n : Nat,
     cfg : SubConfig \cup {NotConfigured}, found : PartialRows]

Told == {"nothing", "pending", "healthy", "unhealthy"}

ReportTypeOK ==
    /\ handler \in [Handlers -> Processing \cup {Idle}]
    /\ told \in [Monitors -> [Subs -> Told]]

ReportInit ==
    /\ handler = [h \in Handlers |-> Idle]
    /\ told = [m \in Monitors |-> [s \in Subs |-> "nothing"]]

Current(h) == handler[h].report[handler[h].n]
Monitor(h) == handler[h].monitor

\* What the request still holds copies of.
HeldByHandler(h) == IF handler[h] = Idle THEN {} ELSE DOMAIN handler[h].found

Become(h, r) == handler' = [handler EXCEPT ![h] = r]
Goto(h, pc)  == Become(h, [handler[h] EXCEPT !.pc = pc])

\* On to the next status, or done: 200 OK.
Advance(h) ==
    IF handler[h].n = Len(handler[h].report)
      THEN Become(h, Idle)
      ELSE Become(h, [handler[h] EXCEPT !.pc = "lookup", !.n = handler[h].n + 1,
                                        !.cfg = NotConfigured, !.found = <<>>])

\* The current status is processed to the end: what it said, unless a person
\* has interfered since the query.
Tell(h, what) ==
    told' = IF told[Monitor(h)][Current(h).sub] = "pending"
              THEN [told EXCEPT ![Monitor(h)][Current(h).sub] = what] ELSE told

\* PostComponentMonitorReportJSON accepts a report for validation; an empty one
\* is refused before.
ReceiveReport(h, m, report) ==
    /\ handler[h] = Idle
    /\ Overlap \/ \A g \in Handlers : handler[g] # Idle => Monitor(g) # m
    /\ Become(h, [pc |-> "validate", monitor |-> m, report |-> report, n |-> 1,
                  cfg |-> NotConfigured, found |-> <<>>])
    /\ UNCHANGED <<state, told>>

\* ValidateRequest looks every status up in the configuration of the moment:
\* known, and monitored by this monitor.  A report with a status that fails is
\* refused as a whole (400).
ValidateRequest(h) ==
    /\ handler[h].pc = "validate"
    /\ LET c == config[Current(h).sub]
       IN IF ~Monitored(c) \/ c.monitor # Monitor(h)
            THEN Become(h, Idle)
          ELSE IF handler[h].n < Len(handler[h].report)
            THEN Become(h, [handler[h] EXCEPT !.n = handler[h].n + 1])
          ELSE Become(h, [handler[h] EXCEPT !.pc = "lookup", !.n = 1])
    /\ UNCHANGED <<state, told>>

\* Process looks the status up again and upserts its ping; a sub-component that
\* is gone ends the request with an error, statuses before it stay processed.
LookupAndPing(h) ==
    /\ handler[h].pc = "lookup"
    /\ LET s == Current(h).sub
       IN IF Configured(s)
            THEN /\ pings' = [pings EXCEPT ![s] = 0]
                 /\ Become(h, [handler[h] EXCEPT !.pc = "query", !.cfg = config[s]])
            ELSE /\ Become(h, Idle)
                 /\ UNCHANGED pings
    /\ UNCHANGED <<config, outages, told>>

QueryActive(h) ==
    /\ handler[h].pc = "query"
    /\ Become(h, [handler[h] EXCEPT !.pc = "decide",
                     !.found = GetActiveOutagesCreatedBy(Current(h).sub, Monitor(h))])
    /\ told' = [told EXCEPT ![Monitor(h)][Current(h).sub] = "pending"]
    /\ UNCHANGED state

DecideHealthy_AlwaysResolves(h) ==
    /\ handler[h].pc = "decide"
    /\ Current(h).status = "Healthy"
    /\ IF DOMAIN handler[h].found = {}
         THEN Advance(h) /\ Tell(h, "healthy")
         ELSE Goto(h, "resolve") /\ UNCHANGED told
    /\ UNCHANGED state

\* Healthy: nothing to do, not allowed to, or the outages found are resolved.
DecideHealthy(h) ==
    /\ handler[h].pc = "decide"
    /\ Current(h).status = "Healthy"
    /\ LET c == handler[h].cfg
       IN IF DOMAIN handler[h].found = {}
            THEN Advance(h) /\ Tell(h, "healthy")
          ELSE IF ~Monitored(c) \/ ~c.autoResolve
            THEN Advance(h) /\ Tell(h, "nothing")
          ELSE Goto(h, "resolve") /\ UNCHANGED told
    /\ UNCHANGED state

\* Unhealthy: skipped without a severity, with an outage found, or without
\* reasons, in this order.
DecideUnhealthy(h) ==
    /\ handler[h].pc = "decide"
    /\ Current(h).status # "Healthy"
    /\ IF Current(h).status = "Invalid"
         THEN Advance(h) /\ Tell(h, "nothing")
       ELSE IF DOMAIN handler[h].found # {}
         THEN Advance(h) /\ Tell(h, "unhealthy")
       ELSE IF ~Current(h).reasons
         THEN Advance(h) /\ Tell(h, "nothing")
       ELSE Goto(h, "create") /\ UNCHANGED told
    /\ UNCHANGED state

\* One found outage after the other gets its end time, as a save of the copy the
\* query returned; one that fails is skipped.
ResolveOne(h) ==
    /\ handler[h].pc = "resolve"
    /\ LET found == handler[h].found
       IN \E i \in DOMAIN found :
            /\ \/ UpdateOutage(i, Ended(found[i])) /\ UNCHANGED told
               \/ /\ Faults
                  /\ UNCHANGED outages
                  /\ told' = [told EXCEPT ![Monitor(h)][Current(h).sub] = "nothing"]
            /\ Become(h, [handler[h] EXCEPT !.found =
                             [j \in DOMAIN found \ {i} |-> found[j]]])
    /\ UNCHANGED <<config, pings>>

ResolvedAll(h) ==
    /\ handler[h].pc = "resolve"
    /\ DOMAIN handler[h].found = {}
    /\ Advance(h)
    /\ Tell(h, "healthy")
    /\ UNCHANGED state

ReportedOutage_SwappedFields(h) ==
    [sub |-> Current(h).sub, by |-> ComponentMonitor, source |-> ComponentMonitor,
     ended |-> FALSE, confirmed |-> ~handler[h].cfg.requiresConfirmation]

\* The outage of an unhealthy status, confirmed unless that is left to a person.
ReportedOutage(h) ==
    [sub |-> Current(h).sub, by |-> Monitor(h), source |-> ComponentMonitor,
     ended |-> FALSE, confirmed |-> ~handler[h].cfg.requiresConfirmation]

CreateReported(h, free) ==
    /\ handler[h].pc = "create"
    /\ \/ CreateOutage(free, ReportedOutage(h)) /\ Tell(h, "unhealthy")
       \/ Faults /\ UNCHANGED outages /\ Tell(h, "nothing")
    /\ Advance(h)
    /\ UNCHANGED <<config, pings>>

\* A failing ping or query ends the request with an error.
FailRequest(h) ==
    /\ Faults
    /\ handler[h].pc \in {"lookup", "query"}
    /\ Become(h, Idle)
    /\ UNCHANGED <<state, told>>

HandlerStep(h, free) ==
    \/ ValidateRequest(h)
    \/ LookupAndPing(h)
    \/ QueryActive(h)
    \/ DecideHealthy(h)
    \/ DecideUnhealthy(h)
    \/ ResolveOne(h)
    \/ ResolvedAll(h)
    \/ CreateReported(h, free)
================================================================================
