----------------------------- MODULE AbsentChecker -----------------------------
(***************************************************************************)
(* The absent-report checker: one goroutine that goes through the          *)
(* configured sub-components on every tick of its timer and opens a Down   *)
(* outage for each whose monitor has not reported for longer than the      *)
(* threshold, or ends the one it opened before.  It takes no lock: the ping *)
(* it read and the outages it found may be outdated when it acts.           *)
(***************************************************************************)
EXTENDS DashboardState

VARIABLE checker

CheckerIdle == [pc |-> "idle"]

CheckerRows == UNION {[S -> Outage] : S \in SUBSET Slots}

Checking ==
    [pc : {"next", "query", "resolve", "create"}, todo : SUBSET Subs, sub : Subs,
     cfg : [Subs -> SubConfig \cup {NotConfigured}],
     absent : BOOLEAN, found : CheckerRows]

CheckerTypeOK == checker = CheckerIdle \/ checker \in Checking

CheckerInit == checker = CheckerIdle

HeldByChecker == IF checker = CheckerIdle THEN {} ELSE DOMAIN checker.found

\* A tick: the pass works on the configuration it starts with.
StartPass ==
    /\ checker = CheckerIdle
    /\ \E s \in Subs :
         checker' = [pc |-> "next", todo |-> {t \in Subs : Monitored(config[t])}, sub |-> s,
                     cfg |-> config, absent |-> FALSE, found |-> <<>>]
    /\ UNCHANGED state

\* The pass is over, or goes on with another monitored sub-component.
EndPass ==
    /\ checker.pc = "next"
    /\ checker.todo = {}
    /\ checker' = CheckerIdle
    /\ UNCHANGED state

\* The ping of the next monitored sub-component: its age against the threshold is
\* judged as soon as it is read, and not again.
GetLastPingTime ==
    /\ checker.pc = "next"
    /\ \E s \in checker.todo :
         checker' = [checker EXCEPT !.pc = "query", !.sub = s, !.absent = InOutage(pings[s]),
                                    !.todo = @ \ {s}]
    /\ UNCHANGED state

\* What was judged of the ping, and the active outages discovered from an absent
\* report, decide what this sub-component needs.
Judge ==
    LET s == checker.sub
        found == GetActiveOutagesDiscoveredFrom(s, AbsentReportSource)
        absent == checker.absent
    IN  /\ checker.pc = "query"
        /\ checker' = [checker EXCEPT
              !.found = IF absent \/ ~checker.cfg[s].autoResolve THEN <<>> ELSE found,
              !.pc = IF absent
                       THEN IF DOMAIN found = {} THEN "create" ELSE "next"
                       ELSE IF checker.cfg[s].autoResolve /\ DOMAIN found # {}
                              THEN "resolve" ELSE "next"]
        /\ UNCHANGED state

ResolveAbsent ==
    /\ checker.pc = "resolve"
    /\ \E i \in DOMAIN checker.found :
         LET rest == DOMAIN checker.found \ {i}
         IN /\ UpdateOutage(i, Ended(checker.found[i])) \/ (Faults /\ UNCHANGED outages)
            /\ checker' = [checker EXCEPT !.found = [j \in rest |-> checker.found[j]],
                                          !.pc = IF rest = {} THEN "next" ELSE "resolve"]
    /\ UNCHANGED <<config, pings>>

AbsentOutage ==
    [sub |-> checker.sub, by |-> AbsentReportCreator, source |-> AbsentReportSource,
     ended |-> FALSE, confirmed |-> ~checker.cfg[checker.sub].requiresConfirmation]

CreateAbsent(free) ==
    /\ checker.pc = "create"
    /\ CreateOutage(free, AbsentOutage) \/ (Faults /\ UNCHANGED outages)
    /\ checker' = [checker EXCEPT !.pc = "next"]
    /\ UNCHANGED <<config, pings>>

\* A failing query skips the sub-component.
SkipSub ==
    /\ Faults
    /\ checker.pc = "query"
    /\ checker' = [checker EXCEPT !.pc = "next"]
    /\ UNCHANGED state

CheckerStep(free) ==
    \/ StartPass
    \/ EndPass
    \/ GetLastPingTime
    \/ Judge
    \/ ResolveAbsent
    \/ CreateAbsent(free)
================================================================================
