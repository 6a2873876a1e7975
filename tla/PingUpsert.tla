------------------------------- MODULE PingUpsert -------------------------------
(***************************************************************************)
(* How reports store the pings of their statuses: for each one, the time is *)
(* taken, the row of its sub-component is looked up, and inserted if there  *)
(* is none or saved with the new time.  The three are separate statements,  *)
(* and reports are processed side by side: a monitor that gave up waiting    *)
(* sends the next one, and around a reload it has two orchestrators.         *)
(*                                                                         *)
(* ReportProcessing takes the upsert for one step; this module is the step.  *)
(***************************************************************************)
EXTENDS Integers, Sequences

CONSTANTS
    Reporters,  \* goroutines processing reports
    Subs,       \* sub-components
    ReportOf,   \* reporter -> the sub-components its reports have statuses of
    MaxTime,    \* bound: readings of the clock
    MaxFaults   \* bound: statements that fail

ASSUME PingAssumption ==
    /\ ReportOf \in [Reporters -> Seq(Subs)]
    /\ \A r \in Reporters : ReportOf[r] # <<>>
    /\ MaxTime \in Nat \ {0} /\ MaxFaults \in Nat

VARIABLES
    clock,
    ping,     \* table component_report_pings: sub-component -> time, NoPing without a row
    up,       \* the reports in progress, or how the last one ended
    faults    \* statements that have failed so far

pingVars == <<clock, ping, up, faults>>

NoPing == 0
Times  == 1..MaxTime

\* A report: where it is, the status it is at, the time taken for it, and the ping its
\* sub-component had then (history).
Upsert == [pc : {"stamp", "first", "create", "save", "ok", "refused", "broken"},
           n : Nat \ {0}, time : Times \cup {NoPing}, floor : Times \cup {NoPing}]

PingTypeOK ==
    /\ clock \in Times
    /\ ping \in [Subs -> Times \cup {NoPing}]
    /\ up \in [Reporters -> Upsert]
    /\ \A r \in Reporters : up[r].n \in 1..Len(ReportOf[r])
    /\ faults \in 0..MaxFaults

Begun == [pc |-> "stamp", n |-> 1, time |-> NoPing, floor |-> NoPing]

PingInit ==
    /\ clock = 1
    /\ ping = [s \in Subs |-> NoPing]
    /\ up = [r \in Reporters |-> Begun]
    /\ faults = 0

Current(r) == ReportOf[r][up[r].n]
At(r, pc)  == up[r].pc = pc
MoveTo(r, pc) == up' = [up EXCEPT ![r].pc = pc]

\* The next report of the same monitor.
ReportAgain(r) ==
    /\ up[r].pc \in {"ok", "refused", "broken"}
    /\ up' = [up EXCEPT ![r] = Begun]
    /\ UNCHANGED <<clock, ping, faults>>

Stamp_OncePerReport(r) ==
    /\ At(r, "stamp")
    /\ up' = [up EXCEPT ![r] = [@ EXCEPT !.pc = "first", !.floor = ping[Current(r)],
                                         !.time = IF up[r].n = 1 THEN clock ELSE @]]
    /\ UNCHANGED <<clock, ping, faults>>

Stamp(r) ==
    /\ At(r, "stamp")
    /\ up' = [up EXCEPT ![r] = [@ EXCEPT !.pc = "first", !.time = clock, !.floor = ping[Current(r)]]]
    /\ UNCHANGED <<clock, ping, faults>>

First_Skipped(r) ==
    /\ At(r, "first")
    /\ MoveTo(r, "create")
    /\ UNCHANGED <<clock, ping, faults>>

First(r) ==
    /\ At(r, "first")
    /\ MoveTo(r, IF ping[Current(r)] = NoPing THEN "create" ELSE "save")
    /\ UNCHANGED <<clock, ping, faults>>

Advance_Returns(r) == up' = [up EXCEPT ![r].pc = "ok"]

\* On to the next status, or done.
Advance(r) ==
    up' = IF up[r].n < Len(ReportOf[r])
            THEN [up EXCEPT ![r].pc = "stamp", ![r].n = @ + 1]
            ELSE [up EXCEPT ![r].pc = "ok"]

Store(r) == ping' = [ping EXCEPT ![Current(r)] = up[r].time]

\* The unique index lets one row in.  The error of the second insert is the driver's:
\* it is not gorm.ErrDuplicatedKey, which gorm returns only with TranslateError, so that
\* the branch for it is never taken; the request ends with 500, and its other
\* statuses are not processed.
Create(r) ==
    /\ At(r, "create")
    /\ IF ping[Current(r)] = NoPing
         THEN Store(r) /\ Advance(r)
         ELSE MoveTo(r, "refused") /\ UNCHANGED ping
    /\ UNCHANGED <<clock, faults>>

\* Whatever was stored since the lookup is overwritten.
Save(r) ==
    /\ At(r, "save")
    /\ Store(r)
    /\ Advance(r)
    /\ UNCHANGED <<clock, faults>>

Break(r) ==
    /\ faults < MaxFaults
    /\ up[r].pc \in {"first", "create", "save"}
    /\ MoveTo(r, "broken")
    /\ faults' = faults + 1
    /\ UNCHANGED <<clock, ping>>

Tick ==
    /\ clock < MaxTime
    /\ clock' = clock + 1
    /\ UNCHANGED <<ping, up, faults>>

Process(r) == Stamp(r) \/ First(r) \/ Create(r) \/ Save(r)

PingNext ==
    \/ \E r \in Reporters : ReportAgain(r) \/ Process(r) \/ Break(r)
    \/ Tick

PingSpec == PingInit /\ [][PingNext]_pingVars

\* Monitors keep reporting, and requests are processed.
FairPingSpec == PingSpec /\ \A r \in Reporters : WF_pingVars(ReportAgain(r) \/ Process(r))

--------------------------------------------------------------------------------
(***************************************************************************)
(* Properties.                                                              *)
(***************************************************************************)
\* A report is refused only in a race of first reports: its sub-component had no ping
\* when it was begun, and has one since.
OnlyFirstReportsCollide ==
    \A r \in Reporters : At(r, "refused") => up[r].floor = NoPing /\ ping[Current(r)] # NoPing

\* The time of a ping goes back only when reports overlap, and never behind the ping that
\* was stored when the writer began: what the absent-report checker reads is as
\* recent as every report that was done before.
PingsGoBackOnlyInRaces ==
    [][\A s \in Subs :
          ping'[s] < ping[s] =>
              \E r \in Reporters : At(r, "save") /\ Current(r) = s /\ up[r].floor <= ping'[s]]_pingVars

\* The statuses behind one that collided, or that a failing statement kept from being
\* processed, are not lost for good: monitors report again.
EverybodyIsPinged == \A r \in Reporters : \A i \in 1..Len(ReportOf[r]) : <>(ping[ReportOf[r][i]] # NoPing)

\* "In that case, update the existing record instead": two first reports that collide are
\* both processed.
CollisionsAreHandled == \A r \in Reporters : ~At(r, "refused")
================================================================================
