---------------------------- MODULE DashboardState -----------------------------
(***************************************************************************)
(* What the parts of the dashboard server share: the configuration the     *)
(* config manager serves, the outages and the report pings in the database. *)
(*                                                                         *)
(* An outage row keeps who created it, where it was discovered, whether    *)
(* its end_time is set and whether it is confirmed.  A soft-deleted row is *)
(* invisible to every query, so deleting frees the slot (OutageStore       *)
(* models deletion and the audit log in detail).  Slots stand for ids: a   *)
(* row that has ended and that nothing holds a copy of may give its slot   *)
(* to a new outage, for no query used here returns it again.                *)
(*                                                                         *)
(* Time is counted in ticks of a sub-component's reporting frequency, and  *)
(* only as the age of the last ping; ages above the threshold are alike.    *)
(***************************************************************************)
EXTENDS Integers, FiniteSets

CONSTANTS
    Subs,          \* the sub-components a configuration may hold
    Monitors,      \* component-monitor names
    Slots,         \* rows of the outage table
    NoOutage,      \* an unused slot
    NotConfigured, \* the configuration has no such sub-component
    NoMonitor,     \* the sub-component has no monitoring section
    Configs,       \* the configurations the file may hold
    Threshold,     \* ticks without a ping that are still tolerated (3 x frequency)
    Faults         \* whether statements may fail and the server may restart

ASSUME StateAssumption ==
    /\ Threshold \in Nat
    /\ Faults \in BOOLEAN

VARIABLES
    config,   \* configManager.Get(): sub-component -> its configuration
    outages,  \* table outages: slot -> row
    pings     \* table component_report_pings: sub-component -> age of its ping

state == <<config, outages, pings>>

SubConfig == [monitor : Monitors \cup {NoMonitor}, autoResolve : BOOLEAN,
              requiresConfirmation : BOOLEAN]

ASSUME ConfigAssumption == Configs \subseteq [Subs -> SubConfig \cup {NotConfigured}]

ComponentMonitor    == "component-monitor"
AbsentReportSource  == "absent-monitored-component-report"
AbsentReportCreator == "dashboard"
Frontend            == "frontend"
EndUser             == "user"

Outage == [sub : Subs, by : Monitors \cup {AbsentReportCreator, EndUser},
           source : {ComponentMonitor, AbsentReportSource, Frontend},
           ended : BOOLEAN, confirmed : BOOLEAN]

ASSUME RowAssumption == NoOutage \notin Outage

\* No monitor has the name automatic outages or people's are created under, which the
\* configuration is not checked for.
ASSUME NameAssumption == {AbsentReportCreator, EndUser} \cap Monitors = {}

NoPing == -1
Ages   == 0..(Threshold + 1)

StateTypeOK ==
    /\ config \in [Subs -> SubConfig \cup {NotConfigured}]
    /\ outages \in [Slots -> Outage \cup {NoOutage}]
    /\ pings \in [Subs -> Ages \cup {NoPing}]

StateInit ==
    /\ config \in Configs
    /\ outages = [i \in Slots |-> NoOutage]
    /\ pings = [s \in Subs |-> NoPing]

Configured(s) == config[s] # NotConfigured
Monitored(c)  == c # NotConfigured /\ c.monitor # NoMonitor

(***************************************************************************)
(* Queries.  The automatic ones call an outage active when end_time IS     *)
(* NULL; what they return is a private copy of the rows, by slot.           *)
(***************************************************************************)
Rows(P(_)) == [i \in {j \in Slots : outages[j] # NoOutage /\ P(outages[j])} |-> outages[i]]

GetActiveOutagesCreatedBy_AnyCreator(s, creator) ==
    LET Match(o) == o.sub = s /\ ~o.ended IN Rows(Match)

GetActiveOutagesCreatedBy_Confirmed(s, creator) ==
    LET Match(o) == o.sub = s /\ ~o.ended /\ o.by = creator /\ o.confirmed IN Rows(Match)

GetActiveOutagesCreatedBy(s, creator) ==
    LET Match(o) == o.sub = s /\ ~o.ended /\ o.by = creator IN Rows(Match)

GetActiveOutagesDiscoveredFrom(s, source) ==
    LET Match(o) == o.sub = s /\ ~o.ended /\ o.source = source IN Rows(Match)

(***************************************************************************)
(* Writes.  UpdateOutage saves a whole copy over the row, if it is there   *)
(* still.                                                                   *)
(***************************************************************************)
UpdateOutage(i, copy) ==
    outages' = IF outages[i] = NoOutage THEN outages ELSE [outages EXCEPT ![i] = copy]

CreateOutage(free, o) == \E i \in free : outages' = [outages EXCEPT ![i] = o]

Ended(o) == [o EXCEPT !.ended = TRUE]

\* A slot is free when it is unused or its outage has ended, and nobody holds a
\* copy of a row that was in it.
Free(held) == {i \in Slots \ held : outages[i] = NoOutage \/ outages[i].ended}

InOutage_NeverReportedIsFine(age) == age > Threshold
InOutage_AtThreshold(age) == age = NoPing \/ age >= Threshold

InOutage(age) == age = NoPing \/ age > Threshold

Older(age) == IF age = NoPing \/ age = Threshold + 1 THEN age ELSE age + 1
================================================================================
