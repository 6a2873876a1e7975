---------------------------- MODULE ComponentStatus ----------------------------
(***************************************************************************)
(* The status the dashboard shows for one component and for each of its    *)
(* sub-components, computed from the outages in the database and the        *)
(* configuration at the time of the request, while outages come, change and *)
(* go and sub-components are added and removed.                             *)
(***************************************************************************)
EXTENDS OutageTypes

CONSTANTS
    AllSubs,     \* the sub-components the component may have
    Slots,       \* rows of the outage table
    NoOutage,    \* an unused slot
    ShownLevels, \* the severities in use
    Reloads      \* whether the configuration changes

ASSUME StatusAssumption ==
    /\ IsFiniteSet(AllSubs)
    /\ ShownLevels \subseteq Severities
    /\ Reloads \in BOOLEAN

VARIABLES
    subs,    \* component.Subcomponents
    outages  \* table outages: slot -> row

vars == <<subs, outages>>

\* When the outage ends: not known, at a time to come, or in the past.
Outage == [sub : AllSubs, severity : ShownLevels, confirmed : BOOLEAN,
           end : {"null", "future", "past"}]

TypeOK ==
    /\ subs \in SUBSET AllSubs
    /\ outages \in [Slots -> Outage \cup {NoOutage}]

Init ==
    /\ subs = AllSubs
    /\ outages = [i \in Slots |-> NoOutage]

\* An outage is active until its end time, if it has one.
Active(i) == outages[i] # NoOutage /\ outages[i].end \in {"null", "future"}

GetActiveOutagesForSubComponent(s) == {i \in Slots : Active(i) /\ outages[i].sub = s}

GetActiveOutagesForComponent == {i \in Slots : Active(i)}

Worst(rows) ==
    CHOOSE severity \in {outages[i].severity : i \in rows} :
        \A i \in rows : GetSeverityLevel(outages[i].severity) <= GetSeverityLevel(severity)

\* Confirmed outages decide by their severity; others only raise a suspicion.
DetermineStatusFromSeverity(rows) ==
    LET confirmed == {i \in rows : outages[i].confirmed}
    IN  IF confirmed # {} THEN ToStatus(Worst(confirmed))
        ELSE IF rows # {} THEN "Suspected"
        ELSE "Healthy"

GetSubComponentStatus(s) ==
    LET rows == GetActiveOutagesForSubComponent(s)
    IN  IF rows = {} THEN "Healthy" ELSE DetermineStatusFromSeverity(rows)

GetComponentStatus_CountsOutages ==
    LET rows == GetActiveOutagesForComponent
    IN  IF rows = {} THEN "Healthy"
        ELSE IF Cardinality(rows) < Cardinality(subs) THEN "Partial"
        ELSE DetermineStatusFromSeverity(rows)

\* Partial as long as fewer sub-components have outages than there are.
GetComponentStatus ==
    LET rows     == GetActiveOutagesForComponent
        affected == {outages[i].sub : i \in rows}
    IN  IF rows = {} THEN "Healthy"
        ELSE IF Cardinality(affected) < Cardinality(subs) THEN "Partial"
        ELSE DetermineStatusFromSeverity(rows)

--------------------------------------------------------------------------------
CreateOutage(i) ==
    /\ outages[i] = NoOutage
    /\ \E o \in Outage :
         /\ o.sub \in subs
         /\ o.end = "null"
         /\ outages' = [outages EXCEPT ![i] = o]
    /\ UNCHANGED subs

UpdateOutage(i) ==
    /\ outages[i] # NoOutage
    /\ outages[i].sub \in subs
    /\ \E o \in Outage :
         /\ o.sub = outages[i].sub
         /\ outages' = [outages EXCEPT ![i] = o]
    /\ UNCHANGED subs

DeleteOutage(i) ==
    /\ outages[i] # NoOutage
    /\ outages[i].sub \in subs
    /\ outages' = [outages EXCEPT ![i] = NoOutage]
    /\ UNCHANGED subs

EndTimePasses(i) ==
    /\ outages[i] # NoOutage
    /\ outages[i].end = "future"
    /\ outages' = [outages EXCEPT ![i].end = "past"]
    /\ UNCHANGED subs

ReloadConfig ==
    /\ Reloads
    /\ subs' \in SUBSET AllSubs
    /\ UNCHANGED outages

Next ==
    \/ \E i \in Slots :
         \/ CreateOutage(i)
         \/ UpdateOutage(i)
         \/ DeleteOutage(i)
         \/ EndTimePasses(i)
    \/ ReloadConfig

Spec == Init /\ [][Next]_vars

--------------------------------------------------------------------------------
(***************************************************************************)
(* Properties.                                                              *)
(***************************************************************************)
Affected == {s \in subs : GetSubComponentStatus(s) # "Healthy"}

LevelOf(status) == GetSeverityLevel(ToSeverity(status))

\* As long as outages are of configured sub-components, the component's page and
\* the pages of its sub-components agree: healthy when all are, partial when some
\* are, and else as bad as the worst of them.
AgreesWithSubComponents ==
    (\A i \in Slots : Active(i) => outages[i].sub \in subs) =>
        /\ Affected = {} => GetComponentStatus = "Healthy"
        /\ Affected \notin {{}, subs} => GetComponentStatus = "Partial"
        /\ (Affected = subs /\ subs # {}) =>
              /\ GetComponentStatus \in {GetSubComponentStatus(s) : s \in subs}
              /\ \A s \in subs : LevelOf(GetSubComponentStatus(s)) <= LevelOf(GetComponentStatus)

\* "Indicates that some sub-components are healthy, and some are degraded or
\* down": that is when a component is Partial.
PartialWhenSomeHealthy ==
    (Affected # {} /\ Affected # subs) => GetComponentStatus = "Partial"
================================================================================
