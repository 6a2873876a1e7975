------------------------------ MODULE OutageTypes ------------------------------
(***************************************************************************)
(* The value types the dashboard, the repositories and the component       *)
(* monitor share: severities, statuses, their order and the conversions    *)
(* between them (src/pkg/types).  "" is Go's zero string.                   *)
(***************************************************************************)
EXTENDS Integers, FiniteSets

Severities == {"Down", "Degraded", "CapacityExhausted", "Suspected"}

Statuses == Severities \cup {"Healthy", "Partial"}

\* The string a Severity outside the enumeration is turned into.
InvalidStatus == "Invalid"

IsValidSeverity(s) == s \in Severities

\* Higher is more critical; everything that is not a severity ranks lowest.
GetSeverityLevel(s) ==
    CASE s = "Down"              -> 4
      [] s = "Degraded"          -> 3
      [] s = "CapacityExhausted" -> 2
      [] s = "Suspected"         -> 1
      [] OTHER                   -> 0

\* Status -> Severity: "" for Healthy, Partial and anything unknown.
ToSeverity(status) == IF status \in Severities THEN status ELSE ""

\* Severity -> Status.
ToStatus(severity) == IF severity \in Severities THEN severity ELSE InvalidStatus

================================================================================
