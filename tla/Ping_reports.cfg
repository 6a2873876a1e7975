\* Two overlapping reports of two sub-components.
SPECIFICATION FairPingSpec
CONSTANTS
    Reporters = {r1, r2}
    Subs = {s1, s2}
    ReportOf <- SameReports
    MaxTime = 4
    MaxFaults = 1
    r1 = r1
    r2 = r2
    s1 = s1
    s2 = s2
INVARIANTS
    OnlyFirstReportsCollide
PROPERTIES
    PingsGoBackOnlyInRaces
    EverybodyIsPinged
