\* Two first reports of a sub-component collide.
SPECIFICATION PingSpec
CONSTANTS
    Reporters = {r1, r2}
    Subs = {s1, s2}
    ReportOf <- SameReports
    MaxTime = 4
    MaxFaults = 0
    r1 = r1
    r2 = r2
    s1 = s1
    s2 = s2
INVARIANTS
    CollisionsAreHandled
