\* Reports of two monitors while the sub-component changes hands, the checker, and people
\* who create and delete outages.
SPECIFICATION Spec
CONSTANTS
    Subs = {s1}
    Monitors = {m1, m2}
    Slots = {o1, o2}
    NoOutage = NoOutage
    NotConfigured = NotConfigured
    NoMonitor = NoMonitor
    Configs <- HandoverConfigs
    Threshold = 0
    Faults = TRUE
    Handlers = {h1}
    Reports <- OddReports
    Overlap = FALSE
    Editors = {}
    Edits = {}
    MaxUser = 1
    m1 = m1
    m2 = m2
    s1 = s1
    s2 = s2
SYMMETRY SlotSymmetry
INVARIANTS
    TypeOK
    OneActivePerSource
    ReportedStateHolds
PROPERTIES
    EndedForCause
