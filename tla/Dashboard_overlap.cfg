\* Two reports of one monitor are processed side by side.
SPECIFICATION Spec
CONSTANTS
    Subs = {s1}
    Monitors = {m1}
    Slots = {o1, o2}
    NoOutage = NoOutage
    NotConfigured = NotConfigured
    NoMonitor = NoMonitor
    Configs <- AutoManualConfigs
    Threshold = 0
    Faults = FALSE
    Handlers = {h1, h2}
    Reports <- OneSubReports
    Overlap = TRUE
    Editors = {}
    Edits = {}
    MaxUser = 0
    m1 = m1
    m2 = m2
    s1 = s1
    s2 = s2
SYMMETRY SlotSymmetry
INVARIANTS
    OneActivePerSource
