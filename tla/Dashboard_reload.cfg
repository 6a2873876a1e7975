\* A configuration reload between validation and processing.
SPECIFICATION Spec
CONSTANTS
    Subs = {s1, s2}
    Monitors = {m1}
    Slots = {o1, o2, o3}
    NoOutage = NoOutage
    NotConfigured = NotConfigured
    NoMonitor = NoMonitor
    Configs <- TwoConfigs
    Threshold = 1
    Faults = FALSE
    Handlers = {h1}
    Reports <- TwoSubReports
    Overlap = FALSE
    Editors = {}
    Edits = {}
    MaxUser = 0
    m1 = m1
    m2 = m2
    s1 = s1
    s2 = s2
SYMMETRY SlotSymmetry
INVARIANTS
    KnownAfterValidation
