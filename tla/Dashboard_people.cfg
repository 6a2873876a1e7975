\* People end and delete outages while reports and the checker work on them.
SPECIFICATION FairSpec
CONSTANTS
    Subs = {s1}
    Monitors = {m1}
    Slots = {o1, o2, o3}
    NoOutage = NoOutage
    NotConfigured = NotConfigured
    NoMonitor = NoMonitor
    Configs <- OnOffConfigs
    Threshold = 0
    Faults = FALSE
    Handlers = {h1}
    Reports <- OneSubReports
    Overlap = FALSE
    Editors = {e1}
    Edits = {"end"}
    MaxUser = 0
    m1 = m1
    m2 = m2
    s1 = s1
    s2 = s2
PROPERTIES
    AbsenceIsReported
    PresenceIsNoticed
