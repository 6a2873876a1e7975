\* Two probers, each of which may leave a late goroutine behind.
SPECIFICATION FairSpec
CONSTANTS
    Probers = {p1, p2}
    Subs = {s1}
    SubOf <- OneSub
    CtxAware = {p2}
    MaxStragglers = 1
    p1 = p1
    p2 = p2
    s1 = s1
INVARIANTS
    CompleteCyclesSpeakForAll
    OneReportAfterCancel
PROPERTIES
    ReportsKeepComing
    StopsWhenCanceled
    CtxAwareProbesEnd
CHECK_DEADLOCK FALSE
