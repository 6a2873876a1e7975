\* A probe that answers after its cycle.
SPECIFICATION Spec
CONSTANTS
    Probers = {p1, p2}
    Subs = {s1}
    SubOf <- OneSub
    CtxAware = {p2}
    MaxStragglers = 1
    p1 = p1
    p2 = p2
    s1 = s1
INVARIANTS
    NoOldResults
CHECK_DEADLOCK FALSE
