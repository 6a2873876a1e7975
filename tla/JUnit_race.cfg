\* A build finishes while the prober looks at its predecessors.
SPECIFICATION Spec
CONSTANTS
    MaxBuilds = 4
    HistoryRuns = 2
    FailedRunsThreshold = 2
    FailureSets <- OneFails
    SortedNames <- Names
    Faults = FALSE
INVARIANTS
    RepeatedFailureIsReported
