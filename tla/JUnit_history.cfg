\* The last two runs must fail alike.
SPECIFICATION Spec
CONSTANTS
    MaxBuilds = 4
    HistoryRuns = 2
    FailedRunsThreshold = 2
    FailureSets <- DistinctSets
    SortedNames <- Names
    Faults = TRUE
INVARIANTS
    QuietVerdictsAreRight
    NewestIsJudged
    SequentialRunsAreJudged
