\* A file that changes after startup and to contents it never had; reads and the
\* use of a new configuration may fail.
SPECIFICATION FairReloadSpec
CONSTANTS
    Contents = {1, 2, 3, 4, 5, 6, 7}
    Valid = {1, 3, 5, 7}
    Reverts = FALSE
    StartupEdits = FALSE
    Faults = TRUE
INVARIANTS
    SkippedOnlyWhenServed
PROPERTIES
    FileIsServed
    ServedIsUsed
CHECK_DEADLOCK FALSE
