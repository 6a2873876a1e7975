\* The file changes while NewManager reads it.
SPECIFICATION FairReloadSpec
CONSTANTS
    Contents = {1, 2, 3, 4, 5}
    Valid = {1, 3, 5}
    Reverts = FALSE
    StartupEdits = TRUE
    Faults = FALSE
PROPERTIES
    FileIsServed
CHECK_DEADLOCK FALSE
