\* The file is set back to earlier content.
SPECIFICATION FairReloadSpec
CONSTANTS
    Contents = {1, 2, 3, 4, 5}
    Valid = {1, 3, 5}
    Reverts = TRUE
    StartupEdits = FALSE
    Faults = FALSE
PROPERTIES
    FileIsServed
CHECK_DEADLOCK FALSE
