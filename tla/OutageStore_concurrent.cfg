\* Two requests, which may overlap.
SPECIFICATION SerialSpec
CONSTANTS
    Ids = {o1}
    Procs = {p1, p2}
    Users = {alice, monitor}
    NewOutages <- MCNewOutages
    Patches <- MCPatches
    NoRow = NoRow
    MaxAudit = 4
SYMMETRY Symmetry
INVARIANTS
    AuditMirrorsRow
    NothingAfterDelete
    OldSidesAreVersions
    SerialAuditChains
PROPERTIES
    DeletionIsFinal
    SerialOnlyProvided
    ImplementsTable
\* Every id used up and every log full: the bounds stop the model.
CHECK_DEADLOCK FALSE
