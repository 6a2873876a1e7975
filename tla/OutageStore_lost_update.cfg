\* Two overlapping requests.
SPECIFICATION SerialSpec
CONSTANTS
    Ids = {o1}
    Procs = {p1, p2}
    Users = {alice, monitor}
    NewOutages <- MCNewOutages
    Patches <- MCPatches
    NoRow = NoRow
    MaxAudit = 4
SYMMETRY Symmetry
PROPERTIES
    OnlyProvidedFieldsChange
\* Every id used up and every log full: the bounds stop the model.
CHECK_DEADLOCK FALSE
