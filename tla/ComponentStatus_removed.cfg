\* An outage of a sub-component that was removed is still active.
SPECIFICATION Spec
CONSTANTS
    AllSubs = {"api", "ui", "db"}
    Slots = {1, 2}
    NoOutage = NoOutage
    ShownLevels = {"Suspected", "Down"}
    Reloads = TRUE
INVARIANTS
    PartialWhenSomeHealthy
