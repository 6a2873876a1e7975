\* Three outages of two sub-components that may be removed.
SPECIFICATION Spec
CONSTANTS
    AllSubs = {"api", "ui"}
    Slots = {1, 2, 3}
    NoOutage = NoOutage
    ShownLevels = {"Suspected", "Down"}
    Reloads = TRUE
INVARIANTS
    AgreesWithSubComponents
