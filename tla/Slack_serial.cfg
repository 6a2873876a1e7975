\* One request after the other; whatever may fail fails.
SPECIFICATION Spec
CONSTANTS
    everything = everything
    oncall = oncall
    Requests = {"one"}
    Channels = {everything, oncall}
    Configs <- SomeConfigs
    Levels = {"Suspected", "Degraded", "Down"}
    NoOutage = NoOutage
    NoThread = NoThread
    NoComponent = NoComponent
    MaxRoots = 3
INVARIANTS
    ThreadsTellTheRow
    SomeoneKnows
    OneRootPerEntry
PROPERTIES
    ReopenedByTheSameList
