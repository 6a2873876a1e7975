\* A change arrives before the new outage is reported.
SPECIFICATION Spec
CONSTANTS
    everything = everything
    oncall = oncall
    Requests = {"create", "update"}
    Channels = {everything, oncall}
    Configs <- SomeConfigs
    Levels = {"Suspected", "Degraded", "Down"}
    NoOutage = NoOutage
    NoThread = NoThread
    NoComponent = NoComponent
    MaxRoots = 3
INVARIANTS
    OneRootPerEntry
