\* An outage that is upgraded after it was reported.
SPECIFICATION Spec
CONSTANTS
    everything = everything
    oncall = oncall
    Requests = {"one"}
    Channels = {everything, oncall}
    Configs <- SomeConfigs
    Levels = {"Suspected", "Degraded", "Down"}
    NoOutage = NoOutage
    NoThread = NoThread
    NoComponent = NoComponent
    MaxRoots = 3
INVARIANTS
    UpgradeIsReported
