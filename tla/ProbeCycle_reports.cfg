\* Files with HTTP, Prometheus, systemd and JUnit monitors of shared sub-components.
SPECIFICATION Spec
CONSTANTS
    URLs = {"https://thanos"}
    Kubeconfigs = {"build01", "build02"}
    Files <- AllFiles
INVARIANTS
    DownIsReported
    NoFalseAlarms
    ErrorsLeaveDoubt
