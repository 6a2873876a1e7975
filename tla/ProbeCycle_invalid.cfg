\* A monitor configured with a severity outside the enumeration.
SPECIFICATION Spec
CONSTANTS
    URLs = {"https://thanos"}
    Kubeconfigs = {}
    Files <- UnknownSeverity
INVARIANTS
    DownIsReported
