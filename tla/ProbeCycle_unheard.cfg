\* A cycle that ends before every prober was heard.
SPECIFICATION Spec
CONSTANTS
    URLs = {"https://thanos"}
    Kubeconfigs = {"build01", "build02"}
    Files <- AllFiles
INVARIANTS
    UnheardIsNotHealthy
