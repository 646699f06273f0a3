\* That the search ends for every topology of MCAlgorithms.
SPECIFICATION FairSpec
CONSTANTS
    MaxHosts = 4
    MaxNetworks = 4
    MaxCost = 7
    MaxInstances = 3
    Unit = 2
    Topologies <- AllTopologies
    Providers <- AllProviders
    Latencies <- AllLatencies
    Thresholds <- AllThresholds
    Measurements <- Judged
    Width = 2
CHECK_DEADLOCK FALSE
PROPERTIES
    EveryTopologyIsAnswered
