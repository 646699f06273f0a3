\* One call of a deploy is throttled.
SPECIFICATION Spec
CONSTANTS
    Topologies = {"t1"}
    Label <- Labels
    Segments <- OneLink
    Home <- OneHome
    Retries = 1
    MaxForeign = 0
    MaxDisturbances = 1
    MaxRequests = 1
    MaxActive = 1
CHECK_DEADLOCK FALSE
INVARIANTS
    FailedDeployLeavesNothing
