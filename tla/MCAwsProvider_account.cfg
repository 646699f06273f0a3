\* Two topologies in an account with strangers.
SPECIFICATION Spec
CONSTANTS
    Topologies = {"t1", "t2"}
    Label <- Labels
    Segments <- Links
    Home <- Homes
    Retries = 1
    MaxForeign = 1
    MaxDisturbances = 2
    MaxRequests = 3
    MaxActive = 1
CHECK_DEADLOCK FALSE
INVARIANTS
    AwsTypeOK
    UniqueNames
    DeployedIsWhole
    NothingMislaid
    TornDown
PROPERTIES
    SparesOthers
    RefusedForOthers
