\* A crash between two steps of the create loop.
CONSTANTS
    r1 = r1
    r2 = r2
    Requests = {r1}
    MaxTopology = 1
    Plan <- PlanPair
    Retries = 0
    Operations = {"deploy"}
    FaultKinds = {"crash"}
    MaxFaults = 1
    MaxRequests = 2
    MaxGenerations = 1
SPECIFICATION Spec
INVARIANTS
    CrashOrphansListed
