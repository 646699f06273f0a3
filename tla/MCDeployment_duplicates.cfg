\* Two concurrent deploys of one topology both find no rows.
CONSTANTS
    r1 = r1
    r2 = r2
    Requests = {r1, r2}
    MaxTopology = 1
    Plan <- PlanPair
    Retries = 0
    Operations = {"deploy"}
    FaultKinds = {}
    MaxFaults = 0
    MaxRequests = 2
    MaxGenerations = 1
SPECIFICATION Spec
INVARIANTS
    NoDuplicates
