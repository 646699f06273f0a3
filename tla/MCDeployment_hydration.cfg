\* A topology id is used again while state.json still lists its predecessor's resources.
CONSTANTS
    r1 = r1
    r2 = r2
    Requests = {r1}
    MaxTopology = 1
    Plan <- PlanPair
    Retries = 0
    Operations = {"deploy", "scenario", "janitor", "delete"}
    FaultKinds = {}
    MaxFaults = 0
    MaxRequests = 3
    MaxGenerations = 2
SPECIFICATION Spec
INVARIANTS
    RowsOfThisTopology
