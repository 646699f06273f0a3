\* A deploy hydrates from the entry whose resources the janitor is deleting.
CONSTANTS
    r1 = r1
    r2 = r2
    Requests = {r1, r2}
    MaxTopology = 1
    Plan <- PlanPair
    Retries = 0
    Operations = {"deploy", "scenario", "janitor", "delete"}
    FaultKinds = {}
    MaxFaults = 0
    MaxRequests = 4
    MaxGenerations = 2
SPECIFICATION Spec
PROPERTIES
    JanitorSparesRecorded
