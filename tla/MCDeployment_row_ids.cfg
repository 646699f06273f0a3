\* Two cleanups of one topology while another topology is deployed with the row ids the
\* first has freed.
CONSTANTS
    r1 = r1
    r2 = r2
    Requests = {r1, r2}
    MaxTopology = 2
    Plan <- PlanPair
    Retries = 0
    Operations = {"deploy", "scenario", "janitor", "delete"}
    FaultKinds = {"delete"}
    MaxFaults = 1
    MaxRequests = 4
    MaxGenerations = 1
SPECIFICATION Spec
PROPERTIES
    CleanupKeepsOthers
