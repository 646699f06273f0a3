\* A recorded violation: requests for one topology in turn and the janitor alone, but updates of
\* state.json interleave.  The save of one topology drops the entry of another, whose deletion
\* then leaves its resources where CloudNet does not look.
CONSTANTS
    r1 = r1
    r2 = r2
    Requests = {r1, r2}
    MaxTopology = 2
    Plan <- PlanPair
    Retries = 0
    Operations = {"deploy", "janitor", "delete"}
    FaultKinds = {"refuse"}
    MaxFaults = 1
    MaxRequests = 5
    MaxGenerations = 2
SPECIFICATION AloneSpec
SYMMETRY Threads
INVARIANTS
    Reclaimable
