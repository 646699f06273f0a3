\* Two threads, no crash: deploys, scenarios and the janitor while provider calls are refused
\* and retried, each topology's requests in turn, the janitor alone and updates of state.json
\* one after the other.
CONSTANTS
    r1 = r1
    r2 = r2
    Requests = {r1, r2}
    MaxTopology = 2
    Plan <- PlanTriple
    Retries = 1
    Operations = {"deploy", "scenario", "janitor"}
    FaultKinds = {"refuse"}
    MaxFaults = 2
    MaxRequests = 3
    MaxGenerations = 1
SPECIFICATION OrderlySpec
SYMMETRY Threads
INVARIANTS
    TypeOK
    AllOrNothing
    NoOrphans
    SnapshotAgrees
