\* Two threads that deploy, run the janitor, and delete and recreate topologies, each topology's
\* requests in turn, the janitor alone and updates of state.json one after the other: what is
\* left at the provider is still listed somewhere CloudNet looks, nothing is there twice, and the
\* janitor and the cleanups spare what they should.
CONSTANTS
    r1 = r1
    r2 = r2
    Requests = {r1, r2}
    MaxTopology = 2
    Plan <- PlanPair
    Retries = 0
    Operations = {"deploy", "janitor", "delete"}
    FaultKinds = {"refuse"}
    MaxFaults = 1
    MaxRequests = 5
    MaxGenerations = 2
SPECIFICATION OrderlySpec
SYMMETRY Threads
INVARIANTS
    Reclaimable
    NoDuplicates
PROPERTIES
    JanitorSparesRecorded
    CleanupKeepsOthers
