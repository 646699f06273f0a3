\* Two threads, every kind of request, and every kind of fault but refused calls, which the
\* serial and reclaim instances have: no interleaving loses a resource other than by the
\* causes Accounted names, no teardown blocks itself, and under fair scheduling every request
\* ends.  No symmetry: RequestsEnd is about liveness.
CONSTANTS
    r1 = r1
    r2 = r2
    Requests = {r1, r2}
    MaxTopology = 1
    Plan <- PlanPair
    Retries = 0
    Operations = {"deploy", "scenario", "janitor", "delete"}
    FaultKinds = {"answer", "delete", "write", "crash"}
    MaxFaults = 1
    MaxRequests = 3
    MaxGenerations = 2
SPECIFICATION FairSpec
INVARIANTS
    Accounted
PROPERTIES
    RefusedOnlyByStrangers
    RequestsEnd
