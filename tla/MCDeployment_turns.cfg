\* Two threads that never work on one topology at a time, with every kind of request and fault.
CONSTANTS
    r1 = r1
    r2 = r2
    Requests = {r1, r2}
    MaxTopology = 2
    Plan <- PlanPair
    Retries = 0
    Operations = {"deploy", "scenario", "janitor", "delete"}
    FaultKinds = {"refuse", "answer", "delete", "write", "crash"}
    MaxFaults = 1
    MaxRequests = 4
    MaxGenerations = 2
SPECIFICATION TurnSpec
SYMMETRY Threads
INVARIANTS
    NoDuplicates
PROPERTIES
    JanitorSparesRecorded
    CleanupKeepsOthers
