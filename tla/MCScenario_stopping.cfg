\* A host is failed and reconciled on a provider whose stops take time.
SPECIFICATION Spec
CONSTANTS
    Hosts = {"h1", "h2"}
    Tested <- Link
    MaxSteps = 3
    MaxDisturbances = 0
CHECK_DEADLOCK FALSE
PROPERTIES
    ReconcileLeavesNoneDown
