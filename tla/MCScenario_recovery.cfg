\* A host outside the tested link fails again after the repair of its first failure.
SPECIFICATION Spec
CONSTANTS
    Hosts = {"h1", "h2", "h3"}
    Tested <- Link
    MaxSteps = 5
    MaxDisturbances = 0
CHECK_DEADLOCK FALSE
INVARIANTS
    RecoveryOfThisFailure
