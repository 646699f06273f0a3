\* Two linked hosts, one failed call or change by another request.
SPECIFICATION Spec
CONSTANTS
    Hosts = {"h1", "h2"}
    Tested <- Link
    MaxSteps = 5
    MaxDisturbances = 1
CHECK_DEADLOCK FALSE
INVARIANTS
    ScenarioTypeOK
    VerdictMatchesRecords
    RecoveryIsMeasured
    ClosedAsAsked
PROPERTIES
    ReadingsAreReal
    ReconcileRevives
