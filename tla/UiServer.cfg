SPECIFICATION Spec
CONSTANTS
    Clients = {"c1", "c2", "c3"}
    Asks <- MCAsks
    Verbose = {"c1"}
    Cap = 2
    Failures = 1
INVARIANTS
    TypeOK
    AdmissionsAccounted
    OwnerCloses
PROPERTIES
    ShutdownReturns
    GoneIsClosed
    NotHeldUp
CHECK_DEADLOCK FALSE
