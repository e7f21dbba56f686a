SPECIFICATION Spec
CONSTANTS
    Req = {"r1", "r2", "r3"}
    Instance = {"i1", "i2"}
    InstanceOf <- MCInstanceOf
    Kind <- MCKind
    RetryCount = 2
    MaxRetries = 2
    Prober = {"q"}
    MaxCrashes = 1
INVARIANTS
    TypeOK
    KeyHeldOnlyAtWork
PROPERTIES
    WaitEnds
    ImplementsLease
CHECK_DEADLOCK FALSE
