SPECIFICATION BatchSpec
CONSTANTS
    Addresses = {a1, a2}
    Expiries = {0, 1}
    NoCredential = NoCredential
    MaxCredentials = 3
    MaxLedger = 2
    MaxVerifications = 1
    MaxBatch = 2
    NoBatch = NoBatch
SYMMETRY Symmetry
INVARIANTS
    TypeOK
    GraduateIndexExact
    StatusDated
    EventsTellTheLedger
    BatchIsContiguous
PROPERTIES
    NeverGenuineAgain
    ImplementsLifecycle
CHECK_DEADLOCK FALSE
