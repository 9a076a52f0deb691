SPECIFICATION BulkSpec
CONSTANTS
    N = 3
    MaxStalls = 1
    Decorated = TRUE
INVARIANTS
    BulkTypeOK
    ResultAccounts
    OncePerRun
PROPERTIES
    JobEnds
CHECK_DEADLOCK FALSE
