SPECIFICATION VerificationSpec
CONSTANTS
    Addresses = {i1, i2}
    Registered = {i1}
    Ids = {1}
    Expiries = {0, 2}
    Absent = Absent
    Sessions = {s1, s2}
    TTL = 2
    MaxFetch = 1
    MaxBulk = 1
    MaxTime = 6
    Codec = "mocked"
    NoEntry = NoEntry
SYMMETRY Symmetry
INVARIANTS
    VerificationTypeOK
    AnswersWereTrue
    StalenessBounded
    BulkAnswersHold
CHECK_DEADLOCK FALSE
