SPECIFICATION VerificationFairSpec
CONSTANTS
    Addresses = {i1, i2}
    Registered = {i1}
    Ids = {1}
    Expiries = {0, 2}
    Absent = Absent
    Sessions = {s1}
    TTL = 1
    MaxFetch = 1
    MaxBulk = 1
    MaxTime = 3
    Codec = "committed"
    NoEntry = NoEntry
PROPERTIES
    GenuineIsAnswered
CHECK_DEADLOCK FALSE
