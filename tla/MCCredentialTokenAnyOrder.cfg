SPECIFICATION AnyOrderSpec
CONSTANTS
    Addresses = {a1, a2}
    Expiries = {0, 1}
    NoCredential = NoCredential
    MaxCredentials = 2
    MaxLedger = 2
    MaxVerifications = 1
PROPERTIES
    IssuedForGood
CHECK_DEADLOCK FALSE
