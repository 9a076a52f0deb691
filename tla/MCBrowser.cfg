SPECIFICATION BrowserSpec
CONSTANTS
    Keys = {k1, k2}
    Logins = {l1, l2}
    MaxAccounts = 2
    NoSession = NoSession
SYMMETRY Symmetry
INVARIANTS
    BrowserTypeOK
    StorageIsOnePair
    TokensAreSigned
    GraduatesKeepTheirAccount
    InstitutionsAreAdmitted
CHECK_DEADLOCK FALSE
