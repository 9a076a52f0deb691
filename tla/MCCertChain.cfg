SPECIFICATION ChainSpec
CONSTANTS
    Addresses = {a1, root}
    Admins = {root}
    NoInstitution = NoInstitution
    NoAdmin = NoAdmin
    MaxInstitutions = 3
    MaxIssued = 1
    Callers = {a1}
    CredContract = token
    RevocableIds = {1, 2}
    MaxRevocationLedger = 3
    Expiries = {0}
    NoCredential = NoCredential
    MaxCredentials = 1
    MaxVerifications = 0
INVARIANTS
    RegistryTypeOK
    IndexIsNewest
PROPERTIES
    RecordsAreForLife
CHECK_DEADLOCK FALSE
