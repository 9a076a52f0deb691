SPECIFICATION ChainSpec
CONSTANTS
    Addresses = {a1, root}
    Admins = {root}
    NoInstitution = NoInstitution
    NoAdmin = NoAdmin
    MaxInstitutions = 1
    MaxIssued = 1
    Callers = {a1}
    CredContract = token
    RevocableIds = {1}
    MaxRevocationLedger = 1
    Expiries = {0}
    NoCredential = NoCredential
    MaxCredentials = 1
    MaxVerifications = 0
PROPERTIES
    SuspensionHaltsIssuance
CHECK_DEADLOCK FALSE
