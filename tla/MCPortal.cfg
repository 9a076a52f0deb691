SPECIFICATION PortalSpec
CONSTANTS
    Institutions = {i1, i2}
    Nobody = Nobody
    Graduate = Graduate
    Ids = {c1, c2}
    Requests = {r1, r2}
SYMMETRY Symmetry
INVARIANTS
    PortalTypeOK
    ReportsAreTrue
    RevocationsShown
    IssuedOnce
CHECK_DEADLOCK FALSE
