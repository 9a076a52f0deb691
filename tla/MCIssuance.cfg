SPECIFICATION IssuanceSpec
CONSTANTS
    Addresses = {i1, i2}
    Institutions = {i1}
    Ids = {1, 2}
    Expiries = {0}
    Absent = Absent
    Calls = {c1, c2, c3}
    NoRow = NoRow
SYMMETRY Symmetry
INVARIANTS
    IssuanceTypeOK
    RowsFollowChain
    ResultsAreOwn
    DoneIsDone
PROPERTIES
    ImplementsService
CHECK_DEADLOCK FALSE
