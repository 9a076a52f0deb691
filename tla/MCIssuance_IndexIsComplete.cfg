SPECIFICATION IssuanceSpec
CONSTANTS
    Addresses = {i1, i2}
    Institutions = {i1}
    Ids = {1, 2}
    Expiries = {0}
    Absent = Absent
    Calls = {c1}
    NoRow = NoRow
SYMMETRY Symmetry
INVARIANTS
    IndexIsComplete
CHECK_DEADLOCK FALSE
