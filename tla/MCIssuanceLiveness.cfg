SPECIFICATION IssuanceFairSpec
CONSTANTS
    Addresses = {i1, i2}
    Institutions = {i1}
    Ids = {1, 2}
    Expiries = {0}
    Absent = Absent
    Calls = {c1, c2}
    NoRow = NoRow
PROPERTIES
    CallsEnd
CHECK_DEADLOCK FALSE
