SPECIFICATION Spec
CONSTANTS
    Keys = {1, 2, 3, 4, 5, 6, 7, 8, 9}
    BinaryKeys = {1, 2, 3, 4, 5, 6, 7}
    Versions = {v1}
    NoKey = NoKey
    Absent = Absent
    Order = 3
INVARIANTS
    TypeOK
    GetAgrees
    AuditOk
    RangeAgrees
