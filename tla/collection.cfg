SPECIFICATION Spec
CONSTANTS
    Keys = {k1}
    Fields = {f1}
    Numbers = {1}
    Lifetimes = {1}
    NoValue = NoValue
    Threads = {t1, t2}
    MaxClock = 1
INVARIANTS
    TypeOK
    QueryAgrees
    UncontendedExact
PROPERTY SweepSparesLive
SYMMETRY ThreadSymmetry
