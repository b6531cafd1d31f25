SPECIFICATION Spec
CONSTANTS
    Keys = {k1}
    Values = {v1, v2}
    NoValue = NoValue
    Deleted = Deleted
    Unwritten = Unwritten
    Threads = {t1, t2}
    Free = Free
    NoTemp = NoTemp
    Features = {"staging", "processes", "crashes", "errors"}
    MaxCommits = 2
    MaxFiles = 2
    MaxStranded = 1
SYMMETRY HandleSymmetry
INVARIANTS
    SnapshotsCounted
    SnapshotCountRecent
PROPERTIES
    FirstCommitterWins
