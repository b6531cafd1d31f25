SPECIFICATION Spec
CONSTANTS
    Keys = {k1, k2}
    Values = {v1}
    NoValue = NoValue
    Deleted = Deleted
    Unwritten = Unwritten
    Threads = {t1, t2}
    Free = Free
    NoTemp = NoTemp
    Features = {}
    MaxCommits = 2
    MaxFiles = 2
    MaxStranded = 0
INVARIANTS
    TypeOK
    SnapshotConsistent
    SnapshotPinned
PROPERTIES
    CompactionPreserves
    IsolationSpec
    MutexReleased
