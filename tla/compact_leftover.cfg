SPECIFICATION Spec
CONSTANTS
    Keys = {k1}
    Values = {v1}
    NoValue = NoValue
    Deleted = Deleted
    Unwritten = Unwritten
    Threads = {t1}
    Free = Free
    NoTemp = NoTemp
    Features = {"crashes", "errors"}
    MaxCommits = 2
    MaxFiles = 2
    MaxStranded = 0
PROPERTIES
    CompactionPreserves
