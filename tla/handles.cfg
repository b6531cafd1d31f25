SPECIFICATION Spec
CONSTANTS
    Processes = {p1, p2, p3}
    Free = Free
    Keys = {k1, k2}
    Values = {v1}
    NoValue = NoValue
    MaxTxn = 2
    MaxRecs = 3
INVARIANT RootsReadable
PROPERTY StagedCommitExtends
SYMMETRY ProcessSymmetry
CONSTRAINT OnCourse
