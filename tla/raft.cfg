SPECIFICATION MCSpec
CONSTANTS
    Nodes = {n1, n2, n3}
    Commands = {c1}
    Noop = Noop
    Nil = Nil
    LogPersisted = TRUE
    MaxTerm = 3
    MaxLog = 3
SYMMETRY NodeSymmetry
INVARIANTS
    TypeOK
    ElectionSafety
    LogMatching
    LeaderCompleteness
    StateMachineSafety
    AppliedIsReplicated
PROPERTIES
    CommitMonotonic
    SubmitAppliesWhileLeading
CHECK_DEADLOCK FALSE
