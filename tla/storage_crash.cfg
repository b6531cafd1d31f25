SPECIFICATION Spec
CONSTANTS
    Keys = {k1, k2}
    Values = {v1}
    NoValue = NoValue
    Faults = {"kill", "power"}
    MaxTxn = 2
    MaxRecs = 8
INVARIANTS
    TypeOK
    NeverCorrupt
    CountMatches
PROPERTIES
    AckMeansDurable
    NewestSlotSpared
    AtomicSpec
