SPECIFICATION Spec
CONSTANTS
    Keys = {k1}
    Values = {v1}
    NoValue = NoValue
    Faults = {"power", "io", "rot"}
    MaxTxn = 3
    MaxRecs = 4
INVARIANTS
    NeverCorrupt
    FallbackIsPrevious
