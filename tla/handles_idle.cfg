SPECIFICATION Spec
CONSTANTS
    Processes = {p1, p2}
    Free = Free
    Keys = {k1}
    Values = {v1}
    NoValue = NoValue
    MaxTxn = 3
    MaxRecs = 3
PROPERTY CurrentSlotSpared
SYMMETRY ProcessSymmetry
