SPECIFICATION Spec
CONSTANTS
    Proc = {p1, p2}
    Version = {1, 2, 3}
    StaticVersion = {1, 2}
    MaxStarts = 4
    MaxPuts = 3
SYMMETRY ProcSymmetry
CHECK_DEADLOCK FALSE
INVARIANTS ReadsLatest StoreUsable TipsAreHeights
PROPERTY PastKept
