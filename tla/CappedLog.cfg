SPECIFICATION FairSpec
CONSTANTS
    Writers = {w1, w2}
    Sizes = {1, 2}
    LongestLine = 2
    MaxBytes = 2
    MaxLines = 5
    MaxFaults = 2
    None = None
INVARIANTS Inv
PROPERTIES Implements WriteEnds GetsThrough
CHECK_DEADLOCK FALSE
