SPECIFICATION Spec
CONSTANTS
    w1 = w1
    w2 = w2
    Writers = {w1, w2}
    Kinds <- UserAndSynthesis
    Readers = {}
    Inodes = {i1, i2, i3, i4}
    NoInode = NoInode
    MaxOps = 3
    MaxFails = 0
    MaxCrashes = 0
    Serial = FALSE
INVARIANTS LinesKept
CHECK_DEADLOCK FALSE
