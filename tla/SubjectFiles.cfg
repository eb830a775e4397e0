SPECIFICATION Spec
CONSTANTS
    w1 = w1
    w2 = w2
    Writers = {w1, w2}
    Kinds <- AgentAndUser
    Readers = {r1}
    Inodes = {i1, i2, i3}
    NoInode = NoInode
    MaxOps = 4
    MaxFails = 1
    MaxCrashes = 1
    Serial = TRUE
INVARIANTS TypeOK NeverTorn IndexFollows
PROPERTIES RegisterSpec
CHECK_DEADLOCK FALSE
