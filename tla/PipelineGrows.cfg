SPECIFICATION Spec
CONSTANTS
    Sessions = {s1, s2}
    Subjects = {u1, u2}
    Limits = {0, 1}
    Poison = {}
    BatchSize = 2
    ExtractConcurrency = 2
    SynthConcurrency = 2
    MaxTurns = 2
    MaxFails = 0
    MaxCrashes = 0
    MaxUserOps = 0
INVARIANTS ExtractionCoversTurns
CHECK_DEADLOCK FALSE
