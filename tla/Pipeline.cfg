SPECIFICATION Spec
CONSTANTS
    Sessions = {s1, s2}
    Subjects = {u1, u2}
    Limits = {0, 1}
    Poison = {}
    BatchSize = 2
    ExtractConcurrency = 2
    SynthConcurrency = 2
    MaxTurns = 2
    MaxFails = 2
    MaxCrashes = 1
    MaxUserOps = 0
SYMMETRY PipelineSymmetry
INVARIANTS TypeOK WatermarkCovered FactsCheckpointed
PROPERTIES PassLeavesClean
CHECK_DEADLOCK FALSE
