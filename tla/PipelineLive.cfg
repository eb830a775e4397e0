SPECIFICATION FairEditSpec
CONSTANTS
    Sessions = {s1, s2, s3}
    Subjects = {u1}
    Limits = {0}
    Poison = {s3}
    BatchSize = 2
    ExtractConcurrency = 2
    SynthConcurrency = 1
    MaxTurns = 1
    MaxFails = 1
    MaxCrashes = 1
    MaxUserOps = 1
PROPERTIES PassEnds SubjectsSettle WatermarkMonotone
CHECK_DEADLOCK FALSE
