SPECIFICATION Spec
CONSTANTS
    Timers = {t1, t2}
    NoTimer = NoTimer
    ConfAfter = 1
    ConfMaxWait = 1
    DefaultAfter = 1
    Sessions = {s1, s2}
    Uploads = {h1}
    Manual = {m1}
    Scheduled = Scheduled
    Jobs = {j1, j2}
    NoJob = NoJob
    BatchSize = 1
    MaxFails = 0
    MaxCrashes = 0
INVARIANTS NeverDropped
CHECK_DEADLOCK FALSE
