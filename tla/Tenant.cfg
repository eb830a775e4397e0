SPECIFICATION Spec
CONSTANTS
    Timers = {t1, t2, t3}
    NoTimer = NoTimer
    ConfAfter = 2
    ConfMaxWait = 3
    DefaultAfter = 1
    Sessions = {s1, s2}
    Uploads = {h1}
    Manual = {m1}
    Scheduled = Scheduled
    Jobs = {j1, j2}
    NoJob = NoJob
    BatchSize = 1
    MaxFails = 1
    MaxCrashes = 1
SYMMETRY TenantSymmetry
INVARIANTS TenantTypeOK SingleFlight ExtractedOnce JoinedJobLives OnePass TriggerRemembered BurstCovered
CHECK_DEADLOCK FALSE
