SPECIFICATION FairSpec
CONSTANTS
    Timers = {t1, t2}
    NoTimer = NoTimer
    ConfAfter = 2
    ConfMaxWait = 3
    DefaultAfter = 1
    Sessions = {s1}
    Uploads = {h1}
    Manual = {m1}
    Scheduled = Scheduled
    Jobs = {j1, j2}
    NoJob = NoJob
    BatchSize = 1
    MaxFails = 0
    MaxCrashes = 0
PROPERTIES EarlyUploadExtracted ScheduledPassEnds TriggerServed QuietBeforePass
CHECK_DEADLOCK FALSE
