SPECIFICATION Spec
CONSTANTS
    c1 = c1
    c2 = c2
    Collectors = {c1, c2}
    Modes <- ServiceAndUser
    w1 = w1
    w2 = w2
    Workspaces = {w1, w2}
    Route <- Routes
    Sessions = {1, 2}
    Home <- Homes
    BatchSize = 1
    MaxTurns <- Turns
    MaxClock = 2
    MaxFails = 1
INVARIANTS TypeOK WatermarkDelivered
PROPERTIES RunCovers
CHECK_DEADLOCK FALSE
