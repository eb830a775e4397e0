SPECIFICATION Spec
CONSTANTS
    Tokens = {t1, t2}
    Sidecars = {"journal", "wal"}
    MaxClock = 1
    MaxRuns = 3
    MaxFlips = 2
    MaxBreaks = 1
    MaxEvents = 4
CONSTRAINT FewEvents
SYMMETRY TokenSymmetry
INVARIANTS TypeOK NothingLost CopiesWhole
PROPERTIES NeverAnew
CHECK_DEADLOCK FALSE
