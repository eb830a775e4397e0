SPECIFICATION Spec
CONSTANTS
    n1 = n1
    x1 = x1
    Requests = {q1, q2}
    Remotes = {r1, r2}
    Names = {n1}
    Paths = {x1}
    Hints <- AskedHints
    Ids = {p1, p2, p3}
    BadId = BadId
    None = None
    MaxAsks = 4
    MaxFails = 1
SYMMETRY RegistrySymmetry
INVARIANTS TypeOK RemoteDecides LaterAgree OrphansByRace
CHECK_DEADLOCK FALSE
