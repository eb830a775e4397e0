SPECIFICATION Spec
CONSTANTS
    Requests = {d, u}
    Daemon = d
    Tokens = {a1, a2, a3}
    Refreshes = {r1, r2}
    NoToken = NoToken
    TokenTTL = 2
    PosTTL = 2
    NegTTL = 1
    Timeout = 1
    Uploaders = {u}
    Slack = 1
    MaxFaults = 1
    ExpClaims = {TRUE}
SYMMETRY CredentialsSymmetry
INVARIANTS TypeOK LoginKept NoOrphan
PROPERTIES AcceptsRecent ExpiryHonoured SyncServed
CHECK_DEADLOCK FALSE
