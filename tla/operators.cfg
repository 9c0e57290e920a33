SPECIFICATION Spec
CONSTANTS
    People = {p1, p2}
    BootstrapId = p1
    Codes = {1, 2, 3}
    SessionIds = {1, 2, 3}
    Browsers = {b1, b2}
    MaxVisits = 5
    MaxLapses = 1
    Nobody = nobody
    Sites = {1, 2}
    Same <- MCSame
    Listed = {1, 2}
    Requests = {r1, r2}
    Crawlers = {c1, c2}
    Threshold = 2
    MaxCalls = 5
INVARIANTS OneSessionPerCode NoPrivateNetwork FailuresQuarantine
PROPERTIES BanStands
CHECK_DEADLOCK FALSE
