CONSTANTS
    Callers = {c1, c2}
    Posts = {p1, p2}
    u1 = u1
    u2 = u2
    u3 = u3
    Urls = {u1, u2, u3}
    Outbound <- MCOutbound
    Redirect <- MCRedirect
    Pool = FALSE
    Tracked <- MCTracked
    MaxRows = 2
    MaxItems = 2
    MaxRuns = 3
    RatioNum = 2
    RatioDen = 3
    None = None
SYMMETRY Symmetry
SPECIFICATION Spec
INVARIANTS IdentitiesUnique LinksJoinActive
PROPERTIES ViewIsPromised
CHECK_DEADLOCK FALSE
