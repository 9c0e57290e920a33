CONSTANTS
    Customers = {11, 12}
    Pools = {21}
    Articles = {1, 2, 3, 4}
    SiteOf <- MCSiteOf
    Pages = {u1}
    Jobs = {j1, j2, j3}
    Readers = {r1}
    Scopes <- MCScopes
    Cap = 1
    LifetimeCap = 2
    SiteCap = 2
    SourceLimit = 3
    MaxChanges = 3
    MaxFaults = 1
    None = None
SYMMETRY Symmetry
SPECIFICATION MCSpec
INVARIANTS QueueBounded PairStaysFree NoStandstill
CHECK_DEADLOCK FALSE
