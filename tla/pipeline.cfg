CONSTANTS
    Sites = {s1, s2}
    MaxRetries = 1
    RetrySites = {s1}
    MaxIncidents = 1
    KillLast = FALSE
    None = None
SPECIFICATION FairSpec
INVARIANTS BatchAgrees SucceededIsEarned
PROPERTIES CancelIsFinal BatchEnds
CHECK_DEADLOCK FALSE
