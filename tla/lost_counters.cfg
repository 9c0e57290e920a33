CONSTANTS
    MaxLinks = 1
    PublishRetries = 0
SPECIFICATION ProgressSpec
INVARIANTS EveryFailureAddsUp
CHECK_DEADLOCK FALSE
