CONSTANTS
    Runs = {1}
    PipelineRuns = {1}
    Callers = {c1}
    Horses = {h1}
    MaxRetries = 2
    AllowedFaults = {"api", "redis", "unreachable", "handler", "database"}
    None = None
SPECIFICATION FairSpec
PROPERTIES EveryRunEnds
