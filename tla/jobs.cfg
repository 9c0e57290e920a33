CONSTANTS
    Runs = {1, 2}
    PipelineRuns = {1}
    Callers = {c1, c2}
    Horses = {h1, h2}
    MaxRetries = 1
    AllowedFaults = {}
    None = None
SYMMETRY Symmetry
SPECIFICATION Spec
INVARIANTS OneBodyAtATime RecordsAgree
PROPERTIES LostIsDead
