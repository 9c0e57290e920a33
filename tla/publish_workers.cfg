CONSTANTS
    NoArticle = 0
    None = None
    Suggestions = {1}
    Articles = {1}
    Row <- OneLink
    External = {}
    Texts = {"t1", "t2"}
    AnchorsIn <- MCAnchors
    MaxInText = 1
    MaxAttempts = 2
    PlanIds = {1, 2}
    MaxEdits = 1
    MaxFaults = 1
    Workers = {w1, w2}
    PublishScopes <- AllPlans
    Preparers = {r1}
    PrepareScopes <- EachOrAll
    MaxArticles = 1
    Reviewers = {}
    Operations = {}
    PolicyEdits = {}
    TamperedHtml = {}
    MaxLinks = 4
    PublishRetries = 2
SPECIFICATION JobsSpec
INVARIANTS Custody AppliedWasServed AppliedIsExact TerminalAddsUp
PROPERTIES NoWorkerInterference
