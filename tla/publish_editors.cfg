CONSTANTS
    NoArticle = 0
    None = None
    Suggestions = {1}
    Articles = {1}
    Row <- OneLink
    External = {1}
    Texts = {"t1"}
    AnchorsIn <- MCAnchors
    MaxInText = 1
    MaxAttempts = 2
    PlanIds = {1}
    MaxEdits = 0
    MaxFaults = 1
    Workers = {w1}
    PublishScopes <- AllPlans
    Preparers = {r1}
    PrepareScopes <- EachOrAll
    MaxArticles = 1
    Reviewers = {v1}
    Operations = {o1}
    PolicyEdits = {e1}
    TamperedHtml <- MCTampered
SPECIFICATION Spec
INVARIANTS ApprovedBytesOnly ExhaustedIsQuarantined
