CONSTANTS
    NoArticle = 0
    None = None
    Suggestions = {1}
    Articles = {1}
    Row <- OneLink
    External = {}
    Texts = {"t1"}
    AnchorsIn <- MCAnchors
    MaxInText = 1
    MaxAttempts = 2
    PlanIds = {1}
    MaxEdits = 0
    MaxFaults = 0
    Workers = {w1}
    PublishScopes <- AllPlans
    Preparers = {r1}
    PrepareScopes <- EachOrAll
    MaxArticles = 1
    Reviewers = {}
    Operations = {o1}
    PolicyEdits = {}
    TamperedHtml = {}
SPECIFICATION Spec
INVARIANTS PostsOnlyWanted
