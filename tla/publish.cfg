CONSTANTS
    NoArticle = 0
    None = None
    Suggestions = {1, 2}
    Articles = {1}
    Row <- OneArticle
    External = {}
    Texts = {"t1"}
    AnchorsIn <- MCAnchors
    MaxInText = 1
    MaxAttempts = 2
    PlanIds = {1, 2}
    MaxEdits = 0
    MaxFaults = 1
    Workers = {w1}
    PublishScopes <- AllPlans
    Preparers = {r1}
    PrepareScopes <- EachOrAll
    MaxArticles = 1
    Reviewers = {}
    Operations = {}
    PolicyEdits = {}
    TamperedHtml = {}
SPECIFICATION FairSpec
INVARIANTS ApprovedPlanIsBound PostsOnlyWanted
PROPERTIES ApprovedIsResolved
