CONSTANTS
    NoArticle = 0
    MaxScore = 1
    ArticleIds = {1, 2, 3}
    MaxInText = 2
    MinGap = 2
    NoHref = NoHref
    t1 = t1
    t2 = t2
    t3 = t3
    x = x
    y = y
    PoolSize = 2
    Boost = 50
    UnderlinkedMax = 1
    HubMin = 2
    SaturationMin = 2
    NoAge = NoAge
    Retries = 1
    MaxResults = 3
    Pages = {1, 2, 3, 4, 5, 6}
    Home = 1
    LinksOf <- MCLinks
    Fallback = TRUE
    MaxDepth = 3
    MaxUrls = 5
    MaxArticles = 4
    PerPage = 2
    MaxApiPages = 3
    MaxPosts = 6
    Bases = 2
    Tenants = {1, 2}
    Default = 1
    ApiKeys = {k1}
    SiteIds = {s1, s2}
    Requests = {r1, r2}
    NoTenant = 0
    Offers = {1, 2}
    SourceOf <- MCSourceOf
    Anchors = {"ab", "AB"}
    Casefold <- MCCasefold
    Drawers = {d1, d2}
    Budgets = {1, 2}
    MaxPasses = 2
    MinAnchorChars = 1
    MaxAnchorChars = 2
    MaxSourceChars = 3
    Unset = Unset
    Nothing = Nothing
    RowIds = {1, 2, 3, 4}
    RowScores = {594, 595}
    PairOf <- MCPairOf
    PageLimit = 2
    MinPercents = {0, 60}
    MaxChanges = 2
SYMMETRY Symmetry
SPECIFICATION Spec
INVARIANTS CohortExact LinksInserted RankingExact SimulationExact PolicySettled GapFilledOnce WalkIsExact PagingMissesNothing KeyContained PlacementsAgree PlacementsVerbatim QueueShownOnce
CHECK_DEADLOCK FALSE
