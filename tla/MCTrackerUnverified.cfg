SPECIFICATION BenchSpec
CONSTANTS
    r1 = r1
    r2 = r2
    x1 = x1
    x2 = x2
    Awards <- MCAwards
    Values <- MCValues
    Inside <- MCInside
    Queries <- MCQueries
    AskBands = {"large"}
    Anyone = Anyone
    NoPick = NoPick
    Stale = Stale
    FacetWidth = 1
    ListLimit = 2
    FunderLimit = 2
    MaxValues = 2
    MaxWalks = 1
    MaxChosen = 2
    Requests = {r1, r2}
    Apps = {1, 2}
    Texts = {x1, x2}
    NoText = NoText
    Blank = Blank
    NoReview = NoReview
    MaxQuestions = 2
    MaxStarts = 2
    MaxWrites = 3
    TypedSums = {4, 1000}
    Sums = {200}
    Funders <- MCFunders
    NoSum = NoSum
    NoScore = NoScore
    MaxLines = 2
    MaxOutcomes = 1
    MaxSheet = 2
    Whole = 12
    Deadlines = {3, 12}
    NoDate = NoDate
    Limits = {50}
    NoLimit = NoLimit
    Unknown = Unknown
    Means <- MCMeans
    MaxDay = 13
    MaxForm = 2
    MaxClaims = 2
    Orgs = {"ours", "theirs"}
    Desks = {r1, r2}
    Names = {"bell", "tower"}
    Registered = {"GB-1"}
    Typed = {"typed-1"}
    FundIds = {"fund"}
    Platform = Platform
    NoRow = NoRow
INVARIANTS
    OnlyVerifiedRulesRuleOut
