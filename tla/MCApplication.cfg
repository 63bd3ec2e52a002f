SPECIFICATION AppSpec
CONSTANTS
    turnover = turnover
    v1 = v1
    v2 = v2
    p1 = p1
    p2 = p2
    d1 = d1
    c1 = c1
    c2 = c2
    rule1 = rule1
    rule2 = rule2
    None = None
    Unknown = Unknown
    Blank = Blank
    Claims <- MCClaims
    Values <- MCValues
    People <- MCPeople
    Docs <- MCDocs
    Slots = 1
    MaxFixes = 2
    MaxCited = 1
    MaxBusy = 2
    Clerks <- MCClerks
    Amounts = {1}
    MaxDay = 3
    MaxLines = 1
    RuleIds <- MCRuleIds
    Guidance <- MCGuidance
    Boxes <- MCBoxes
    MaxNumber = 2
    WorkClaims <- MCWorkClaims
    AnsweredBy <- MCAnsweredBy
    Forms <- MCForms
    Gave <- MCGave
    Funds <- MCFunds
    SharedFunds <- MCShared
    Judgements <- MCJudgements
    MaxOthers = 3
    SumsSought = {9000, 25000}
    Unseen = Unseen
    NoSum = NoSum
    NoProject = NoProject
    Target = 4
    MaxChars = 6
    Overlap = 2
    MaxBatch = 9
    MaxSentence = 7
    MaxPages = 2
CONSTRAINT FewAtOnce
SYMMETRY MCSymmetry
INVARIANTS
    TypesOK
    CheckedByAPerson
    CitationsHold
    VerdictIsSure
    HandRulesWork
    ScreensAgree
    NothingGoesUnread
PROPERTIES
    CorrectionStands
    OutcomeIsWhole
    AnswersOnlySettle
