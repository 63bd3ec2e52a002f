SPECIFICATION PeopleSpec
CONSTANTS
    m1 = m1
    m2 = m2
    w1 = w1
    w2 = w2
    t1 = t1
    t2 = t2
    d1 = d1
    d2 = d2
    d3 = d3
    p1 = p1
    p2 = p2
    o1 = o1
    o2 = o2
    e1 = e1
    l1 = l1
    l2 = l2
    s1 = s1
    r1 = r1
    r2 = r2
    NoShare = NoShare
    Never = Never
    k1 = k1
    k2 = k2
    EnvKey = EnvKey
    x1 = x1
    x2 = x2
    y1 = y1
    y2 = y2
    NoKey = NoKey
    NoMaster = NoMaster
    NoRow = NoRow
    NoText = NoText
    NoRequest = NoRequest
    Nobody = Nobody
    Keys <- MCKeys
    Masters <- MCMasters
    Screens <- MCScreens
    Typed = {0, 7, 900}
    People <- MCPersons
    Orgs <- MCOrgs
    Addresses <- MCAddresses
    Links <- MCLinks
    Doors <- MCDoors
    Shares <- MCShares
    Readers <- MCReaders
    Lengths = {1, 2}
    MaxComments = 2
    MaxClock = 3
    MaxViews = 3
    Admins <- MCAdmins
    Passwords <- MCPasswords
    Tokens <- MCTokens
    Desks <- MCDesks
    Nothing = Nothing
    Operator = Operator
    SandboxOrg = SandboxOrg
    None = None
    OwnerBypassesRLS = FALSE
SYMMETRY Symmetry
INVARIANTS
    TypesOK
    OnlyCrossingsClose
    EndedStaysEnded
    SessionsAreTheirOwn
    ResetsAreFinal
    OperatorIsObeyed
PROPERTIES
    ErasureIsExact
    LinkLimitsHold
