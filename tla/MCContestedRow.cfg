SPECIFICATION RowsSpec
CONSTANTS
    w1 = w1
    w2 = w2
    w3 = w3
    Writers <- MCWriters
    NoOne = NoOne
    MaxAwards = 2
    ByHand = FALSE
    Never = Never
    BeforeProgress = TRUE
    MaxAttempts = 3
    Window = 3
    a1 = a1
    a2 = a2
    NoRecord = NoRecord
    i1 = i1
    i2 = i2
    r1 = r1
    r2 = r2
    t1 = t1
    t2 = t2
    Nobody = Nobody
    Instances <- MCInstances
    Requests <- MCRequests
    Tenants <- MCTenants
    Migrations = 2
    PoolMax = 1
    MaxFailures = 1
    Attempts <- MCAttempts
    Calls <- MCCalls
    Addresses <- MCAddresses
    Resolved <- MCResolved
    Timeouts <- MCTimeouts
    MinInterval = 2
    MaxRedirects = 2
    MaxBytes = 2
    MaxTries = 2
    c1 = c1
    c2 = c2
    Off = Off
    Nowhere = Nowhere
    Nothing = Nothing
    Funders <- MCFunders
    AwardLists <- MCAwardLists
    Projects <- MCProjects
    Somewhere <- MCSomewhere
    Days <- MCDays
INVARIANTS
    TypesOK
    FillingIsHonest
    ServingIsSafe
    BlocksAreJust
PROPERTIES
    CardsAreFair
    ImplementsContract
    CallsAreCareful
    WaitsEnd
