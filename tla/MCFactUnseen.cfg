SPECIFICATION Spec
CONSTANTS
    turnover = turnover
    staff = staff
    v1 = v1
    p1 = p1
    None = None
    Claims <- MCTwoClaims
    Values <- MCOneValue
    People <- MCPeople
    Docs = {}
    Slots = 1
    MaxFixes = 0
    MaxCited = 1
    MaxBusy = 2
INVARIANTS
    ConfirmedWasSeen
