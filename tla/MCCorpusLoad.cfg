SPECIFICATION Spec
CONSTANTS
    s1 = s1
    s2 = s2
    Steps <- MCSteps
    FirstListed = 2
    MaxListed = 2
    PageSize = 2
    Endings = {"stored", "cut short", "cut short, not stored"}
    NoOrgId = {}
    MaxRestarts = 1
    MaxSetbacks = 1
SYMMETRY Symmetry
INVARIANTS
    TypeOK
    CursorCovered
    MissingIsCounted
PROPERTIES
    LeaseIsSingle
    LowWaterRises
