SPECIFICATION FairSpec
CONSTANTS
    s1 = s1
    s2 = s2
    Steps <- MCSteps
    FirstListed = 2
    MaxListed = 3
    PageSize = 2
    Endings = {"stored"}
    NoOrgId = {3}
    MaxRestarts = 0
    MaxSetbacks = 1
INVARIANTS
    FinishedMeansListRead
PROPERTIES
    LoadFinishes
