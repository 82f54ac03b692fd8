SPECIFICATION Spec
CONSTANTS
    c1 = c1
    c2 = c2
    Calls <- MCOneCall
    Outcomes <- MCReachable
    MaxConfigs = 1
    MaxLevel = 2
INVARIANTS
    LevelCountsErrors
CHECK_DEADLOCK FALSE
