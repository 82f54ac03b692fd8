SPECIFICATION Spec
CONSTANTS
    c1 = c1
    c2 = c2
    Calls <- MCTwoCalls
    Outcomes <- AllOutcomes
    MaxConfigs = 2
    MaxLevel = 2
INVARIANTS
    TypeOK
PROPERTIES
    UserDisabledStays
    TemporaryDisableEnds
CHECK_DEADLOCK FALSE
