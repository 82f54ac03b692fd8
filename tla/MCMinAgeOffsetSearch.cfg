SPECIFICATION Spec
CONSTANTS
    Dates <- MCDates
    Threshold = 1
    Tolerance = 1
    Worlds <- MCWorlds
    PageSize = 2
    MaxQueries = 4
    MaxQueriesLoadAll = 8
    MaxUploads = 1
    MaxFailures = 1
INVARIANTS
    TypeOK
    LowerBoundCorrect
    KeptContiguous
    NothingOldSkipped
PROPERTIES
    FirstOldEnoughDecided
CHECK_DEADLOCK FALSE
