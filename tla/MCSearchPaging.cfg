SPECIFICATION Spec
CONSTANTS
    a = a
    b = b
    Indexers <- MCIndexers
    Items <- MCItems
    Owner <- MCOwner
    Score <- MCScore
    PageSize <- MCPageSize
    Liars <- MCLiars
    Worlds <- MCWorlds
    Limit = 2
    MaxQueries = 5
    MaxQueriesLoadAll = 6
    MaxResultsLoadAll = 5
    MaxFailures = 1
    MaxDbErrors = 1
    MaxRequests = 4
INVARIANTS
    MergedOnce
    EveryGroupOnce
    MergedNewestFirst
    NothingReturnedTwice
    NothingLost
    NothingHeldBack
PROPERTIES
    EveryRequestEnds
CHECK_DEADLOCK FALSE
