SPECIFICATION Spec
CONSTANTS
    first = first
    more = more
    other = other
    id1 = id1
    id2 = id2
    a = a
    b = b
    Searches <- MCSearches
    Ids <- MCIds
    IdOf <- MCIdOf
    Indexers <- MCOne
    MaxQueries = 1
    MaxSize = 2
    MayExpire = FALSE
    MayOverlap = FALSE
    MaxDbErrors = 1
    MayStop = FALSE
INVARIANTS
    TypeOK
    NoRoundAfterShortcut
    EveryCallCancelled
    OnlyRequestedCut
CHECK_DEADLOCK FALSE
