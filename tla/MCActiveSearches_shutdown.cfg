SPECIFICATION Spec
CONSTANTS
    first = first
    more = more
    other = other
    id1 = id1
    id2 = id2
    a = a
    b = b
    Searches <- MCContinued
    Ids <- MCIds
    IdOf <- MCContinuedIdOf
    Indexers <- MCTwo
    MaxQueries = 1
    MaxSize = 2
    MayExpire = TRUE
    MayOverlap = FALSE
    MaxDbErrors = 0
    MayStop = TRUE
PROPERTIES
    EverySearchEnds
CHECK_DEADLOCK FALSE
