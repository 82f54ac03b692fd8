SPECIFICATION Spec
CONSTANTS
    theme = theme
    query = query
    call = call
    Keys <- MCNone
    SavedSearches <- MCSavedSearches
    Calls <- MCNone
    MaxConfigs = 2
    MaxErrors = 0
    MaxLoads = 0
INVARIANTS
    SavedSearchesKept
CHECK_DEADLOCK FALSE
