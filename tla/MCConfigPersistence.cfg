SPECIFICATION Spec
CONSTANTS
    theme = theme
    query = query
    call = call
    Keys <- MCKeys
    SavedSearches <- MCSavedSearches
    Calls <- MCCalls
    MaxConfigs = 3
    MaxErrors = 1
    MaxLoads = 1
INVARIANTS
    SettingsDurable
    StorageKept
    NothingUnsaved
    ReferencesAgree
PROPERTIES
    DelayedSaveHappens
CHECK_DEADLOCK FALSE
