SPECIFICATION Spec
CONSTANTS
    preferred = preferred
    other = other
    movie = movie
    show = show
    Accepted <- MCAccepted
    RejectedUpTo <- MCRejectedUpTo
    EpochOf <- MCEpochOf
    Indexers <- MCIndexers
    IndexerOf <- MCIndexerOf
    ScoreOf <- MCScoreOf
    TitleOf <- MCTitleOf
    IdentityOf <- MCIdentityOf
    ValueOf <- MCValueOf
    Downloaded <- MCDownloaded
    StoredChoices <- MCStoredChoices
    PageSize = 1
    MaxActs = 4
    MaxFailures = 1
INVARIANTS
    NothingUnreachable
    SelectionPassesFilters
    LoadedWithoutGap
PROPERTIES
    OtherPagesKept
CHECK_DEADLOCK FALSE
