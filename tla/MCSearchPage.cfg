SPECIFICATION Spec
CONSTANTS
    movie = movie
    movieTyped = movieTyped
    noValues = noValues
    bare = bare
    movieRoute = movieRoute
    repeatedMovie = repeatedMovie
    Values <- MCValues
    Routes <- MCRoutes
    Executable <- MCExecutable
    Canonical <- MCCanonical
    Resolved <- MCResolved
    NoValues = noValues
    MaxRemembered = 2
    EmbyConfigured = TRUE
    MaxActs = 2
    MaxSubmissions = 6
    MaxFailures = 1
INVARIANTS
    OnlyCurrentShown
    ResultsMatchRoute
    AbandonedAborted
    NoSubscriptionLeaked
PROPERTIES
    DialogCloses
CHECK_DEADLOCK FALSE
