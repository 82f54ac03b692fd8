SPECIFICATION Spec
CONSTANTS
    footer = footer
    notifications = notifications
    search = search
    Subscribers <- MCSubscribers
    MaxFailures = 3
    MaxSubscribes = 5
INVARIANTS
    OpenMeansServed
    OnlyAliveServed
PROPERTIES
    KeepsPromise
    EveryoneServed
CHECK_DEADLOCK FALSE
