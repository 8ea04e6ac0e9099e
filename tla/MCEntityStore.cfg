SPECIFICATION FairSpec
CONSTANTS
    w1 = w1
    w2 = w2
    e1 = e1
    engine = engine
    name = name
    status = status
    Workers <- MCWorkers
    Entities <- MCEntities
    Columns <- MCColumns
    Values <- MCValues
    Default = 0
    Subscribers <- MCSubscribers
    Types <- MCTypes
    Interest <- MCInterest
    AppendMayFail = TRUE
    MaxRequests = 3
    CrashAllowed = TRUE
INVARIANTS
    VersionsAreLogged
    DeletedOnce
    UpdatesKeepOtherColumns
    HeardIsStored
PROPERTY
    EventsAreHandled
CHECK_DEADLOCK FALSE
