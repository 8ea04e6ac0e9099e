SPECIFICATION MCSpec
CONSTANTS
    w1 = w1
    w2 = w2
    none = none
    o1 = o1
    o2 = o2
    o3 = o3
    Workers <- TwoWorkers
    NoWorker <- none
    Orders <- ThreeOrders
    Values <- TwoValues
    MaxRequests = 6
    Enabled <- Operations
SYMMETRY SceneSymmetry
INVARIANTS
    TypeOK
    NumbersAreConsecutive
    MilestonesMatchStatus
    TotalMatchesItems
    EventsFollowCommits
PROPERTY
    ImplementsLifecycle
CHECK_DEADLOCK FALSE
