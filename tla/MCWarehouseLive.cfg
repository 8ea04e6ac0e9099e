SPECIFICATION FairSpec
CONSTANTS
    w1 = w1
    w2 = w2
    none = none
    p1 = p1
    main = main
    kitchen = kitchen
    Workers <- MCWorkers
    NoWorker <- none
    Products <- MCProducts
    Warehouses <- MCWarehouses
    Amounts <- MCOneAmount
    MinQuantity <- MCMinQuantity
    Enabled <- AllOperations
    OpeningStock = 1
    MaxRequests = 2
    ReadMayFail = TRUE
    CrashAllowed = TRUE
PROPERTIES
    EveryRequestEnds
    LowStockIsAlerted
CHECK_DEADLOCK FALSE
