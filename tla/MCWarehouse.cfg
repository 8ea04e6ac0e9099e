SPECIFICATION Spec
CONSTANTS
    w1 = w1
    w2 = w2
    none = none
    p1 = p1
    main = main
    kitchen = kitchen
    Workers <- MCWorkers
    NoWorker <- none
    Products <- MCProducts
    Warehouses <- MCWarehouses
    Amounts <- MCOneAmount
    MinQuantity <- MCMinQuantity
    Enabled <- AllOperations
    OpeningStock = 1
    MaxRequests = 3
    ReadMayFail = TRUE
    CrashAllowed = TRUE
SYMMETRY MCSymmetry
INVARIANTS
    TypeOK
    NonNegativeStock
    LedgerExplainsStock
    ReservedWithinQuantity
PROPERTIES
    ImplementsStockBook
CHECK_DEADLOCK FALSE
