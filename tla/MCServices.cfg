SPECIFICATION ServicesSpec
CONSTANTS
    w1 = w1
    w2 = w2
    Workers <- MCWorkers
    MaxRequests = 3
    LiveRequests = 2
    Employee <- MCEmployee
    Slots = {1, 2}
    PayMonths = {5}
    StopCount = 2
    SKUs = {1, 2}
    NoSKU = NoSKU
    PriceRules <- MCPriceRules
    Prices = {1, 99, 100, 1001}
    vip = vip
    retail = retail
    Tags <- MCTags
    Statement7Days <- MCStatement
    Payers = {1}
    Definitions <- MCDefinitions
    Loaded <- MCLoaded
    EventTypes = {"created", "confirmed", "cancelled"}
    Accounts = {"a", "b"}
    Users = {"a", "b"}
    Keys = {1, 2}
    Services = {"hr", "logistics", "catalog", "crm", "banking", "process",
                "sessions", "messenger", "idempotency", "views"}
SYMMETRY MCSymmetry
INVARIANTS
    WorkIsDecidedOnce
    StopsAreVisitedInOrder
    
    PricesAreSound
    BookingsAreReported
    HistoryIsAPath
    LogoutIsFinal
    
    RetriesAreAbsorbed
    ViewsCatchUp
PROPERTIES
    TagsAreKept
CHECK_DEADLOCK FALSE
