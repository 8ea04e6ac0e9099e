SPECIFICATION FairSpec
CONSTANTS
    w1 = w1
    w2 = w2
    none = none
    s1 = s1
    Workers <- MCWorkers
    NoWorker <- none
    NumProducts = 2
    Sessions <- MCOneSession
    Quantities <- MCTwoQuantities
    Moves <- MCMoves
    OpeningStock = 1
    MaxRequests = 6
INVARIANTS
    LedgerExplainsCounts
    OneApplicationPerSession
PROPERTIES
    ApplySetsWhatWasCounted
    EveryRequestEnds
CHECK_DEADLOCK FALSE
