SPECIFICATION MCSpec
CONSTANTS
    w1 = w1
    w2 = w2
    o1 = o1
    o2 = o2
    o3 = o3
    o4 = o4
    bolt = bolt
    nut = nut
    Workers <- TwoWorkers
    Orders <- FourOrders
    Products <- TwoProducts
    ItemsOf <- BoltsAndNuts
    Totals <- TwoTotals
    Available <- TwoBoltsOneNut
    Earlier <- FirstThree
    MaxEvents = 4
SYMMETRY SceneSymmetry
INVARIANT
    CancelledOrdersHoldNothing
CHECK_DEADLOCK FALSE
