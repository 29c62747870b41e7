SPECIFICATION SpecConvert
CONSTANTS
    Lanes = 2
    PerLane = 4
    Groups = 2
    Orders <- MCOrders
    FineChans = 2
INVARIANT ReadsGiveTheTriangle
INVARIANT OrdersAgree
INVARIANT MatrixIsHermitian
