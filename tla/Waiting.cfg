CONSTANTS
    c1 = c1
    c2 = c2
    p1 = p1
    p2 = p2
    Clients = {c1, c2}
    Products = {p1, p2}
    LineLists <- Crossing
    InitialStock <- OneOfEach
    NewStock = {}
    NewStatuses = {"CANCELLED"}
    MaxOrders = 2
    MaxQty = 1
    MaxRestocks = 1
    MaxInt = 2
    Serial = FALSE
    Ops = {"save", "status"}
    Absent = Absent
    NoView = NoView
SPECIFICATION FairSpec
INVARIANTS StockInRange IdleHoldsNoLocks
PROPERTIES EveryCallReturns
