CONSTANTS
    c1 = c1
    c2 = c2
    p1 = p1
    p2 = p2
    Clients = {c1, c2}
    Products = {p1, p2}
    LineLists <- OneOfP1
    InitialStock <- TwoOfP1
    NewStock = {}
    NewStatuses = {}
    MaxOrders = 2
    MaxQty = 1
    MaxRestocks = 1
    MaxInt = 3
    Serial = FALSE
    Ops = {"save"}
    Absent = Absent
    NoView = NoView
SPECIFICATION Spec
INVARIANTS StockAccounted
