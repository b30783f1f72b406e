CONSTANTS
    c1 = c1
    c2 = c2
    p1 = p1
    p2 = p2
    Clients = {c1, c2}
    Products = {p1, p2}
    LineLists <- Baskets
    InitialStock <- TwoOfP1
    NewStock = {1}
    NewStatuses = {"PAID", "CANCELLED"}
    MaxOrders = 2
    MaxQty = 1
    MaxRestocks = 1
    MaxInt = 2
    Serial = TRUE
    Ops = {"save", "status", "delete", "new", "add", "remove", "browse"}
    Absent = Absent
    NoView = NoView

SPECIFICATION Spec
SYMMETRY AnyClient
INVARIANTS TypeOK StockAccounted
PROPERTIES MethodsAreAtomic
