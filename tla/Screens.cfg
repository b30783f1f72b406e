CONSTANTS
    c1 = c1
    c2 = c2
    o1 = o1
    o2 = o2
    Clients = {c1, c2}
    MaxProduct = 2
    NameOf <- OneName
    InitialStock <- OneProduct
    NewStock = {1}
    OrderIds = {o1, o2}
    NewStatuses = {}
    MaxInt = 1
    MaxQty = 1
    MaxCommits = 2
    MaxFailures = 1
    Handlers = {"create_order", "create_product", "add_product_stock", "delete_product", "update_order_status", "delete_order"}
    Buttons = {"report"}
    Absent = Absent
    NoView = NoView
    Nothing = Nothing

SPECIFICATION Spec
SYMMETRY AnyNames
INVARIANTS TypeOK ScreensAgree OwnWorkShown
PROPERTIES NeverShowsOlder
