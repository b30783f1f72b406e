CONSTANTS
    c1 = c1
    c2 = c2
    NoText = NoText
    Clients = {c1, c2}
    Names = {1, 2}
    Emails = {1, 2}
    Forms <- SomeForms
    Files <- SomeFiles
    MaxItems = 3
    Ops = {"create_product", "create_customer", "import_json", "browse", "order"}
    Empty = NoText
    Absent = Absent
    NoView = NoView

SPECIFICATION FairSpec
INVARIANTS TypeOK ProductsCategorised ReportsAreTrue
PROPERTIES ValidItemsSaved EveryCallReturns
CHECK_DEADLOCK FALSE
