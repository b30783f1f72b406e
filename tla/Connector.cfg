CONSTANTS
    a = a
    b = b
    Cursors = {a, b}
    MaxCommands = 5
    MaxRows = 2
    Timeouts = TRUE
    None = None
SPECIFICATION Spec
SYMMETRY AnyCursor
INVARIANTS TypeOK InStep StartPublishesNothing
PROPERTIES FetchesAllRows
CHECK_DEADLOCK FALSE
