CONSTANTS
    cursor = cursor
    Cursors = {cursor}
    MaxCommands = 36
    MaxRows = 2
    Timeouts = FALSE
    Methods = {"order", "category", "product", "customer", "screen"}
    None = None

SPECIFICATION FairAppSpec
INVARIANTS AppNeverRefused KeepsConnection NoWritesLeft
PROPERTIES MethodsReturn
CHECK_DEADLOCK FALSE
