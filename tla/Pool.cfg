CONSTANTS
    t1 = t1
    t2 = t2
    t3 = t3
    c1 = c1
    c2 = c2
    c3 = c3
    Threads = {t1, t2, t3}
    Sizes = {1, 2}
    Conns = {c1, c2, c3}
    MaxVersion = 2
    ResetSession = TRUE
    None = None

SPECIFICATION Spec
SYMMETRY AnyThreadAnyConn
INVARIANTS TypeOK ExclusiveUse Conserved
PROPERTIES CleanHandover
CHECK_DEADLOCK FALSE
