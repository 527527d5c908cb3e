SPECIFICATION Spec
CONSTANTS
    Conn = {c1, c2, c3, c4}
    Thread = {t1, t2, t3}
    Null = Null
    maxSize = 3
INVARIANTS
    NoSharedConnection
    ConnectionsCounted
    RefusalNeedsOutage
CHECK_DEADLOCK FALSE
