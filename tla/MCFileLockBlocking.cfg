SPECIFICATION Spec
CONSTANTS
    Callers = {c1, c2}
    Paths = {p1}
    NoEntry = NoEntry
CHECK_DEADLOCK FALSE
INVARIANTS
    NobodyDangles
