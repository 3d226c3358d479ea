SPECIFICATION FairSpec
CONSTANTS
    Callers = {c1, c2, c3, c4}
    Paths = {p1, p2}
    NoEntry = NoEntry
INVARIANTS
    TypeOK
    Exclusion
    CountersExact
    NoEntryLeak
    OnlyWokenReadersDangle
PROPERTIES
    WriterPriority
    WriterProgress
    ImplementsRWLock
CHECK_DEADLOCK FALSE
