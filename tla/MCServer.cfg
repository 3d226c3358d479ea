SPECIFICATION FairSpec
CONSTANTS
    Clients = {c1, c2, c3, c4}
    MaxConnections = 2
CHECK_DEADLOCK FALSE
INVARIANTS
    TypeOK
    CountExact
    LimitRespected
PROPERTIES
    StopCompletesOutsideLogger
