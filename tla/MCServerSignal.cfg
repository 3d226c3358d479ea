SPECIFICATION FairSpec
CONSTANTS
    Clients = {c1}
    MaxConnections = 1
CHECK_DEADLOCK FALSE
PROPERTIES
    StopCompletes
