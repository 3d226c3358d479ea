SPECIFICATION FairSpec
CONSTANTS
    MaxTransfers = 1
    MaxChunks = 1
    Files = {f1}
    Ops = {"STOR"}
CHECK_DEADLOCK FALSE
PROPERTIES
    DestroyCompletes
