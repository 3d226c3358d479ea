SPECIFICATION FairSpec
CONSTANTS
    MaxTransfers = 2
    MaxChunks = 1
    Files = {f1, f2}
    Ops = {"RETR", "STOR", "LIST", "NLST"}
CHECK_DEADLOCK FALSE
INVARIANTS
    TypeOK
    OneTransferAtATime
    FreedAfterLast
    LocksHaveOwner
    ParamsHaveOwner
    OwnConnection
PROPERTIES
    PoliteDestroyCompletes
    AborEnds
