SPECIFICATION AnySpec
CONSTANTS
    MaxTransfers = 2
    MaxChunks = 1
    Files = {f1}
    Ops = {"RETR", "STOR", "LIST", "NLST"}
CHECK_DEADLOCK FALSE
INVARIANTS
    NoUseAfterFree
