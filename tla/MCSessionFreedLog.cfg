SPECIFICATION Spec
CONSTANTS
    MaxTransfers = 2
    MaxChunks = 1
    Files = {f1}
    Ops = {"RETR"}
CHECK_DEADLOCK FALSE
INVARIANTS
    NoUseAfterFree
