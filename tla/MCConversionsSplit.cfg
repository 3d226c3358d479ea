SPECIFICATION Spec
CONSTANTS
    Buffer = 3
    MaxPath = 12
    MaxComponents = 3
    Control = {"^"}
    LineSize = 13
    ParseSize = 10
    NameSize = 3
    ArgSize = 4
    TelnetCommands = {"IP", "DM", "DO"}
    Upper <- MCUpper
    Byte = 4
    MaxFile = 3
    MaxStream = 6
    MaxName = 4
CHECK_DEADLOCK FALSE
INVARIANTS
    CrlfNeverStored
