SPECIFICATION Spec
CONSTANTS
    Clients = {c1}
    Names = {"anonymous", "bob"}
    Passwords = {"pw1", "pw2"}
    Hash <- MCHash
    Words <- MCWords
    Files <- MCFiles
    Defaults <- MCDefaults
    MaxUsers = 2
CHECK_DEADLOCK FALSE
INVARIANTS
    ActsAsDocumented
