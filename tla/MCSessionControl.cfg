SPECIFICATION Spec
CONSTANTS
    Users <- MCUsers
    NoUser = "nobody"
    NoPath = NoPath
    HomeOf <- MCHomeOf
    PermsOf <- MCPermsOf
    Dirs <- MCDirs
    Args <- MCArgs
    MaxOffset = 1
INVARIANTS
    TypeOK
    RightsOfLogin
    ActsWithinRights
    OnlyRefusalsLeavePending
