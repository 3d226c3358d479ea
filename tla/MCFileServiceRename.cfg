SPECIFICATION AnySpec
CONSTANTS
    Sessions = {s1, s2}
    Paths = {p1, p2}
    NoFile = NoFile
    Original = Original
    MaxSize = 1
    MaxJobs = 2
PROPERTIES
    RenameReplacesNothing
