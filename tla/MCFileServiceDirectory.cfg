SPECIFICATION DirectorySpec
CONSTANTS
    Sessions = {s1, s2}
    Paths = {p1, p2}
    NoFile = NoFile
    Original = Original
    MaxSize = 2
    MaxJobs = 2
SYMMETRY Symmetry
INVARIANTS
    DownloadExact
