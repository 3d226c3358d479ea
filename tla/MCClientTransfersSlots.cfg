SPECIFICATION FairSpec
CONSTANTS
    MaxJobs = 2
    Size = 1
    Pausable = {1}
    Spoilable = {1}
    MaxConcurrent = 1
CHECK_DEADLOCK FALSE
INVARIANTS
    OneWorkerAtATime
