SPECIFICATION Spec
CONSTANTS
    b1 = b1  b2 = b2  w1 = w1  w2 = w2  s1 = s1  s2 = s2
    NoBuild = NoBuild
    Workers = {w1}
    Suites = {s1}
    Builds <- QueueBuilds
    Job <- BothJobs
    MaxAge = 1
    MaxRequeues = 0
    BootTime = 3
    MaxTime = 4
    MaxCrashes = 1
    MaxHangs = 0
INVARIANTS
    TypeOK
    CleanBuildsAreComplete
    PartialLogOnlyWhileDownloading
    DuplicatesOnlyFromOverlap
CONSTRAINT OneInPlay
CHECK_DEADLOCK FALSE
