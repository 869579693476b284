SPECIFICATION FairSpec
CONSTANTS
    b1 = b1  b2 = b2  w1 = w1  w2 = w2  s1 = s1  s2 = s2
    NoBuild = NoBuild
    Workers = {w1, w2}
    Suites = {}
    Builds <- QueueBuilds
    Job <- QueueJob
    MaxAge = 1
    MaxRequeues = 0
    BootTime = 3
    MaxTime = 4
    MaxCrashes = 0
    MaxHangs = 1
INVARIANTS
    OneWorkerPerBuild
    FailedIsRetried
PROPERTIES
    NotifiedIsServed
CHECK_DEADLOCK FALSE
