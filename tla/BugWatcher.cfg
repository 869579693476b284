SPECIFICATION FairSpec
CONSTANTS
    NumBugs = 2
    HiddenSets = {{2}, {1, 2}}
    PageSizes = {1, 2}
    ChanSize = 1
    ZoneOffset = 1
    MaxTime = 3
    MaxChanges = 2
    MaxFaults = 1
INVARIANTS
    TypeOK
    NoGapInWatch
    NoPanicWithoutFailure
PROPERTIES
    StopEnds
    Converges
CHECK_DEADLOCK FALSE
