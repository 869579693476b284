SPECIFICATION FairSpec
CONSTANTS
    i1 = i1  i2 = i2  i3 = i3  w1 = w1
    Issues = {i1, i2, i3}
    UnparsableSets = {{}, {i3}}
    Workers = {w1}
    MaxBatch = 2
    MaxChanges = 3
    MaxFaults = 2
    MaxCrashes = 1
INVARIANTS
    TypeOK
    EnqueuedIsWritten
PROPERTIES
    EventuallyWritten
CHECK_DEADLOCK FALSE
