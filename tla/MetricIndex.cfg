SPECIFICATION FairSpec
CONSTANTS
    j1 = j1  m1 = m1  Duration = Duration  Zero = Zero
    MaxKey = 6
    Entry <- Builds
    MaxBatch = 7
    MaxFaults = 2
    MaxCrashes = 1
INVARIANTS
    TypeOK
    RecordedIsStored
PROPERTIES
    EventuallyRecorded
CHECK_DEADLOCK FALSE
