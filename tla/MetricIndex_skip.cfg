SPECIFICATION Spec
CONSTANTS
    j1 = j1  m1 = m1  Duration = Duration  Zero = Zero
    MaxKey = 6
    Entry <- Builds
    MaxBatch = 7
    MaxFaults = 0
    MaxCrashes = 0
INVARIANT
    SkippedIsStored
CHECK_DEADLOCK FALSE
