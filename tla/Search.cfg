SPECIFICATION Spec
CONSTANTS
    Files <- SearchFiles
    Disks <- SearchDisks
    Requests <- SearchRequests
    Enabled = {"bug"}
    PathLength = 2
    Settings <- SearchSettings
    DefaultMaxAge = 2
    DefaultMaxBytes = 20
    MaxMatchesLimit = 5
    MaxBytesLimit = 100
    MaxContext = 1
    SizeLimit = 3
    LastChange = 2
    MaxTime = 4
    MaxChanges = 1
INVARIANTS
    TypeOK
    EverythingIsFound
    OutputIsBounded
    GroupsAreRight
    RowsAreRight
    PanicOnlyIfUnreadable
CHECK_DEADLOCK FALSE
