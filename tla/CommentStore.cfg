SPECIFICATION FairSpec
CONSTANTS
    b1 = b1  b2 = b2  None = None  Empty = Empty  Torn = Torn
    Bugs = {b1}
    Private = {1}
    MaxComments = 2
    MaxChanges = 3
    MaxEvents = 2
    MaxFaults = 1
    MaxCrashes = 1
INVARIANTS
    TypeOK
    ReadableUnlessOverlap
    DeletedSaysClosed
    BugInfoFollowsInformer
PROPERTIES
    KeepsComments
    Converges
CHECK_DEADLOCK FALSE
