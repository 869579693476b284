SPECIFICATION InformerSpec
CONSTANTS
    b1 = b1  b2 = b2  Nil = Nil
    Builds = {b1, b2}
    MaxAge = 1
    MaxTime = 5
INVARIANTS InformerTypeOK OneCopyPerBuild
PROPERTIES NeverRegresses ImplementsKnownJobs
