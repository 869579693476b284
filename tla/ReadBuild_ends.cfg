SPECIFICATION Spec
CONSTANTS
    s1 = s1  s2 = s2  other = other  Log = Log
    Suites = {s1}
    Others = {}
PROPERTIES ReturnsAfterMetadata SubtasksEnd
CHECK_DEADLOCK FALSE
