SPECIFICATION Spec
CONSTANTS
    s1 = s1  s2 = s2  other = other  Log = Log
    Suites = {s1, s2}
    Others = {other}
INVARIANTS TypeOK SuccessIsComplete NoSendOnClosedChannel
SYMMETRY SuiteSymmetry
CHECK_DEADLOCK FALSE
