CONSTANTS
    Procs = {p1, p2}
    Keys = {k1, k2, k3, k4}
    Bytes <- MCBytes
    CompactBytes = 10
SPECIFICATION Spec
INVARIANT ReadersSeeEveryAction
CHECK_DEADLOCK FALSE
