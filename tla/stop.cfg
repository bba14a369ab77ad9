SPECIFICATION LiveSpec
CONSTANTS
    NF = 3
    Other = other
    Users <- StopUsers
    NoOne = NoOne
    Errs = {}
    Garbled = {"Fp"}
    Slow = TRUE
    HspFull = TRUE
INVARIANTS StoppedWhenTold
PROPERTIES NoPanic StopAnsweredAtLast
CHECK_DEADLOCK FALSE
