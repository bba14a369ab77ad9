SPECIFICATION MCLiveSpec
CONSTANTS
    NF = 2
    MaxEvents = 5
    c1 = c1
    c2 = c2
    Cmds = {c1}
    Users <- AdminUsers
    NoOne = NoOne
    Errs = {"Fp", "Hsm"}
    Garbled = {"Fp"}
    EnableFails = TRUE
    Kinds = {"OneHsm", "Vf", "Restore"}
    MaxQueues = 1
    Resets = {"clear", "nssr", "vflr"}
INVARIANTS NoCircularWait CoresAgree DrainedBeforeDisabled
PROPERTIES Follows Served
CHECK_DEADLOCK FALSE
