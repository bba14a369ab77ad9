SPECIFICATION MCSpec
CONSTANTS
    NF = 2
    MaxEvents = 5
    c1 = c1
    c2 = c2
    Cmds = {c1}
    Users <- AdminUsers
    NoOne = NoOne
    Errs = {}
    Garbled = {}
    EnableFails = FALSE
    Kinds = {"Restore"}
    MaxQueues = 1
    Resets = {}
INVARIANT NeverDeadlocked
