\* Two functions, two resources, two commands; initialisation may fail.
CONSTANTS
    Functions = {f1, f2}
    NR = 2
    NoOne = NoOne
    Torn = FALSE
    Cmds = {c1, c2}
    MaxTenancy = 2
    Liberties = {}
    Faults = {"slot", "fail", "silent"}
SPECIFICATION LiveSpec
INVARIANTS MasksApart TablesClean IdentityCurrent CoresAgree
PROPERTIES Answered
CHECK_DEADLOCK FALSE
