SPECIFICATION Spec
CONSTANTS
    NumSlots = 4
    Engines = {e1}
    IpcIds = {Fp}
    e1 = e1
    Fp = Fp
    MaxArrivals = 4
    MaxStages = 1
    TimeoutsEnabled = TRUE
    WipeMayFail = FALSE
    Fickle = FALSE
INVARIANTS
    NeverUnreachable
CHECK_DEADLOCK FALSE
