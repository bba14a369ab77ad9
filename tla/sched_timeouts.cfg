SPECIFICATION Spec
CONSTANTS
    NumSlots = 3
    Engines = {e1, e2}
    IpcIds = {Fp}
    e1 = e1
    e2 = e2
    Fp = Fp
    MaxArrivals = 3
    MaxStages = 2
    TimeoutsEnabled = TRUE
    WipeMayFail = TRUE
    Fickle = TRUE
SYMMETRY EngineSymmetry
INVARIANTS
    UnitAccounting
    CompletionReachesOwner
PROPERTIES
    WipedBeforeReuse
    DrainWhenEmpty
CHECK_DEADLOCK FALSE
