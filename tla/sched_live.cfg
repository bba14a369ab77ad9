SPECIFICATION LiveSpec
CONSTANTS
    NumSlots = 5
    Engines = {e1}
    IpcIds = {Fp}
    e1 = e1
    Fp = Fp
    MaxArrivals = 4
    MaxStages = 1
    TimeoutsEnabled = FALSE
    WipeMayFail = FALSE
    Fickle = FALSE
INVARIANTS
    NoLostWakeup
    WokenFindsUnit
    ResponseReachesOwner
PROPERTIES
    WaiterServed
    DrainFires
CHECK_DEADLOCK FALSE
