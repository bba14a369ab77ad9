SPECIFICATION Spec
CONSTANTS
    NT = 2
    NS = 2
    NB = 3
    FixedSizes = {1}
    VarSizes = {2}
    Apps = {a1}
    Ids = {0}
    Blobs = {b1}
    NoBlob = NoBlob
    MaxUse = 1
    a1 = a1
    b1 = b1
INVARIANTS
    FreeIsZero
    ScanAgrees
    OutsideClean
PROPERTIES
    Refines
CHECK_DEADLOCK FALSE
