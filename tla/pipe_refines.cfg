SPECIFICATION Spec
CONSTANTS
    N = 4
    Msgs = {m1, m2, m3}
    NoMsg = NoMsg
    m1 = m1
    m2 = m2
    m3 = m3
SYMMETRY Symmetry
INVARIANTS
    NoRace
PROPERTIES
    Refines
CHECK_DEADLOCK FALSE
