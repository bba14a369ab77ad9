\* Three functions share four resources; a warm boot may find a table that
\* is half written.
CONSTANTS
    Functions = {f1, f2, f3}
    NR = 4
    NoOne = NoOne
    Torn = TRUE
SPECIFICATION TableSpec
INVARIANTS NeverOverdrawn CountsExact
