SPECIFICATION Spec
CONSTANTS
    t1 = t1
    t2 = t2
    Tags = {t1, t2}
    NoTag = NoTag
    Ids = {0, 1}
    Entries = {1, 2}
    Nonces = {0, 1, 2, 3}
    Insts = {1, 2, 3, 4, 5}
    MaxAttempts = 1
    MaxDelay = 2
    Minute = 1
    MaxTime = 1
    Orderly = TRUE
SYMMETRY TagSymmetry
INVARIANTS TableVaultAgree KeysOfOwnSession IdsAccounted NonceOnce GuessesBounded
CHECK_DEADLOCK FALSE
