\* As hyaline.cfg, with batches also retired by threads that are not inside.
SPECIFICATION Spec
CONSTANTS
    Threads = {t1, t2}
    Batches = {b1, b2}
    NULL = NULL
    NumSlots = 2
    Mod = 8
    CmpxchgFull = TRUE
    RetireOutside = TRUE
    TrimThresholds = {}
SYMMETRY Symmetry
INVARIANTS TouchesOnlyRetired
