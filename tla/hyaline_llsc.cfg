\* One slot shared by three threads, a CAS on one half of the head at a time,
\* batches retired inside and outside.
SPECIFICATION Spec
CONSTANTS
    Threads = {t1, t2, t3}
    Batches = {b1, b2}
    NULL = NULL
    NumSlots = 1
    Mod = 4
    CmpxchgFull = FALSE
    RetireOutside = TRUE
    TrimThresholds = {}
SYMMETRY Symmetry
INVARIANTS SlotsAgree FreesAreSafe QuietIsClean
PROPERTIES ImplementsSafeReclaim
