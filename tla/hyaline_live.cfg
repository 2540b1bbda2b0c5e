\* Fair threads; two slots, a CAS on one half of the head at a time.  No
\* symmetry, which would not be sound for liveness.
SPECIFICATION FairSpec
CONSTANTS
    Threads = {t1, t2}
    Batches = {b1, b2}
    NULL = NULL
    NumSlots = 2
    Mod = 8
    CmpxchgFull = FALSE
    RetireOutside = FALSE
    TrimThresholds = {0, 1}
INVARIANTS IInv
PROPERTIES EverythingReclaimed
