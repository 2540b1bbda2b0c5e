\* Two slots, two batches, a CAS that changes a half of a head at a time, a trim
\* that leaves at the first batch it collects.  A thread that enters goes round
\* a slot with anything to acknowledge.
SPECIFICATION Spec
CONSTANTS
    Threads = {t1, t2}
    Batches = {b1, b2}
    NULL = NULL
    NumSlots = 2
    Mod = 8
    CmpxchgFull = FALSE
    MaxEpoch = 1
    StallThreshold = 1
    TrimThresholds = {1}
SYMMETRY Symmetry
INVARIANTS OwnInv TouchesOnlyRetired AcksBalance NodesSuffice QuietIsClean
PROPERTIES ImplementsSafePointers
