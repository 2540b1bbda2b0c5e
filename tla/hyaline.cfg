\* Two slots, a CAS that exchanges both halves of a head, w = 3 bits, so that
\* Addend = 4.  Three batches: trim with threshold 1 leaves in the middle of a
\* walk and has more to walk afterwards.
SPECIFICATION Spec
CONSTANTS
    Threads = {t1, t2}
    Batches = {b1, b2, b3}
    NULL = NULL
    NumSlots = 2
    Mod = 8
    CmpxchgFull = TRUE
    RetireOutside = FALSE
    TrimThresholds = {1}
SYMMETRY Symmetry
INVARIANTS TypeOK TouchesOnlyRetired RefsAccountedFor SlotsAgree AllPaid QuietIsClean
