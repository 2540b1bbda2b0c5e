\* Two slots, each with its owner; trim that leaves its slot at the first
\* batch it collects.
SPECIFICATION Spec
CONSTANTS
    Threads = {0, 1}
    Batches = {b1, b2}
    NULL = NULL
    NumSlots = 2
    Mod = 4
    MaxEpoch = 1
    TrimThresholds = {1}
SYMMETRY Symmetry
INVARIANTS IInv TouchesOnlyRetired QuietIsClean
PROPERTIES ImplementsSafePointers
