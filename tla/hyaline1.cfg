\* Two slots, each with its owner. Three batches, so that a trim with threshold 1
\* leaves its slot in the middle of a walk and has more to walk afterwards.
SPECIFICATION Spec
CONSTANTS
    NumThreads = 2
    Batches = {b1, b2, b3}
    NULL = NULL
    Mod = 4
    TrimThresholds = {1}
SYMMETRY Symmetry
INVARIANTS TypeOK IInv TouchesOnlyRetired FreesAreSafe QuietIsClean
PROPERTIES ImplementsSafeReclaim
