\* Two threads that read, unlink, retire and empty, two names of objects, two
\* epochs: an object is born, and another one retired, on either side of a tick.
SPECIFICATION Spec
CONSTANTS
    NumThreads = 2
    Objects = {b1, b2}
    NULL = NULL
    Ticks = 1
    Schemes = {"RCU", "QSBR", "2GEIBR", "HE", "Hazard"}
SYMMETRY Symmetry
INVARIANTS TypeOK OutsideReservesNothing IntervalsInOrder IInv
PROPERTY ImplementsSafePointers
