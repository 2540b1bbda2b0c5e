\* Thread 0 may stop for ever, thread 1 is fair.
SPECIFICATION FairSpec
CONSTANTS
    Threads = {0, 1}
    Batches = {b1, b2}
    NULL = NULL
    NumSlots = 2
    Mod = 4
    MaxEpoch = 1
    TrimThresholds = {}
PROPERTIES Robust1
