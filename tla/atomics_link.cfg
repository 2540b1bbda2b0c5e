\* GCC on x86, which is little-endian and does not define __LITTLE_ENDIAN__.
SPECIFICATION Spec
CONSTANTS
    Threads = {t1, t2}
    Mod = 2
    Unread = Unread
    LittleEndian = TRUE
    EndianMacro = FALSE
    WideOn = {"gcc_x86"}
    NarrowOn = {}
SYMMETRY Symmetry
INVARIANT LinkReportsPointer
