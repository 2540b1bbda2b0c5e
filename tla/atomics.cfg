\* Two threads, halves of one bit: every pair comes back soon, so that a pair
\* that is compared twice may have changed in between.
SPECIFICATION Spec
CONSTANTS
    Threads = {t1, t2}
    Mod = 2
    Unread = Unread
    LittleEndian = TRUE
    EndianMacro = TRUE
    WideOn = {"gcc_x86", "llvm_x86", "ppc", "mips", "c11_split"}
    NarrowOn = {"ppc"}
SYMMETRY Symmetry
INVARIANT IInv
PROPERTY ImplementsAtomicPair
