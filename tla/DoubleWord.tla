----------------------------- MODULE DoubleWord -----------------------------
(***************************************************************************)
(* The operations of bits/lf.h on a word that holds a reference count and  *)
(* a pointer, as each platform builds them: bits/gcc_x86.h, llvm_x86.h,    *)
(* ppc.h, mips.h and c11.h.  A step is one access to memory.               *)
(*                                                                         *)
(* A word wider than a register is read in halves, and on PowerPC and MIPS *)
(* written in halves too: a load-linked of the half that changes, a load   *)
(* of the other, a store-conditional that fails if anything was stored to  *)
(* the granule that holds both.  Pointers are numbers below Mod.           *)
(***************************************************************************)
EXTENDS Words

CONSTANTS
    Threads,
    WideOn,          \* the platforms checked with a word wider than a register
    NarrowOn,        \* and with one that fits, where all are C11
    LittleEndian,    \* the byte order of the machine
    EndianMacro,     \* does the compiler define __LITTLE_ENDIAN__
    Unread           \* a register that was not loaded yet

PlatformNames == {"gcc_x86", "llvm_x86", "ppc", "mips", "c11_split", "c11_whole"}

ASSUME DoubleWordAssumption ==
    /\ Mod \in Nat \ {0, 1} /\ Unread \notin Word
    /\ WideOn \subseteq PlatformNames /\ NarrowOn \subseteq PlatformNames
    /\ LittleEndian \in BOOLEAN /\ EndianMacro \in BOOLEAN
    \* ppc.h finds the halves by the same macro, which its compilers define.
    /\ EndianMacro # LittleEndian => "ppc" \notin WideOn

VARIABLES
    platform,    \* what the program was built for
    wide,        \* the word is wider than a register
    word,        \* the pair in memory
    reserved,    \* the threads whose store-conditional would succeed
    loc          \* the registers of every thread

vars == <<platform, wide, word, reserved, loc>>

Halves == {"ref", "ptr"}
Other(h) == IF h = "ref" THEN "ptr" ELSE "ref"
Pair == [Halves -> Word]
Nothing == [h \in Halves |-> Unread]

\* An addition is of the count alone: a carry out of it is lost.
Added(pair, arg) == [pair EXCEPT !.ref = AddW(@, arg)]

-----------------------------------------------------------------------------
(* Where each operation starts on each platform. *)

Native == [load |-> "loadWhole", link |-> "loadLink", add |-> "addOnce", cas |-> "cas"]

\* __LFLOAD_SPLIT
LoadSplit == wide /\ platform = "c11_split"

C11Start == IF LoadSplit THEN [Native EXCEPT !.load = "load"] ELSE Native
LlvmStart == IF wide THEN [Native EXCEPT !.load = "load"] ELSE Native
GccStart == IF wide THEN [Native EXCEPT !.load = "load", !.add = "load"] ELSE Native
PpcStart ==
    IF wide THEN [Native EXCEPT !.load = "load", !.add = "loadLinked", !.cas = "loadLinked"]
            ELSE Native
MipsStart ==
    IF wide THEN [Native EXCEPT !.load = "load", !.add = "loadLinked", !.cas = "loadLinked"]
            ELSE Native

Start ==
    CASE platform = "gcc_x86" -> GccStart
      [] platform = "llvm_x86" -> LlvmStart
      [] platform = "ppc" -> PpcStart
      [] platform = "mips" -> MipsStart
      [] OTHER -> C11Start

\* __LFREF_CMPXCHG_FULL: a compare-exchange may change both halves at once.
CmpxchgFull == platform \notin {"ppc", "mips"} \/ ~wide

-----------------------------------------------------------------------------
(* A caller of __lfref_cmpxchgptr changes the pointer, one of               *)
(* __lfref_cmpxchgref the count, unless the platform can change both.      *)

IsCas(c) == c.op \in {"casref", "casptr"}
First(c) == IF c.op = "casptr" THEN "ptr" ELSE "ref"

CasCalls ==
    {c \in [op : {"casref", "casptr"}, weak : BOOLEAN, want : Pair, new : Pair] :
        /\ c.new # c.want
        /\ CmpxchgFull \/ c.new[Other(First(c))] = c.want[Other(First(c))]}

Calls ==
    [op : {"load", "link"}] \union [op : {"add"}, arg : Word \ {0}] \union CasCalls

Idle == [pc |-> "idle", stage |-> "idle", call |-> [op |-> "none"], got |-> Nothing, res |-> 0]

At(t, l) == loc[t].pc = l
Goes(t, l) == loc' = [loc EXCEPT ![t] = l]

Init ==
    /\ wide \in BOOLEAN /\ platform \in IF wide THEN WideOn ELSE NarrowOn
    /\ word = [h \in Halves |-> 0]
    /\ reserved = {}
    /\ loc = [t \in Threads |-> Idle]

Call(t) ==
    /\ At(t, "idle")
    /\ \E c \in Calls :
        Goes(t, [Idle EXCEPT !.stage = "called", !.call = c,
                             !.pc = Start[IF IsCas(c) THEN "cas" ELSE c.op]])
    /\ UNCHANGED <<platform, wide, word, reserved>>

Return(t) ==
    /\ At(t, "return")
    /\ Goes(t, Idle)
    /\ UNCHANGED <<platform, wide, word, reserved>>

\* The outcome of an operation that has all it reports.
Answers(t, hit) ==
    /\ Goes(t, [loc[t] EXCEPT !.pc = "return", !.res = 0,
                              !.stage = IF hit THEN "hit" ELSE "miss"])
    /\ UNCHANGED <<platform, wide, word, reserved>>

Answer(t) ==
    /\ At(t, "answer")
    /\ Answers(t, loc[t].stage = "took" \/ ~IsCas(loc[t].call))

-----------------------------------------------------------------------------
(* Loads. *)

\* atomic_load_explicit of the word.
LoadWhole(t) ==
    /\ At(t, "loadWhole")
    /\ Goes(t, [loc[t] EXCEPT !.got = word, !.pc = "answer"])
    /\ UNCHANGED <<platform, wide, word, reserved>>

\* __LFREF_LINK, 0 or 1 by the macro alone: the pointer is the low half, which
\* comes first on a little-endian machine.
LinkHalf == IF EndianMacro = LittleEndian THEN "ptr" ELSE "ref"

\* __lfref_link: one half alone, or the pointer masked out of the whole word.
LoadLink(t) ==
    LET h == IF wide /\ platform # "c11_whole" THEN LinkHalf ELSE "ptr"
    IN  /\ At(t, "loadLink")
        /\ Goes(t, [loc[t] EXCEPT !.got[h] = word[h], !.pc = "answer"])
        /\ UNCHANGED <<platform, wide, word, reserved>>

\* __lfbig_load: a half at a time.  Which is first depends on the byte order,
\* and on the compiler where the source asks for both at once.
LoadHalf(t, h) ==
    /\ At(t, "load") /\ loc[t].got[h] = Unread
    /\ Goes(t, [loc[t] EXCEPT
                  !.got[h] = word[h],
                  !.pc = IF loc[t].got[Other(h)] = Unread THEN "load"
                         ELSE IF loc[t].call.op = "add" THEN "addCas" ELSE "answer"])
    /\ UNCHANGED <<platform, wide, word, reserved>>

-----------------------------------------------------------------------------
(* Compare-exchange and addition of the whole word. *)

\* Mutant of Unreserves: a reservation is of the half that was linked.
UnreservesHalf(h) == reserved' = {t \in reserved : First(loc[t].call) # h}

\* Other processors lose their reservations when the granule is written.
Unreserves(h) == reserved' = {}

\* lock cmpxchg16b, or the compiler's compare-exchange.
CasHits(t) ==
    /\ At(t, "cas") /\ word = loc[t].call.want
    /\ word' = loc[t].call.new
    /\ Goes(t, [loc[t] EXCEPT !.stage = "took", !.got = word, !.pc = "answer"])
    /\ UNCHANGED <<platform, wide, reserved>>

CasMisses(t) ==
    /\ At(t, "cas")
    /\ word # loc[t].call.want \/ (loc[t].call.weak /\ ~(platform = "gcc_x86" /\ wide))
    /\ Goes(t, [loc[t] EXCEPT !.got = word, !.pc = "answer"])
    /\ UNCHANGED <<platform, wide, word, reserved>>

\* The compiler's fetch-and-add.
AddOnce(t) ==
    /\ At(t, "addOnce")
    /\ word' = Added(word, loc[t].call.arg)
    /\ Goes(t, [loc[t] EXCEPT !.stage = "took", !.got = word, !.pc = "answer"])
    /\ UNCHANGED <<platform, wide, reserved>>

\* __lfbig_fetch_add of x86: a compare-exchange until it succeeds.
AddCas(t) ==
    /\ At(t, "addCas")
    /\ IF word = loc[t].got
       THEN /\ word' = Added(word, loc[t].call.arg)
            /\ Goes(t, [loc[t] EXCEPT !.stage = "took", !.pc = "answer"])
       ELSE /\ Goes(t, [loc[t] EXCEPT !.got = word])
            /\ UNCHANGED word
    /\ UNCHANGED <<platform, wide, reserved>>

-----------------------------------------------------------------------------
(* Load-linked and store-conditional.  What a comparison leaves in a       *)
(* register, and what is made of it, is each platform's own.               *)

LoadLinked(t) ==
    /\ At(t, "loadLinked")
    /\ Goes(t, [loc[t] EXCEPT !.got[First(loc[t].call)] = word[First(loc[t].call)],
                              !.pc = "loadOther"])
    /\ reserved' = reserved \union {t}
    /\ UNCHANGED <<platform, wide, word>>

\* Whether both halves are the expected ones, once the second is loaded.
Matches(c, pair) == c.op = "add" \/ pair = c.want

\* or. of the differences: condition register EQ.
PpcCompared(c, pair) == IF Matches(c, pair) THEN 1 ELSE 0

\* The result register: the delay slot of the second branch moves the new value
\* into it, whether or not that branch is taken.
MipsCompared(c, pair, res) ==
    IF c.op # "add" /\ pair[First(c)] = c.want[First(c)] THEN c.new[First(c)] ELSE res

LoadOther(t) ==
    LET c == loc[t].call
        pair == [loc[t].got EXCEPT ![Other(First(c))] = word[Other(First(c))]]
    IN  /\ At(t, "loadOther")
        /\ Goes(t, [loc[t] EXCEPT
                      !.got = pair,
                      !.res = IF platform = "ppc" THEN PpcCompared(c, pair)
                                                  ELSE MipsCompared(c, pair, @),
                      !.pc = IF Matches(c, pair) THEN "store" ELSE "test"])
        /\ UNCHANGED <<platform, wide, word, reserved>>

\* Only the half that was linked is stored.
NewHalf(t) ==
    IF loc[t].call.op = "add" THEN AddW(loc[t].got.ref, loc[t].call.arg)
                              ELSE loc[t].call.new[First(loc[t].call)]

StoreConditional(t) ==
    /\ At(t, "store") /\ t \in reserved
    /\ word' = [word EXCEPT ![First(loc[t].call)] = NewHalf(t)]
    /\ Unreserves(First(loc[t].call))
    /\ Goes(t, [loc[t] EXCEPT !.stage = "took", !.res = 1, !.pc = "test"])
    /\ UNCHANGED <<platform, wide>>

\* Mutant of StoreFails: the result register keeps what the comparison left.
StoreFailsUnnoticed(t) ==
    LET again == loc[t].call.op = "add" \/ ~loc[t].call.weak
    IN  /\ At(t, "store")
        /\ Goes(t, [loc[t] EXCEPT !.pc = IF again THEN "loadLinked" ELSE "test"])
        /\ reserved' = reserved \ {t}
        /\ UNCHANGED <<platform, wide, word>>

\* A store-conditional may also fail for no reason the program can see.
\* The strong forms and the addition start again.
StoreFails(t) ==
    LET again == loc[t].call.op = "add" \/ ~loc[t].call.weak
    IN  /\ At(t, "store")
        /\ Goes(t, [loc[t] EXCEPT !.res = 0, !.pc = IF again THEN "loadLinked" ELSE "test"])
        /\ reserved' = reserved \ {t}
        /\ UNCHANGED <<platform, wide, word>>

PpcSuccess(l) == l.res = 1

MipsSuccess(l) ==
    IF IsCas(l.call) /\ l.call.weak
    THEN l.res # 0 /\ l.got[Other(First(l.call))] = l.call.want[Other(First(l.call))]
    ELSE Matches(l.call, l.got)

Success(l) == IF platform = "ppc" THEN PpcSuccess(l) ELSE MipsSuccess(l)

\* A strong compare-exchange reports what it compared, a weak one that failed
\* loads the word again.
Test(t) ==
    /\ At(t, "test")
    /\ IF Success(loc[t]) \/ ~loc[t].call.weak
       THEN Answers(t, Success(loc[t]))
       ELSE /\ Goes(t, [loc[t] EXCEPT !.res = 0, !.got = Nothing, !.pc = "load"])
            /\ UNCHANGED <<platform, wide, word, reserved>>

-----------------------------------------------------------------------------
Step(t) ==
    \/ Call(t) \/ Return(t) \/ Answer(t)
    \/ LoadWhole(t) \/ LoadLink(t) \/ (\E h \in Halves : LoadHalf(t, h))
    \/ CasHits(t) \/ CasMisses(t) \/ AddOnce(t) \/ AddCas(t)
    \/ LoadLinked(t) \/ LoadOther(t) \/ StoreConditional(t) \/ StoreFails(t)
    \/ Test(t)

Next == \E t \in Threads : Step(t)

Spec == Init /\ [][Next]_vars

-----------------------------------------------------------------------------
Labels ==
    {"idle", "loadWhole", "loadLink", "load", "cas", "addOnce", "addCas", "loadLinked",
     "loadOther", "store", "test", "answer", "return"}

Stages == {"idle", "called", "took", "hit", "miss"}

Registers ==
    [pc : Labels, stage : Stages, call : Calls \union {Idle.call},
     got : [Halves -> Word \union {Unread}], res : Word]

TypeOK ==
    /\ wide \in BOOLEAN /\ platform \in IF wide THEN WideOn ELSE NarrowOn
    /\ word \in Pair
    /\ reserved \subseteq Threads
    /\ loc \in [Threads -> Registers]

\* __lfref_link, which trim takes a batch's address from, reports the pointer's
\* half of the word and never the count (lf.h: "Pointer index").
LinkReportsPointer ==
    \A t \in Threads :
        loc[t].call.op = "link" /\ loc[t].stage = "hit" => loc[t].got.ptr # Unread

Whole == INSTANCE AtomicPair WITH
    tears <- wide /\ platform # "c11_whole",
    stage <- [t \in Threads |-> loc[t].stage],
    call <- [t \in Threads |-> loc[t].call],
    got <- [t \in Threads |-> loc[t].got]

\* Whatever the platform, a compare-exchange that succeeds and a fetch-and-add
\* replace the pair in one instant and report the pair they replaced, and a
\* strong compare-exchange fails only if it saw a half that differs, although
\* the halves are read one after the other and one of them is written alone.
ImplementsAtomicPair == Whole!Spec

-----------------------------------------------------------------------------
(* The inductive invariant behind these properties.                        *)

\* Which operation can be where, on which platform.
ControlOK(t) ==
    LET l  == loc[t]
        op == l.call.op
    IN  /\ l.pc = "idle" => l = Idle
        /\ l.pc = "idle" <=> op = "none"
        /\ l.pc = "idle" <=> l.stage = "idle"
        /\ l.pc = "return" <=> l.stage \in {"hit", "miss"}
        /\ l.stage = "took" => l.pc \in {"answer", "test"} /\ op # "link"
        /\ l.pc = "loadWhole" => op = "load"
        /\ l.pc = "loadLink" => op = "link"
        /\ l.pc = "load" =>
             /\ wide /\ platform # "c11_whole"
             /\ \/ op = "load"
                \/ op = "add" /\ CmpxchgFull
                \/ IsCas(l.call) /\ l.call.weak
        /\ l.pc \in {"addOnce", "addCas"} => op = "add" /\ CmpxchgFull
        /\ l.pc = "cas" => IsCas(l.call) /\ CmpxchgFull
        /\ l.pc \in {"loadLinked", "loadOther", "store", "test"} =>
             (op = "add" \/ IsCas(l.call)) /\ ~CmpxchgFull

\* A compare-exchange that fails has seen both halves, and a strong one has
\* seen that they are not the expected ones.
MayFail(l) == IsCas(l.call) /\ l.got \in Pair /\ (l.call.weak \/ l.got # l.call.want)

\* What the registers of an operation that has not taken effect know.
RegistersOK(t) ==
    LET l == loc[t]
        h == First(l.call)
    IN  /\ l.pc = "addCas" => l.got \in Pair
        /\ l.pc \in {"loadLinked", "loadOther"} /\ IsCas(l.call) /\ l.call.weak => l.res = 0
        /\ l.pc = "loadOther" =>
             l.got[h] \in Word /\ (t \in reserved => l.got[h] = word[h])
        /\ l.pc = "store" =>
             /\ l.got \in Pair /\ Matches(l.call, l.got)
             /\ t \in reserved => l.got = word
        /\ l.pc = "test" =>
             IF l.stage = "took" THEN Success(l) ELSE ~Success(l) /\ MayFail(l)
        /\ l.pc = "answer" /\ l.stage = "called" =>
             \/ l.call.op = "load" /\ l.got \in Pair
             \/ l.call.op = "link" /\ (LinkHalf = "ptr" => l.got.ptr # Unread)
             \/ MayFail(l)
        /\ l.stage = "hit" /\ l.call.op = "link" /\ LinkHalf = "ptr" => l.got.ptr # Unread

IInv ==
    /\ TypeOK
    /\ reserved # {} => ~CmpxchgFull
    /\ \A t \in Threads : ControlOK(t) /\ RegistersOK(t)
=============================================================================
