--------------------------- MODULE DoubleWordProofs --------------------------
(***************************************************************************)
(* The operations of bits/lf.h on a count and a pointer take effect in one *)
(* instant, on every platform, for every number of threads and every width *)
(* of the halves: the invariant IInv of DoubleWord is inductive, and the   *)
(* operations implement AtomicPair.                                        *)
(***************************************************************************)
EXTENDS DoubleWord, TLAPS

-----------------------------------------------------------------------------
(* The data of an operation.                                               *)

LEMMA Constants ==
    /\ Mod \in Nat \ {0, 1} /\ 0 \in Word /\ 1 \in Word /\ Unread \notin Word
    /\ Halves = {"ref", "ptr"}
BY DoubleWordAssumption DEF Word, Halves

\* An addition of words is a word.
LEMMA AddWType == ASSUME NEW x \in Word, NEW y \in Word PROVE AddW(x, y) \in Word
BY Constants DEF AddW, Word

\* Two pairs are the same if their halves are.
LEMMA PairExt ==
    ASSUME NEW S, NEW p \in [Halves -> S], NEW q \in [Halves -> S]
    PROVE  /\ p.ref \in S /\ p.ptr \in S
           /\ p.ref = q.ref /\ p.ptr = q.ptr => p = q
BY Constants

\* The operations and their arguments.
LEMMA CallFacts ==
    ASSUME NEW c \in Calls \union {Idle.call}
    PROVE  /\ c.op \in {"none", "load", "link", "add", "casref", "casptr"}
           /\ c.op = "none" => c = [op |-> "none"]
           /\ c.op \in {"load", "link"} => c = [op |-> c.op]
           /\ c.op = "add" => c.arg \in Word /\ c = [op |-> "add", arg |-> c.arg]
           /\ IsCas(c) =>
                /\ c.weak \in BOOLEAN /\ c.want \in Pair /\ c.new \in Pair
                /\ c.new # c.want
                /\ CmpxchgFull \/ c.new[Other(First(c))] = c.want[Other(First(c))]
                /\ c = [op |-> c.op, weak |-> c.weak, want |-> c.want, new |-> c.new]
           /\ First(c) \in Halves /\ Other(First(c)) \in Halves
           /\ First(c) # Other(First(c))
           /\ \A h \in Halves : h = First(c) \/ h = Other(First(c))
<1>1. CASE c = Idle.call
  BY <1>1 DEF Idle, IsCas, First, Other, Halves
<1>2. CASE c \in [op : {"load", "link"}]
  BY <1>2 DEF IsCas, First, Other, Halves
<1>3. CASE c \in [op : {"add"}, arg : Word \ {0}]
  BY <1>3 DEF IsCas, First, Other, Halves
<1>4. CASE c \in CasCalls
  BY <1>4 DEF CasCalls, IsCas, First, Other, Halves
<1> QED
  BY <1>1, <1>2, <1>3, <1>4 DEF Calls

\* What holds of the registers of a thread.
LEMMA Ready ==
    ASSUME IInv, NEW t \in Threads
    PROVE  /\ loc[t] \in Registers
           /\ loc[t].pc \in Labels /\ loc[t].stage \in Stages
           /\ loc[t].call \in Calls \union {Idle.call}
           /\ loc[t].got \in [Halves -> Word \union {Unread}]
           /\ loc[t].res \in Word
           /\ word \in Pair /\ reserved \subseteq Threads
           /\ ControlOK(t) /\ RegistersOK(t)
BY DEF IInv, TypeOK, Registers

\* A pair of which both halves were read is a pair of words.
LEMMA BothRead ==
    ASSUME NEW p \in [Halves -> Word \union {Unread}]
    PROVE  p \in Pair <=> p.ref # Unread /\ p.ptr # Unread
BY Constants, PairExt DEF Pair

-----------------------------------------------------------------------------
(* The invariant: one thread moves, the others keep what they know.        *)

\* A step of t leaves the registers of the others, and the word they have
\* linked, as they are.
Apart(t) ==
    /\ UNCHANGED <<platform, wide>>
    /\ \A u \in Threads \ {t} : loc'[u] = loc[u]
    /\ \A u \in reserved' \ {t} : u \in reserved /\ word' = word

LEMMA OthersKeep ==
    ASSUME IInv, NEW t \in Threads, Apart(t), NEW u \in Threads, u # t
    PROVE  ControlOK(u)' /\ RegistersOK(u)'
<1>1. loc'[u] = loc[u] /\ platform' = platform /\ wide' = wide
  BY DEF Apart
<1>2. u \in reserved' => u \in reserved /\ word' = word
  BY DEF Apart
<1>3. CmpxchgFull' = CmpxchgFull /\ \A l : Success(l)' = Success(l) /\ MayFail(l)' = MayFail(l)
  BY <1>1 DEF CmpxchgFull, Success, PpcSuccess, MipsSuccess, Matches, MayFail, IsCas, First,
              Other, Pair, Word, Halves
<1>4. ControlOK(u) /\ RegistersOK(u)
  BY Ready
<1>5. ControlOK(u)'
  BY <1>1, <1>3, <1>4 DEF ControlOK
<1>6. RegistersOK(u)'
  BY <1>1, <1>2, <1>3, <1>4 DEF RegistersOK
<1> QED
  BY <1>5, <1>6

\* A step gives a thread new registers.
LEMMA Moves ==
    ASSUME IInv, NEW t \in Threads, NEW r, Goes(t, r), r \in Registers,
           UNCHANGED <<platform, wide>>
    PROVE  /\ loc' \in [Threads -> Registers'] /\ loc'[t] = r
           /\ \A u \in Threads \ {t} : loc'[u] = loc[u]
<1>1. Registers' = Registers
  BY DEF Registers, Calls, CasCalls, CmpxchgFull
<1> QED
  BY <1>1 DEF IInv, TypeOK, Goes

\* What is left to show of a step of t.
Keeps(t) == TypeOK' /\ Apart(t) /\ ControlOK(t)' /\ RegistersOK(t)' /\ (reserved' # {} => ~CmpxchgFull)

LEMMA KeepsInv ==
    ASSUME IInv, NEW t \in Threads, Keeps(t)
    PROVE  IInv'
<1>1. CmpxchgFull' = CmpxchgFull
  BY DEF Keeps, Apart, CmpxchgFull
<1>2. \A u \in Threads : ControlOK(u)' /\ RegistersOK(u)'
  BY OthersKeep DEF Keeps
<1> QED
  BY <1>1, <1>2 DEF Keeps, IInv

\* A step that only changes registers and takes or gives up a reservation of
\* its own.
LEMMA QuietKeeps ==
    ASSUME IInv, NEW t \in Threads, NEW r \in Registers, Goes(t, r),
           UNCHANGED <<platform, wide, word>>,
           reserved' = reserved \/ (reserved' = reserved \union {t} /\ ~CmpxchgFull)
             \/ reserved' = reserved \ {t},
           ControlOK(t)', RegistersOK(t)'
    PROVE  Keeps(t)
<1>1. /\ loc' \in [Threads -> Registers']
      /\ \A u \in Threads \ {t} : loc'[u] = loc[u]
  BY Moves
<1>2. TypeOK'
  BY <1>1 DEF IInv, TypeOK, Pair, Word, Halves
<1>3. Apart(t)
  BY <1>1 DEF Apart
<1> QED
  BY <1>2, <1>3 DEF Keeps, IInv

-----------------------------------------------------------------------------
(* The steps.                                                              *)

\* A call starts where the platform says.
LEMMA CallKeeps == ASSUME IInv, NEW t \in Threads, Call(t) PROVE Keeps(t)
<1>1. PICK c \in Calls :
        Goes(t, [Idle EXCEPT !.stage = "called", !.call = c,
                             !.pc = Start[IF IsCas(c) THEN "cas" ELSE c.op]])
  BY DEF Call
<1> DEFINE p == Start[IF IsCas(c) THEN "cas" ELSE c.op]
           r == [Idle EXCEPT !.stage = "called", !.call = c, !.pc = p]
<1>2. c.op \in {"load", "link", "add", "casref", "casptr"}
  BY DEF Calls, CasCalls
<1>3. /\ p \in {"loadWhole", "loadLink", "load", "cas", "addOnce", "loadLinked"}
      /\ p = "loadWhole" => c.op = "load"
      /\ p = "loadLink" => c.op = "link"
      /\ p = "load" => /\ wide /\ platform # "c11_whole"
                       /\ c.op = "load" \/ (c.op = "add" /\ CmpxchgFull)
      /\ p = "cas" => IsCas(c) /\ CmpxchgFull
      /\ p = "addOnce" => c.op = "add" /\ CmpxchgFull
      /\ p = "loadLinked" => (c.op = "add" \/ IsCas(c)) /\ ~CmpxchgFull
  <2>1. CASE platform = "gcc_x86"
    <3>1. CASE wide
      <4>1. Start = [load |-> "load", link |-> "loadLink", add |-> "load",
                     cas |-> "cas"]
        BY <2>1, <3>1 DEF Start, GccStart, Native
      <4> QED
        BY <1>2, <2>1, <3>1, <4>1 DEF IsCas, CmpxchgFull
    <3>2. CASE ~wide
      <4>1. Start = Native
        BY <2>1, <3>2 DEF Start, GccStart
      <4> QED
        BY <1>2, <2>1, <3>2, <4>1 DEF Native, IsCas, CmpxchgFull
    <3> QED
      BY <3>1, <3>2
  <2>2. CASE platform = "llvm_x86"
    BY <1>2, <2>2 DEF Start, LlvmStart, Native, IsCas, CmpxchgFull
  <2>3. CASE platform = "ppc"
    <3>1. CASE wide
      <4>1. Start = [load |-> "load", link |-> "loadLink", add |-> "loadLinked",
                     cas |-> "loadLinked"]
        BY <2>3, <3>1 DEF Start, PpcStart, Native
      <4> QED
        BY <1>2, <2>3, <3>1, <4>1 DEF IsCas, CmpxchgFull
    <3>2. CASE ~wide
      <4>1. Start = Native
        BY <2>3, <3>2 DEF Start, PpcStart
      <4> QED
        BY <1>2, <2>3, <3>2, <4>1 DEF Native, IsCas, CmpxchgFull
    <3> QED
      BY <3>1, <3>2
  <2>4. CASE platform = "mips"
    <3>1. CASE wide
      <4>1. Start = [load |-> "load", link |-> "loadLink", add |-> "loadLinked",
                     cas |-> "loadLinked"]
        BY <2>4, <3>1 DEF Start, MipsStart, Native
      <4> QED
        BY <1>2, <2>4, <3>1, <4>1 DEF IsCas, CmpxchgFull
    <3>2. CASE ~wide
      <4>1. Start = Native
        BY <2>4, <3>2 DEF Start, MipsStart
      <4> QED
        BY <1>2, <2>4, <3>2, <4>1 DEF Native, IsCas, CmpxchgFull
    <3> QED
      BY <3>1, <3>2
  <2>5. CASE platform \notin {"gcc_x86", "llvm_x86", "ppc", "mips"}
    BY <1>2, <2>5 DEF Start, C11Start, LoadSplit, Native, IsCas, CmpxchgFull
  <2> QED
    BY <2>1, <2>2, <2>3, <2>4, <2>5
<1>4. r \in Registers /\ r.pc = p /\ r.stage = "called" /\ r.call = c /\ r.res = 0
  BY <1>3, Constants DEF Registers, Idle, Labels, Stages, Nothing
<1>5. loc'[t] = r /\ UNCHANGED <<platform, wide, word, reserved>>
  BY <1>1, <1>4, Moves DEF Call
<1>6. CmpxchgFull' = CmpxchgFull
  BY <1>5 DEF CmpxchgFull
<1> HIDE DEF p, r
<1>7. ControlOK(t)'
  BY <1>2, <1>3, <1>4, <1>5, <1>6 DEF ControlOK
<1>8. RegistersOK(t)'
  BY <1>3, <1>4, <1>5 DEF RegistersOK
<1> QED
  BY <1>1, <1>4, <1>5, <1>7, <1>8, QuietKeeps DEF r, p

LEMMA ReturnKeeps == ASSUME IInv, NEW t \in Threads, Return(t) PROVE Keeps(t)
<1>1. Idle \in Registers
  BY Constants DEF Registers, Idle, Labels, Stages, Nothing
<1>2. loc'[t] = Idle /\ UNCHANGED <<platform, wide, word, reserved>>
  BY <1>1, Moves DEF Return
<1>3. ControlOK(t)' /\ RegistersOK(t)'
  BY <1>2 DEF ControlOK, RegistersOK, Idle
<1> QED
  BY <1>1, <1>2, <1>3, QuietKeeps DEF Return

\* An operation reports.
LEMMA AnswersKeep ==
    ASSUME IInv, NEW t \in Threads, NEW hit \in BOOLEAN, Answers(t, hit), ~At(t, "idle"),
           loc[t].call.op = "link" /\ LinkHalf = "ptr" => loc[t].got.ptr # Unread
    PROVE  Keeps(t)
<1> DEFINE r == [loc[t] EXCEPT !.pc = "return", !.res = 0,
                               !.stage = IF hit THEN "hit" ELSE "miss"]
<1>1. r \in Registers /\ r.pc = "return" /\ r.stage \in {"hit", "miss"} /\ r.call = loc[t].call
      /\ r.got = loc[t].got
  BY Ready, Constants DEF Registers, Labels, Stages
<1>2. Goes(t, r) /\ loc'[t] = r /\ UNCHANGED <<platform, wide, word, reserved>>
  BY <1>1, Moves DEF Answers
<1>3. loc[t].call.op # "none"
  BY Ready DEF At, ControlOK
<1> HIDE DEF r
<1>4. ControlOK(t)' /\ RegistersOK(t)'
  BY <1>1, <1>2, <1>3 DEF ControlOK, RegistersOK, LinkHalf
<1> QED
  BY <1>1, <1>2, <1>4, QuietKeeps

LEMMA AnswerKeeps == ASSUME IInv, NEW t \in Threads, Answer(t) PROVE Keeps(t)
<1>1. (loc[t].stage = "took" \/ ~IsCas(loc[t].call)) \in BOOLEAN
  BY DEF IsCas
<1>2. loc[t].call.op = "link" /\ LinkHalf = "ptr" => loc[t].got.ptr # Unread
  BY Ready DEF Answer, At, ControlOK, RegistersOK, MayFail, IsCas, Stages
<1> QED
  BY <1>1, <1>2, AnswersKeep DEF Answer, At

LEMMA TestKeeps == ASSUME IInv, NEW t \in Threads, Test(t) PROVE Keeps(t)
<1>1. CASE Success(loc[t]) \/ ~loc[t].call.weak
  <2>1. Success(loc[t]) \in BOOLEAN
    BY DEF Success, PpcSuccess, MipsSuccess, Matches
  <2>2. loc[t].call.op # "link"
    BY Ready DEF Test, At, ControlOK, IsCas
  <2> QED
    BY <1>1, <2>1, <2>2, AnswersKeep DEF Test, At
<1>2. CASE ~(Success(loc[t]) \/ ~loc[t].call.weak)
  <2> DEFINE r == [loc[t] EXCEPT !.res = 0, !.got = Nothing, !.pc = "load"]
  <2>1. r \in Registers /\ r.pc = "load" /\ r.stage = loc[t].stage /\ r.call = loc[t].call
    BY Ready, Constants DEF Registers, Labels, Nothing
  <2>2. Goes(t, r) /\ loc'[t] = r /\ UNCHANGED <<platform, wide, word, reserved>>
    BY <1>2, <2>1, Moves DEF Test
  <2>3. /\ loc[t].pc = "test" /\ loc[t].stage \notin {"took", "idle", "hit", "miss"}
        /\ IsCas(loc[t].call) /\ loc[t].call.weak /\ ~CmpxchgFull
        /\ loc[t].call.op # "none"
    BY <1>2, Ready DEF Test, At, ControlOK, RegistersOK, MayFail
  <2>4. CmpxchgFull' = CmpxchgFull /\ wide' /\ platform' # "c11_whole"
    BY <2>2, <2>3 DEF CmpxchgFull, IInv, TypeOK
  <2> HIDE DEF r
  <2>5. ControlOK(t)' /\ RegistersOK(t)'
    BY <2>1, <2>2, <2>3, <2>4 DEF ControlOK, RegistersOK
  <2> QED
    BY <2>1, <2>2, <2>5, QuietKeeps
<1> QED
  BY <1>1, <1>2

LEMMA LoadWholeKeeps == ASSUME IInv, NEW t \in Threads, LoadWhole(t) PROVE Keeps(t)
<1> DEFINE r == [loc[t] EXCEPT !.got = word, !.pc = "answer"]
<1>1. word \in [Halves -> Word \union {Unread}]
  BY Ready DEF Pair
<1>2. /\ r \in Registers /\ r.pc = "answer" /\ r.got = word
      /\ r.stage = loc[t].stage /\ r.call = loc[t].call
  BY <1>1, Ready DEF Registers, Labels
<1>3. Goes(t, r) /\ loc'[t] = r /\ UNCHANGED <<platform, wide, word, reserved>>
  BY <1>2, Moves DEF LoadWhole
<1>4. /\ loc[t].pc = "loadWhole" /\ loc[t].call.op = "load"
      /\ loc[t].stage \notin {"idle", "hit", "miss"}
  BY Ready DEF LoadWhole, At, ControlOK
<1> HIDE DEF r
<1>5. ControlOK(t)' /\ RegistersOK(t)'
  BY <1>2, <1>3, <1>4, Ready DEF ControlOK, RegistersOK
<1> QED
  BY <1>2, <1>3, <1>5, QuietKeeps

LEMMA LoadLinkKeeps == ASSUME IInv, NEW t \in Threads, LoadLink(t) PROVE Keeps(t)
<1> DEFINE h == IF wide /\ platform # "c11_whole" THEN LinkHalf ELSE "ptr"
           r == [loc[t] EXCEPT !.got[h] = word[h], !.pc = "answer"]
<1>1. h \in Halves /\ (LinkHalf = "ptr" => h = "ptr")
  BY DEF LinkHalf, Halves
<1> HIDE DEF h
<1>2. word[h] \in Word
  BY <1>1, Ready DEF Pair
<1>3. /\ r \in Registers /\ r.pc = "answer" /\ r.got = [loc[t].got EXCEPT ![h] = word[h]]
      /\ r.stage = loc[t].stage /\ r.call = loc[t].call
  BY <1>1, <1>2, Ready DEF Registers, Labels
<1>4. Goes(t, r) /\ loc'[t] = r /\ UNCHANGED <<platform, wide, word, reserved>>
  BY <1>3, Moves DEF LoadLink, h
<1>5. /\ loc[t].pc = "loadLink" /\ loc[t].call.op = "link"
      /\ loc[t].stage \notin {"idle", "took", "hit", "miss"}
  BY Ready DEF LoadLink, At, ControlOK
<1>6. LinkHalf = "ptr" => r.got.ptr # Unread
  BY <1>1, <1>2, <1>3, Ready, Constants
<1> HIDE DEF r
<1>7. ControlOK(t)' /\ RegistersOK(t)'
  BY <1>3, <1>4, <1>5, <1>6 DEF ControlOK, RegistersOK, LinkHalf
<1> QED
  BY <1>3, <1>4, <1>7, QuietKeeps

LEMMA LoadHalfKeeps ==
    ASSUME IInv, NEW t \in Threads, NEW h \in Halves, LoadHalf(t, h) PROVE Keeps(t)
<1> DEFINE p == IF loc[t].got[Other(h)] = Unread THEN "load"
                ELSE IF loc[t].call.op = "add" THEN "addCas" ELSE "answer"
           r == [loc[t] EXCEPT !.got[h] = word[h], !.pc = p]
<1>1. /\ p \in {"load", "addCas", "answer"}
      /\ p = "addCas" => loc[t].call.op = "add"
      /\ p = "answer" => loc[t].call.op # "add"
      /\ p # "load" => loc[t].got[Other(h)] # Unread
  OBVIOUS
<1> HIDE DEF p
<1>2. word[h] \in Word
  BY Ready DEF Pair
<1>3. /\ r \in Registers /\ r.pc = p /\ r.got = [loc[t].got EXCEPT ![h] = word[h]]
      /\ r.stage = loc[t].stage /\ r.call = loc[t].call
  BY <1>1, <1>2, Ready DEF Registers, Labels
<1>4. Goes(t, r) /\ loc'[t] = r /\ UNCHANGED <<platform, wide, word, reserved>>
  BY <1>3, Moves DEF LoadHalf, p
<1>5. /\ loc[t].pc = "load" /\ loc[t].call.op # "none"
      /\ wide /\ platform # "c11_whole"
      /\ \/ loc[t].call.op = "load"
         \/ loc[t].call.op = "add" /\ CmpxchgFull
         \/ IsCas(loc[t].call) /\ loc[t].call.weak
      /\ loc[t].stage \notin {"idle", "took", "hit", "miss"}
  BY Ready DEF LoadHalf, At, ControlOK
<1>6. p # "load" => r.got \in Pair
  <2> SUFFICES ASSUME p # "load" PROVE r.got \in Pair
    OBVIOUS
  <2>1. Other(h) \in Halves /\ h # Other(h) /\ \A k \in Halves : k = h \/ k = Other(h)
    BY DEF Halves, Other
  <2>2. loc[t].got[Other(h)] \in Word
    BY <1>1, <2>1, Ready
  <2>3. \A k \in Halves : r.got[k] \in Word
    BY <1>2, <1>3, <2>1, <2>2, Ready
  <2>4. r.got \in [Halves -> Word \union {Unread}]
    BY <1>3 DEF Registers
  <2> QED
    BY <2>3, <2>4 DEF Pair
<1> HIDE DEF r
<1>7. CmpxchgFull' = CmpxchgFull
  BY <1>4 DEF CmpxchgFull
<1>8. ControlOK(t)'
  BY <1>1, <1>3, <1>4, <1>5, <1>7 DEF ControlOK, IsCas
<1>9. Pair' = Pair /\ (p = "answer" => loc[t].call.op = "load" \/ (IsCas(loc[t].call) /\ loc[t].call.weak))
  BY <1>1, <1>5 DEF IsCas, Pair, Halves, Word
<1>10. RegistersOK(t)'
  BY <1>1, <1>3, <1>4, <1>5, <1>6, <1>9 DEF RegistersOK, MayFail
<1> QED
  BY <1>3, <1>4, <1>8, <1>10, QuietKeeps

LEMMA CasMissesKeeps == ASSUME IInv, NEW t \in Threads, CasMisses(t) PROVE Keeps(t)
<1> DEFINE r == [loc[t] EXCEPT !.got = word, !.pc = "answer"]
<1>1. word \in [Halves -> Word \union {Unread}]
  BY Ready DEF Pair
<1>2. /\ r \in Registers /\ r.pc = "answer" /\ r.got = word
      /\ r.stage = loc[t].stage /\ r.call = loc[t].call
  BY <1>1, Ready DEF Registers, Labels
<1>3. Goes(t, r) /\ loc'[t] = r /\ UNCHANGED <<platform, wide, word, reserved>>
  BY <1>2, Moves DEF CasMisses
<1>4. /\ loc[t].pc = "cas" /\ IsCas(loc[t].call) /\ loc[t].call.op # "none"
      /\ loc[t].stage \notin {"idle", "hit", "miss"}
      /\ word # loc[t].call.want \/ loc[t].call.weak
  BY Ready DEF CasMisses, At, ControlOK, IsCas
<1> HIDE DEF r
<1>5. ControlOK(t)' /\ RegistersOK(t)'
  BY <1>2, <1>3, <1>4, Ready DEF ControlOK, RegistersOK, MayFail
<1> QED
  BY <1>2, <1>3, <1>5, QuietKeeps

\* A platform that changes both halves at once reserves nothing.
LEMMA WholeKeeps ==
    ASSUME IInv, NEW t \in Threads, NEW r \in Registers, Goes(t, r), CmpxchgFull,
           UNCHANGED <<platform, wide, reserved>>, word' \in Pair,
           ControlOK(t)', RegistersOK(t)'
    PROVE  Keeps(t)
<1>1. /\ loc' \in [Threads -> Registers']
      /\ \A u \in Threads \ {t} : loc'[u] = loc[u]
  BY Moves
<1>2. reserved = {}
  BY DEF IInv
<1>3. TypeOK'
  BY <1>1 DEF IInv, TypeOK, Pair, Word, Halves
<1> QED
  BY <1>1, <1>2, <1>3 DEF Keeps, Apart

\* An operation has taken effect.
LEMMA TookKeeps ==
    ASSUME IInv, NEW t \in Threads, ~At(t, "idle"),
           NEW r \in Registers, r.pc = "answer", r.stage = "took", r.call = loc[t].call,
           r.call.op # "link", loc'[t] = r
    PROVE  ControlOK(t)' /\ RegistersOK(t)'
<1>1. loc[t].call.op # "none"
  BY Ready DEF ControlOK, At
<1> QED
  BY <1>1 DEF ControlOK, RegistersOK

LEMMA CasHitsKeeps == ASSUME IInv, NEW t \in Threads, CasHits(t) PROVE Keeps(t)
<1> DEFINE r == [loc[t] EXCEPT !.stage = "took", !.got = word, !.pc = "answer"]
<1>1. word \in [Halves -> Word \union {Unread}]
  BY Ready DEF Pair
<1>2. /\ r \in Registers /\ r.pc = "answer" /\ r.stage = "took" /\ r.call = loc[t].call
  BY <1>1, Ready DEF Registers, Labels, Stages
<1>3. Goes(t, r) /\ loc'[t] = r /\ UNCHANGED <<platform, wide, reserved>>
  BY <1>2, Moves DEF CasHits
<1>4. CmpxchgFull /\ IsCas(loc[t].call) /\ loc[t].call.op # "link" /\ ~At(t, "idle")
  BY Ready DEF CasHits, At, ControlOK, IsCas
<1>5. word' \in Pair
  BY <1>4, Ready, CallFacts DEF CasHits
<1> HIDE DEF r
<1>6. ControlOK(t)' /\ RegistersOK(t)'
  BY <1>2, <1>3, <1>4, TookKeeps
<1> QED
  BY <1>2, <1>3, <1>4, <1>5, <1>6, WholeKeeps

\* An addition changes the count, to a word.
LEMMA AddedType ==
    ASSUME NEW p \in Pair, NEW v \in Word
    PROVE  Added(p, v) \in Pair
BY AddWType, Constants DEF Added, Pair

LEMMA AddOnceKeeps == ASSUME IInv, NEW t \in Threads, AddOnce(t) PROVE Keeps(t)
<1> DEFINE r == [loc[t] EXCEPT !.stage = "took", !.got = word, !.pc = "answer"]
<1>1. word \in [Halves -> Word \union {Unread}]
  BY Ready DEF Pair
<1>2. /\ r \in Registers /\ r.pc = "answer" /\ r.stage = "took" /\ r.call = loc[t].call
  BY <1>1, Ready DEF Registers, Labels, Stages
<1>3. Goes(t, r) /\ loc'[t] = r /\ UNCHANGED <<platform, wide, reserved>>
  BY <1>2, Moves DEF AddOnce
<1>4. CmpxchgFull /\ loc[t].call.op = "add" /\ ~At(t, "idle")
  BY Ready DEF AddOnce, At, ControlOK
<1>5. word' \in Pair
  BY <1>4, Ready, CallFacts, AddedType DEF AddOnce
<1> HIDE DEF r
<1>6. ControlOK(t)' /\ RegistersOK(t)'
  BY <1>2, <1>3, <1>4, TookKeeps
<1> QED
  BY <1>2, <1>3, <1>4, <1>5, <1>6, WholeKeeps

LEMMA AddCasKeeps == ASSUME IInv, NEW t \in Threads, AddCas(t) PROVE Keeps(t)
<1>1. CmpxchgFull /\ loc[t].call.op = "add" /\ ~At(t, "idle") /\ loc[t].pc = "addCas"
  BY Ready DEF AddCas, At, ControlOK
<1>2. CASE word = loc[t].got
  <2> DEFINE r == [loc[t] EXCEPT !.stage = "took", !.pc = "answer"]
  <2>1. /\ r \in Registers /\ r.pc = "answer" /\ r.stage = "took" /\ r.call = loc[t].call
    BY Ready DEF Registers, Labels, Stages
  <2>2. Goes(t, r) /\ loc'[t] = r /\ UNCHANGED <<platform, wide, reserved>>
    BY <1>2, <2>1, Moves DEF AddCas
  <2>3. word' \in Pair
    BY <1>1, <1>2, Ready, CallFacts, AddedType DEF AddCas
  <2> HIDE DEF r
  <2>4. ControlOK(t)' /\ RegistersOK(t)'
    BY <1>1, <2>1, <2>2, TookKeeps
  <2> QED
    BY <1>1, <2>1, <2>2, <2>3, <2>4, WholeKeeps
<1>3. CASE word # loc[t].got
  <2> DEFINE r == [loc[t] EXCEPT !.got = word]
  <2>1. word \in [Halves -> Word \union {Unread}]
    BY Ready DEF Pair
  <2>2. /\ r \in Registers /\ r.pc = "addCas" /\ r.stage = loc[t].stage
        /\ r.call = loc[t].call /\ r.got = word
    BY <1>1, <2>1, Ready DEF Registers
  <2>3. Goes(t, r) /\ loc'[t] = r /\ UNCHANGED <<platform, wide, word, reserved>>
    BY <1>3, <2>2, Moves DEF AddCas
  <2>4. CmpxchgFull' = CmpxchgFull /\ loc[t].stage \notin {"idle", "took", "hit", "miss"}
    BY <1>1, <2>3, Ready DEF CmpxchgFull, ControlOK
  <2> HIDE DEF r
  <2>5. ControlOK(t)'
    BY <1>1, <2>2, <2>3, <2>4, Ready DEF ControlOK
  <2>6. RegistersOK(t)'
    BY <2>2, <2>3, <2>4, Ready DEF RegistersOK
  <2> QED
    BY <2>2, <2>3, <2>5, <2>6, QuietKeeps
<1> QED
  BY <1>2, <1>3

LEMMA LoadLinkedKeeps == ASSUME IInv, NEW t \in Threads, LoadLinked(t) PROVE Keeps(t)
<1> DEFINE h == First(loc[t].call)
           r == [loc[t] EXCEPT !.got[h] = word[h], !.pc = "loadOther"]
<1>1. /\ loc[t].pc = "loadLinked" /\ loc[t].call.op # "none" /\ ~CmpxchgFull
      /\ loc[t].call.op = "add" \/ IsCas(loc[t].call)
      /\ loc[t].stage \notin {"idle", "took", "hit", "miss"}
      /\ IsCas(loc[t].call) /\ loc[t].call.weak => loc[t].res = 0
  BY Ready DEF LoadLinked, At, ControlOK, RegistersOK
<1>2. h \in Halves /\ word[h] \in Word
  BY Ready, CallFacts DEF Pair
<1>3. /\ r \in Registers /\ r.pc = "loadOther" /\ r.got[h] = word[h]
      /\ r.stage = loc[t].stage /\ r.call = loc[t].call /\ r.res = loc[t].res
  BY <1>2, Ready DEF Registers, Labels
<1>4. Goes(t, r) /\ loc'[t] = r /\ UNCHANGED <<platform, wide, word>>
  BY <1>3, Moves DEF LoadLinked
<1>5. CmpxchgFull' = CmpxchgFull /\ Word' = Word /\ h = First(r.call)
  BY <1>3, <1>4 DEF CmpxchgFull, Word
<1> HIDE DEF r
<1>6. ControlOK(t)'
  BY <1>1, <1>3, <1>4, <1>5 DEF ControlOK
<1>7. RegistersOK(t)'
  BY <1>1, <1>2, <1>3, <1>4, <1>5 DEF RegistersOK
<1> QED
  BY <1>1, <1>3, <1>4, <1>6, <1>7, QuietKeeps DEF LoadLinked

\* What the comparison leaves in the result register is a word; it looks like
\* success only if both halves are the expected ones.
LEMMA LoadOtherKeeps == ASSUME IInv, NEW t \in Threads, LoadOther(t) PROVE Keeps(t)
<1> DEFINE c == loc[t].call
           h == First(c)
           k == Other(h)
           pair == [loc[t].got EXCEPT ![k] = word[k]]
           res == IF platform = "ppc" THEN PpcCompared(c, pair)
                                      ELSE MipsCompared(c, pair, loc[t].res)
           p == IF Matches(c, pair) THEN "store" ELSE "test"
           r == [loc[t] EXCEPT !.got = pair, !.res = res, !.pc = p]
<1>1. /\ loc[t].pc = "loadOther" /\ c.op # "none" /\ ~CmpxchgFull
      /\ c.op = "add" \/ IsCas(c)
      /\ loc[t].stage \notin {"idle", "took", "hit", "miss"}
      /\ IsCas(c) /\ c.weak => loc[t].res = 0
      /\ loc[t].got[h] \in Word
      /\ t \in reserved => loc[t].got[h] = word[h]
  BY Ready DEF LoadOther, At, ControlOK, RegistersOK
<1>2. /\ c \in Calls \union {Idle.call} /\ h \in Halves /\ k \in Halves /\ h # k
      /\ \A x \in Halves : x = h \/ x = k
      /\ c.op # "add" => c.new \in Pair /\ c.want \in Pair /\ c.weak \in BOOLEAN
  BY <1>1, Ready, CallFacts
<1> HIDE DEF c, h, k
<1>3. word[k] \in Word /\ word \in Pair /\ loc[t].got \in [Halves -> Word \union {Unread}]
  BY <1>2, Ready DEF Pair
<1>4. /\ pair \in Pair /\ pair[h] = loc[t].got[h] /\ pair[k] = word[k]
      /\ t \in reserved => pair = word
  <2>1. pair \in [Halves -> Word \union {Unread}] /\ pair[h] = loc[t].got[h] /\ pair[k] = word[k]
    BY <1>2, <1>3
  <2>2. pair \in Pair
    BY <1>1, <1>2, <1>3, <2>1 DEF Pair
  <2>3. t \in reserved => \A x \in Halves : pair[x] = word[x]
    BY <1>1, <1>2, <2>1
  <2> QED
    BY <1>3, <2>1, <2>2, <2>3 DEF Pair
<1> HIDE DEF pair
<1>5. res \in Word
  <2>1. c.op # "add" => c.new[h] \in Word
    BY <1>2 DEF Pair
  <2> QED
    BY <2>1, Ready, Constants DEF PpcCompared, MipsCompared, h
<1>6. /\ r \in Registers /\ r.pc = p /\ r.got = pair /\ r.res = res
      /\ r.stage = loc[t].stage /\ r.call = c
  BY <1>3, <1>4, <1>5, Ready DEF Registers, Labels, Pair, c
<1>7. Goes(t, r)
  BY DEF LoadOther, pair, c, h, k
<1>8. loc'[t] = r /\ UNCHANGED <<platform, wide, word, reserved>>
  BY <1>6, <1>7, Moves DEF LoadOther
<1>9. CmpxchgFull' = CmpxchgFull /\ Pair' = Pair
  BY <1>8 DEF CmpxchgFull, Pair, Word
<1>10. ~Matches(c, pair) => IsCas(c) /\ pair # c.want /\ ~Success(r)
  <2> SUFFICES ASSUME ~Matches(c, pair) PROVE IsCas(c) /\ pair # c.want /\ ~Success(r)
    OBVIOUS
  <2>1. IsCas(c) /\ pair # c.want /\ c.op # "add"
    BY <1>1 DEF Matches
  <2>2. CASE platform = "ppc"
    BY <1>6, <2>1, <2>2 DEF Success, PpcSuccess, PpcCompared
  <2>3. CASE platform # "ppc" /\ ~c.weak
    BY <1>6, <2>1, <2>3 DEF Success, MipsSuccess
  <2>4. CASE platform # "ppc" /\ c.weak /\ pair[h] = c.want[h]
    <3>1. pair[k] # c.want[k]
      BY <1>2, <1>4, <2>1, <2>4 DEF Pair
    <3>2. k = Other(First(c))
      BY DEF k, h
    <3> QED
      BY <1>6, <2>1, <2>4, <3>1, <3>2 DEF Success, MipsSuccess
  <2>5. CASE platform # "ppc" /\ c.weak /\ pair[h] # c.want[h]
    BY <1>1, <1>6, <2>1, <2>5 DEF Success, MipsSuccess, MipsCompared, h
  <2> QED
    BY <1>2, <2>1, <2>2, <2>3, <2>4, <2>5
<1> HIDE DEF r, res
<1>11. \A l : Success(l)' = Success(l) /\ MayFail(l)' = MayFail(l)
  BY <1>8 DEF Success, PpcSuccess, MipsSuccess, Matches, MayFail, Pair, Word, Halves, IsCas,
              First, Other
<1>12. ControlOK(t)'
  BY <1>1, <1>6, <1>8, <1>9 DEF ControlOK
<1>13. RegistersOK(t)'
  <2>1. MayFail(r) \/ Matches(c, pair)
    BY <1>2, <1>4, <1>6, <1>10 DEF MayFail
  <2>2. p = "test" => ~Matches(c, pair)
    OBVIOUS
  <2>3. r.pc = "test" => ~Success(r) /\ MayFail(r) /\ r.stage # "took"
    BY <1>1, <1>6, <1>10, <2>1, <2>2
  <2>4. r.pc = "store" => /\ r.got \in Pair /\ Matches(r.call, r.got)
                          /\ t \in reserved => r.got = word
    BY <1>4, <1>6
  <2>5. r.pc \in {"store", "test"} /\ r.stage # "hit"
    BY <1>1, <1>6
  <2> QED
    BY <1>8, <1>9, <1>11, <2>3, <2>4, <2>5 DEF RegistersOK
<1> QED
  BY <1>6, <1>7, <1>8, <1>12, <1>13, QuietKeeps

\* A store-conditional that succeeds finds the pair that was read, half by
\* half: nothing has been stored since the first half was linked.
LEMMA StoredPair ==
    ASSUME IInv, NEW t \in Threads, StoreConditional(t)
    PROVE  /\ loc[t].got = word /\ Matches(loc[t].call, word)
           /\ NewHalf(t) \in Word /\ First(loc[t].call) \in Halves
           /\ loc[t].call.op # "none" /\ ~CmpxchgFull
           /\ loc[t].call.op = "add" \/ IsCas(loc[t].call)
<1>1. /\ loc[t].got = word /\ Matches(loc[t].call, word)
      /\ loc[t].call.op # "none" /\ ~CmpxchgFull
      /\ loc[t].call.op = "add" \/ IsCas(loc[t].call)
  BY Ready DEF StoreConditional, At, ControlOK, RegistersOK
<1>2. /\ First(loc[t].call) \in Halves
      /\ loc[t].call.op = "add" => loc[t].call.arg \in Word
      /\ IsCas(loc[t].call) => loc[t].call.new \in Pair
  BY Ready, CallFacts
<1>3. word.ref \in Word
  BY Ready, Constants DEF Pair
<1>4. NewHalf(t) \in Word
  <2>1. CASE loc[t].call.op = "add"
    BY <1>1, <1>2, <1>3, <2>1, AddWType DEF NewHalf
  <2>2. CASE loc[t].call.op # "add"
    BY <1>1, <1>2, <2>2 DEF NewHalf, Pair
  <2> QED
    BY <2>1, <2>2
<1> QED
  BY <1>1, <1>2, <1>4

LEMMA StoreConditionalKeeps ==
    ASSUME IInv, NEW t \in Threads, StoreConditional(t) PROVE Keeps(t)
<1> DEFINE r == [loc[t] EXCEPT !.stage = "took", !.res = 1, !.pc = "test"]
<1>1. /\ loc[t].got = word /\ Matches(loc[t].call, word)
      /\ NewHalf(t) \in Word /\ First(loc[t].call) \in Halves
      /\ loc[t].call.op # "none" /\ ~CmpxchgFull
      /\ loc[t].call.op = "add" \/ IsCas(loc[t].call)
  BY StoredPair
<1>2. /\ r \in Registers /\ r.pc = "test" /\ r.stage = "took" /\ r.res = 1
      /\ r.call = loc[t].call /\ r.got = loc[t].got
  BY Ready, Constants DEF Registers, Labels, Stages
<1>3. /\ Goes(t, r) /\ UNCHANGED <<platform, wide>> /\ reserved' = {}
      /\ word' = [word EXCEPT ![First(loc[t].call)] = NewHalf(t)]
  BY DEF StoreConditional, Unreserves
<1>4. /\ loc' \in [Threads -> Registers'] /\ loc'[t] = r
      /\ \A u \in Threads \ {t} : loc'[u] = loc[u]
  BY <1>2, <1>3, Moves
<1>5. word' \in Pair
  BY <1>1, <1>3, Ready DEF Pair
<1>6. TypeOK'
  BY <1>3, <1>4, <1>5 DEF IInv, TypeOK, Pair, Word, Halves
<1>7. Apart(t)
  BY <1>3, <1>4 DEF Apart
<1>8. CmpxchgFull' = CmpxchgFull /\ \A l : Success(l)' = Success(l)
  BY <1>3 DEF CmpxchgFull, Success, PpcSuccess, MipsSuccess, Matches
<1>9. Success(r)
  BY <1>1, <1>2 DEF Success, PpcSuccess, MipsSuccess, Matches, IsCas
<1> HIDE DEF r
<1>10. ControlOK(t)'
  BY <1>1, <1>2, <1>4, <1>8 DEF ControlOK, IsCas
<1>11. RegistersOK(t)'
  BY <1>2, <1>4, <1>8, <1>9 DEF RegistersOK
<1> QED
  BY <1>3, <1>6, <1>7, <1>10, <1>11 DEF Keeps

\* One that fails leaves nothing that looks like success.
LEMMA StoreFailsKeeps == ASSUME IInv, NEW t \in Threads, StoreFails(t) PROVE Keeps(t)
<1> DEFINE c == loc[t].call
           again == c.op = "add" \/ ~c.weak
           r == [loc[t] EXCEPT !.res = 0, !.pc = IF again THEN "loadLinked" ELSE "test"]
<1>1. /\ loc[t].pc = "store" /\ c.op # "none" /\ ~CmpxchgFull
      /\ c.op = "add" \/ IsCas(c)
      /\ loc[t].stage \notin {"idle", "took", "hit", "miss"}
      /\ loc[t].got \in Pair
  BY Ready DEF StoreFails, At, ControlOK, RegistersOK
<1>2. /\ r \in Registers /\ r.pc = IF again THEN "loadLinked" ELSE "test"
      /\ r.stage = loc[t].stage /\ r.res = 0 /\ r.call = c /\ r.got = loc[t].got
  BY Ready, Constants DEF Registers, Labels
<1>3. /\ Goes(t, r) /\ UNCHANGED <<platform, wide, word>> /\ reserved' = reserved \ {t}
  BY DEF StoreFails
<1>4. loc'[t] = r
  BY <1>2, <1>3, Moves
<1>5. /\ CmpxchgFull' = CmpxchgFull
      /\ \A l : Success(l)' = Success(l) /\ MayFail(l)' = MayFail(l)
  BY <1>3 DEF CmpxchgFull, Success, PpcSuccess, MipsSuccess, Matches, MayFail, Pair, Word,
              Halves, IsCas, First, Other
<1>6. ~again => ~Success(r) /\ MayFail(r)
  BY <1>1, <1>2 DEF Success, PpcSuccess, MipsSuccess, MayFail, IsCas
<1> HIDE DEF r, c
<1>7. ControlOK(t)'
  BY <1>1, <1>2, <1>4, <1>5 DEF ControlOK
<1>8. RegistersOK(t)'
  BY <1>1, <1>2, <1>4, <1>5, <1>6 DEF RegistersOK
<1> QED
  BY <1>2, <1>3, <1>7, <1>8, QuietKeeps

-----------------------------------------------------------------------------
LEMMA InvInit == Init => IInv
<1> SUFFICES ASSUME Init PROVE IInv
  OBVIOUS
<1>1. Idle \in Registers
  BY Constants DEF Registers, Idle, Labels, Stages, Nothing
<1>2. \A t \in Threads : loc[t] = Idle
  BY DEF Init
<1>3. TypeOK
  BY <1>1, Constants DEF Init, TypeOK, Pair
<1>4. \A t \in Threads : ControlOK(t) /\ RegistersOK(t)
  BY <1>2 DEF ControlOK, RegistersOK, Idle
<1> QED
  BY <1>3, <1>4 DEF IInv, Init

LEMMA InvStep == IInv /\ [Next]_vars => IInv'
<1> SUFFICES ASSUME IInv, [Next]_vars PROVE IInv'
  OBVIOUS
<1>1. CASE Next
  <2>1. PICK t \in Threads : Step(t)
    BY <1>1 DEF Next
  <2>2. Keeps(t)
    BY <2>1, CallKeeps, ReturnKeeps, AnswerKeeps, LoadWholeKeeps, LoadLinkKeeps,
       LoadHalfKeeps, CasHitsKeeps, CasMissesKeeps, AddOnceKeeps, AddCasKeeps,
       LoadLinkedKeeps, LoadOtherKeeps, StoreConditionalKeeps, StoreFailsKeeps, TestKeeps
       DEF Step
  <2> QED
    BY <2>2, KeepsInv
<1>2. CASE UNCHANGED vars
  <2>1. /\ UNCHANGED <<platform, wide, word, reserved, loc>> /\ Registers' = Registers
        /\ CmpxchgFull' = CmpxchgFull /\ LinkHalf' = LinkHalf
        /\ \A l : Success(l)' = Success(l) /\ MayFail(l)' = MayFail(l)
    BY <1>2 DEF vars, Registers, Calls, CasCalls, CmpxchgFull, Success, PpcSuccess,
                MipsSuccess, Matches, MayFail, Pair, Word, Halves, IsCas, First, Other, LinkHalf
  <2>2. TypeOK'
    BY <2>1 DEF IInv, TypeOK, Pair, Word, Halves
  <2>3. \A t \in Threads : ControlOK(t)' /\ RegistersOK(t)'
    BY <2>1 DEF IInv, ControlOK, RegistersOK
  <2> QED
    BY <2>1, <2>2, <2>3 DEF IInv
<1> QED
  BY <1>1, <1>2

\* Every reachable state satisfies the inductive invariant.
THEOREM Invariance == Spec => []IInv
BY InvInit, InvStep, PTL DEF Spec

\* The variables keep their types: no half of the word leaves its width.
THEOREM TypeCorrect == Spec => []TypeOK
BY Invariance, PTL DEF IInv

\* A caller of __lfref_link is told the pointer's half of the word, if the
\* compiler's macro for the byte order is right.
THEOREM LinkSafe == ASSUME EndianMacro = LittleEndian PROVE Spec => []LinkReportsPointer
<1>1. IInv => LinkReportsPointer
  BY DEF IInv, LinkReportsPointer, RegistersOK, LinkHalf
<1> QED
  BY <1>1, Invariance, PTL

-----------------------------------------------------------------------------
(* The operations implement AtomicPair: each step of an operation is a     *)
(* read, the instant at which it takes effect, its outcome, or nothing.    *)

stages == [u \in Threads |-> loc[u].stage]
calls == [u \in Threads |-> loc[u].call]
gots == [u \in Threads |-> loc[u].got]
tearing == wide /\ platform # "c11_whole"

\* New registers of a thread, as the abstract operation sees them.
LEMMA Sees ==
    ASSUME IInv, NEW t \in Threads, NEW r, Goes(t, r)
    PROVE  /\ stages' = [stages EXCEPT ![t] = r.stage]
           /\ calls' = [calls EXCEPT ![t] = r.call]
           /\ gots' = [gots EXCEPT ![t] = r.got]
           /\ stages[t] = loc[t].stage /\ calls[t] = loc[t].call /\ gots[t] = loc[t].got
           /\ r.stage = loc[t].stage => stages' = stages
           /\ r.call = loc[t].call => calls' = calls
           /\ r.got = loc[t].got => gots' = gots
BY DEF IInv, TypeOK, Goes, stages, calls, gots

\* A step that changes none of stage, call and got.
LEMMA Stutters ==
    ASSUME IInv, NEW t \in Threads, NEW r, Goes(t, r), UNCHANGED <<platform, wide, word>>,
           r.stage = loc[t].stage, r.call = loc[t].call, r.got = loc[t].got
    PROVE  UNCHANGED Whole!vars
<1>1. stages' = stages /\ calls' = calls /\ gots' = gots
  BY Sees
<1> QED
  BY <1>1 DEF Whole!vars, stages, calls, gots

\* Reads of an operation that has not taken effect: a half, the word, or the
\* registers are given up.
LEMMA Reads ==
    ASSUME IInv, NEW t \in Threads, NEW r, Goes(t, r), UNCHANGED <<platform, wide, word>>,
           r.stage = loc[t].stage, r.call = loc[t].call, loc[t].stage = "called",
           \/ r.got = word
           \/ r.got = [h \in Halves |-> Unread]
           \/ \E h \in Halves : /\ r.got = [loc[t].got EXCEPT ![h] = word[h]]
                                /\ tearing \/ loc[t].call.op = "link"
    PROVE  Whole!Next
<1>1. stages' = stages /\ calls' = calls /\ gots' = [gots EXCEPT ![t] = r.got]
  BY Sees
<1>2. stages[t] = "called" /\ calls[t] = loc[t].call /\ gots[t] = loc[t].got /\ tearing' = tearing
  BY Sees DEF tearing
<1>3. CASE r.got = word
  BY <1>1, <1>2, <1>3 DEF Whole!Next, Whole!ReadWord, stages, calls, gots, tearing
<1>4. CASE r.got = [h \in Halves |-> Unread]
  <2>1. r.got = Whole!Nothing
    BY <1>4, Constants DEF Whole!Nothing
  <2> QED
    BY <1>1, <1>2, <2>1 DEF Whole!Next, Whole!Forget, stages, calls, gots, tearing
<1>5. ASSUME NEW h \in Halves, r.got = [loc[t].got EXCEPT ![h] = word[h]],
             tearing \/ loc[t].call.op = "link"
      PROVE  Whole!Next
  <2>1. gots' = [gots EXCEPT ![t][h] = word[h]]
    BY <1>1, <1>2, <1>5
  <2>2. Whole!ReadHalf(t, h)
    BY <1>1, <1>2, <1>5, <2>1 DEF Whole!ReadHalf, stages, calls, gots, tearing
  <2> QED
    BY <1>5, <2>2, Constants DEF Whole!Next
<1> QED
  BY <1>3, <1>4, <1>5

\* The instant at which an addition or a compare-exchange takes effect.
LEMMA Takes ==
    ASSUME IInv, NEW t \in Threads, NEW r, Goes(t, r), UNCHANGED <<platform, wide>>,
           r.stage = "took", r.call = loc[t].call, r.got = word, loc[t].stage = "called",
           \/ loc[t].call.op = "add" /\ word' = Added(word, loc[t].call.arg)
           \/ IsCas(loc[t].call) /\ word = loc[t].call.want /\ word' = loc[t].call.new
    PROVE  Whole!Next
<1>1. /\ stages' = [stages EXCEPT ![t] = "took"] /\ calls' = calls
      /\ gots' = [gots EXCEPT ![t] = word]
      /\ stages[t] = "called" /\ calls[t] = loc[t].call
  BY Sees
<1>2. tearing' = tearing
  BY DEF tearing
<1>3. Whole!TakeAdd(t) \/ Whole!TakeCas(t)
  BY <1>1 DEF Whole!TakeAdd, Whole!TakeCas, calls, Added, IsCas, AddW, Whole!AddW
<1>4. Whole!Take(t)
  BY <1>1, <1>2, <1>3 DEF Whole!Take, Whole!Becomes, stages, calls, gots, tearing
<1> QED
  BY <1>4 DEF Whole!Next

\* The outcome.
LEMMA Outcomes ==
    ASSUME IInv, NEW t \in Threads, NEW hit \in BOOLEAN, Answers(t, hit),
           \/ hit /\ loc[t].stage = "took"
           \/ hit /\ loc[t].stage = "called" /\ loc[t].call.op = "load" /\ loc[t].got \in Pair
           \/ hit /\ loc[t].stage = "called" /\ loc[t].call.op = "link" /\ loc[t].got.ptr # Unread
           \/ ~hit /\ loc[t].stage = "called" /\ MayFail(loc[t])
    PROVE  Whole!Next
<1> DEFINE r == [loc[t] EXCEPT !.pc = "return", !.res = 0,
                               !.stage = IF hit THEN "hit" ELSE "miss"]
<1>1. Goes(t, r) /\ UNCHANGED <<platform, wide, word>>
  BY DEF Answers
<1>2. /\ r.stage = IF hit THEN "hit" ELSE "miss"
      /\ r.call = loc[t].call /\ r.got = loc[t].got
  BY Ready DEF Registers
<1> HIDE DEF r
<1>3. /\ stages' = [stages EXCEPT ![t] = IF hit THEN "hit" ELSE "miss"]
      /\ calls' = calls /\ gots' = gots
      /\ stages[t] = loc[t].stage /\ calls[t] = loc[t].call /\ gots[t] = loc[t].got
  BY <1>1, <1>2, Sees
<1>4. tearing' = tearing
  BY <1>1 DEF tearing
<1>5. loc[t].got \in Pair => loc[t].got.ref # Unread /\ loc[t].got.ptr # Unread
  BY Ready, BothRead
<1>6. CASE hit
  <2>1. Whole!Success(t)
    BY <1>1, <1>3, <1>4, <1>5, <1>6
       DEF Whole!Success, Whole!Becomes, stages, calls, gots, tearing
  <2> QED
    BY <2>1 DEF Whole!Next
<1>7. CASE ~hit
  <2>1. Whole!Failure(t)
    BY <1>1, <1>3, <1>4, <1>5, <1>7
       DEF Whole!Failure, Whole!Becomes, stages, calls, gots, tearing, MayFail, IsCas
  <2> QED
    BY <2>1 DEF Whole!Next
<1> QED
  BY <1>6, <1>7

\* A call has one of the forms the abstract operations have.
LEMMA CallSees == ASSUME IInv, NEW t \in Threads, Call(t) PROVE Whole!Next
<1>1. PICK c \in Calls :
        Goes(t, [Idle EXCEPT !.stage = "called", !.call = c,
                             !.pc = Start[IF IsCas(c) THEN "cas" ELSE c.op]])
  BY DEF Call
<1> DEFINE r == [Idle EXCEPT !.stage = "called", !.call = c,
                             !.pc = Start[IF IsCas(c) THEN "cas" ELSE c.op]]
<1>2. r.stage = "called" /\ r.call = c /\ r.got = Nothing /\ Goes(t, r)
  BY <1>1 DEF Idle
<1>3. loc[t].stage = "idle" /\ loc[t].got = Nothing
  BY Ready DEF Call, At, ControlOK, Idle
<1> HIDE DEF r
<1>4. /\ stages' = [stages EXCEPT ![t] = "called"] /\ stages[t] = "idle"
      /\ calls' = [calls EXCEPT ![t] = c] /\ gots' = gots
  BY <1>2, <1>3, Sees
<1>5. tearing' = tearing /\ word' = word
  BY DEF Call, tearing
<1>6. c \in Whole!Operations
  BY DEF Calls, CasCalls, Pair, Halves, Word, Whole!Operations, Whole!Pair, Whole!Word
<1>7. Whole!Call(t)
  BY <1>4, <1>5, <1>6 DEF Whole!Call, Whole!Becomes, stages, calls, gots, tearing
<1> QED
  BY <1>7 DEF Whole!Next

LEMMA ReturnSees == ASSUME IInv, NEW t \in Threads, Return(t) PROVE Whole!Next
<1>1. Goes(t, Idle) /\ UNCHANGED <<platform, wide, word>>
  BY DEF Return
<1>2. Idle.stage = "idle" /\ Idle.call = [op |-> "none"] /\ Idle.got = Nothing
  BY DEF Idle
<1>3. loc[t].stage \in {"hit", "miss"}
  BY Ready DEF Return, At, ControlOK
<1>4. /\ stages' = [stages EXCEPT ![t] = "idle"] /\ stages[t] \in {"hit", "miss"}
      /\ calls' = [calls EXCEPT ![t] = Whole!NoCall]
      /\ gots' = [gots EXCEPT ![t] = Whole!Nothing]
  <2>1. Nothing = Whole!Nothing
    BY Constants DEF Nothing, Whole!Nothing
  <2> QED
    BY <1>1, <1>2, <1>3, <2>1, Sees DEF Whole!NoCall
<1>5. tearing' = tearing
  BY <1>1 DEF tearing
<1>6. Whole!Return(t)
  BY <1>1, <1>4, <1>5 DEF Whole!Return, Whole!Becomes, stages, calls, gots, tearing
<1> QED
  BY <1>6 DEF Whole!Next

LEMMA AnswerSees ==
    ASSUME IInv, NEW t \in Threads, Answer(t), EndianMacro = LittleEndian PROVE Whole!Next
<1> DEFINE hit == loc[t].stage = "took" \/ ~IsCas(loc[t].call)
<1>1. hit \in BOOLEAN /\ Answers(t, hit) /\ loc[t].pc = "answer"
  BY DEF Answer, At
<1>2. loc[t].stage \in {"took", "called"}
  BY <1>1, Ready DEF ControlOK, Stages
<1>3. loc[t].stage = "called" =>
        \/ loc[t].call.op = "load" /\ loc[t].got \in Pair
        \/ loc[t].call.op = "link" /\ loc[t].got.ptr # Unread
        \/ MayFail(loc[t])
  BY <1>1, Ready DEF RegistersOK, LinkHalf
<1>4. /\ MayFail(loc[t]) /\ loc[t].stage = "called" => ~hit
      /\ loc[t].call.op \in {"load", "link"} => hit
      /\ loc[t].stage = "took" => hit
  BY DEF MayFail, IsCas
<1> HIDE DEF hit
<1> QED
  BY <1>1, <1>2, <1>3, <1>4, Outcomes

LEMMA TestSees == ASSUME IInv, NEW t \in Threads, Test(t) PROVE [Whole!Next]_(Whole!vars)
<1>1. /\ loc[t].pc = "test" /\ loc[t].stage \in {"took", "called"}
      /\ loc[t].stage = "took" => Success(loc[t])
      /\ loc[t].stage = "called" => ~Success(loc[t]) /\ MayFail(loc[t])
  BY Ready DEF Test, At, ControlOK, RegistersOK, Stages
<1>2. CASE Success(loc[t]) \/ ~loc[t].call.weak
  <2>1. Success(loc[t]) \in BOOLEAN
    BY DEF Success, PpcSuccess, MipsSuccess, Matches
  <2>2. Answers(t, Success(loc[t]))
    BY <1>2 DEF Test
  <2> QED
    BY <1>1, <2>1, <2>2, Outcomes
<1>3. CASE ~(Success(loc[t]) \/ ~loc[t].call.weak)
  <2> DEFINE r == [loc[t] EXCEPT !.res = 0, !.got = Nothing, !.pc = "load"]
  <2>1. /\ Goes(t, r) /\ UNCHANGED <<platform, wide, word>>
        /\ r.stage = loc[t].stage /\ r.call = loc[t].call
        /\ r.got = [h \in Halves |-> Unread]
    BY <1>3, Ready DEF Test, Registers, Nothing
  <2>2. loc[t].stage = "called"
    BY <1>1, <1>3
  <2> HIDE DEF r
  <2> QED
    BY <2>1, <2>2, Reads
<1> QED
  BY <1>2, <1>3

\* A step that reads a half, or the word.
LEMMA ReadSees ==
    ASSUME IInv, NEW t \in Threads, NEW r, Goes(t, r), UNCHANGED <<platform, wide, word>>,
           ~At(t, "idle"), ~At(t, "answer"), ~At(t, "test"), ~At(t, "return"),
           r.stage = loc[t].stage, r.call = loc[t].call,
           \/ r.got = word
           \/ \E h \in Halves : /\ r.got = [loc[t].got EXCEPT ![h] = word[h]]
                                /\ tearing \/ loc[t].call.op = "link"
    PROVE  Whole!Next
<1>1. loc[t].stage = "called"
  BY Ready DEF At, ControlOK, Stages
<1> QED
  BY <1>1, Reads

LEMMA LoadSees ==
    ASSUME IInv, NEW t \in Threads,
           LoadWhole(t) \/ LoadLink(t) \/ CasMisses(t) \/ LoadLinked(t) \/ LoadOther(t)
    PROVE  Whole!Next
<1>1. CASE LoadWhole(t) \/ CasMisses(t)
  <2> DEFINE r == [loc[t] EXCEPT !.got = word, !.pc = "answer"]
  <2>1. r.stage = loc[t].stage /\ r.call = loc[t].call /\ r.got = word
    BY Ready DEF Registers
  <2>2. /\ Goes(t, r) /\ UNCHANGED <<platform, wide, word>>
        /\ ~At(t, "idle") /\ ~At(t, "answer") /\ ~At(t, "test") /\ ~At(t, "return")
    BY <1>1 DEF LoadWhole, CasMisses, At
  <2> HIDE DEF r
  <2> QED
    BY <2>1, <2>2, ReadSees
<1>2. CASE LoadLink(t)
  <2> DEFINE h == IF wide /\ platform # "c11_whole" THEN LinkHalf ELSE "ptr"
             r == [loc[t] EXCEPT !.got[h] = word[h], !.pc = "answer"]
  <2>1. h \in Halves /\ loc[t].call.op = "link"
    BY <1>2, Ready DEF LoadLink, LinkHalf, Halves, At, ControlOK
  <2>2. /\ Goes(t, r) /\ UNCHANGED <<platform, wide, word>>
        /\ ~At(t, "idle") /\ ~At(t, "answer") /\ ~At(t, "test") /\ ~At(t, "return")
    BY <1>2 DEF LoadLink, At
  <2> HIDE DEF h
  <2>3. /\ r.stage = loc[t].stage /\ r.call = loc[t].call
        /\ r.got = [loc[t].got EXCEPT ![h] = word[h]]
    BY Ready DEF Registers
  <2> HIDE DEF r
  <2> QED
    BY <2>1, <2>2, <2>3, ReadSees
<1>3. CASE LoadLinked(t)
  <2> DEFINE h == First(loc[t].call)
             r == [loc[t] EXCEPT !.got[h] = word[h], !.pc = "loadOther"]
  <2>1. tearing /\ h \in Halves
    BY <1>3, Ready, CallFacts DEF LoadLinked, At, ControlOK, tearing, CmpxchgFull
  <2>2. /\ Goes(t, r) /\ UNCHANGED <<platform, wide, word>>
        /\ ~At(t, "idle") /\ ~At(t, "answer") /\ ~At(t, "test") /\ ~At(t, "return")
    BY <1>3 DEF LoadLinked, At
  <2> HIDE DEF h
  <2>3. /\ r.stage = loc[t].stage /\ r.call = loc[t].call
        /\ r.got = [loc[t].got EXCEPT ![h] = word[h]]
    BY Ready DEF Registers
  <2> HIDE DEF r
  <2> QED
    BY <2>1, <2>2, <2>3, ReadSees
<1>4. CASE LoadOther(t)
  <2> DEFINE k == Other(First(loc[t].call))
             pair == [loc[t].got EXCEPT ![k] = word[k]]
             res == IF platform = "ppc" THEN PpcCompared(loc[t].call, pair)
                    ELSE MipsCompared(loc[t].call, pair, loc[t].res)
             r == [loc[t] EXCEPT !.got = pair, !.res = res,
                                 !.pc = IF Matches(loc[t].call, pair) THEN "store" ELSE "test"]
  <2>1. tearing /\ k \in Halves
    BY <1>4, Ready, CallFacts DEF LoadOther, At, ControlOK, tearing, CmpxchgFull
  <2>2. /\ Goes(t, r) /\ UNCHANGED <<platform, wide, word>>
        /\ ~At(t, "idle") /\ ~At(t, "answer") /\ ~At(t, "test") /\ ~At(t, "return")
    BY <1>4 DEF LoadOther, At
  <2> HIDE DEF k, res
  <2>3. /\ r.stage = loc[t].stage /\ r.call = loc[t].call
        /\ r.got = [loc[t].got EXCEPT ![k] = word[k]]
    BY Ready DEF Registers
  <2> HIDE DEF r
  <2> QED
    BY <2>1, <2>2, <2>3, ReadSees
<1> QED
  BY <1>1, <1>2, <1>3, <1>4

LEMMA LoadHalfSees ==
    ASSUME IInv, NEW t \in Threads, NEW h \in Halves, LoadHalf(t, h) PROVE Whole!Next
<1> DEFINE p == IF loc[t].got[Other(h)] = Unread THEN "load"
                ELSE IF loc[t].call.op = "add" THEN "addCas" ELSE "answer"
           r == [loc[t] EXCEPT !.got[h] = word[h], !.pc = p]
<1>1. /\ Goes(t, r) /\ UNCHANGED <<platform, wide, word>>
      /\ ~At(t, "idle") /\ ~At(t, "answer") /\ ~At(t, "test") /\ ~At(t, "return")
  BY DEF LoadHalf, At
<1>2. tearing
  BY Ready DEF LoadHalf, At, ControlOK, tearing
<1> HIDE DEF p
<1>3. /\ r.stage = loc[t].stage /\ r.call = loc[t].call
      /\ r.got = [loc[t].got EXCEPT ![h] = word[h]]
  BY Ready DEF Registers
<1> HIDE DEF r
<1> QED
  BY <1>1, <1>2, <1>3, ReadSees

\* The steps at which an operation takes effect.
LEMMA WriteSees ==
    ASSUME IInv, NEW t \in Threads, CasHits(t) \/ AddOnce(t) PROVE Whole!Next
<1> DEFINE r == [loc[t] EXCEPT !.stage = "took", !.got = word, !.pc = "answer"]
<1>1. Goes(t, r) /\ UNCHANGED <<platform, wide>>
  BY DEF CasHits, AddOnce
<1>2. r.stage = "took" /\ r.call = loc[t].call /\ r.got = word
  BY Ready DEF Registers
<1>3. /\ loc[t].stage = "called"
      /\ \/ loc[t].call.op = "add" /\ word' = Added(word, loc[t].call.arg)
         \/ IsCas(loc[t].call) /\ word = loc[t].call.want /\ word' = loc[t].call.new
  BY Ready DEF CasHits, AddOnce, At, ControlOK, Stages
<1> HIDE DEF r
<1> QED
  BY <1>1, <1>2, <1>3, Takes

LEMMA AddCasSees == ASSUME IInv, NEW t \in Threads, AddCas(t) PROVE Whole!Next
<1>1. loc[t].stage = "called" /\ loc[t].call.op = "add"
  BY Ready DEF AddCas, At, ControlOK, Stages
<1>2. CASE word = loc[t].got
  <2> DEFINE r == [loc[t] EXCEPT !.stage = "took", !.pc = "answer"]
  <2>1. /\ Goes(t, r) /\ UNCHANGED <<platform, wide>>
        /\ word' = Added(word, loc[t].call.arg)
    BY <1>2 DEF AddCas
  <2>2. r.stage = "took" /\ r.call = loc[t].call /\ r.got = word
    BY <1>2, Ready DEF Registers
  <2> HIDE DEF r
  <2> QED
    BY <1>1, <2>1, <2>2, Takes
<1>3. CASE word # loc[t].got
  <2> DEFINE r == [loc[t] EXCEPT !.got = word]
  <2>1. Goes(t, r) /\ UNCHANGED <<platform, wide, word>>
    BY <1>3 DEF AddCas
  <2>2. r.stage = loc[t].stage /\ r.call = loc[t].call /\ r.got = word
    BY Ready DEF Registers
  <2> HIDE DEF r
  <2> QED
    BY <1>1, <2>1, <2>2, Reads
<1> QED
  BY <1>2, <1>3

\* The half that a store-conditional writes makes the whole pair the new one.
LEMMA StoreSees == ASSUME IInv, NEW t \in Threads, StoreConditional(t) PROVE Whole!Next
<1> DEFINE c == loc[t].call
           r == [loc[t] EXCEPT !.stage = "took", !.res = 1, !.pc = "test"]
<1>1. /\ loc[t].got = word /\ Matches(c, word) /\ First(c) \in Halves /\ ~CmpxchgFull
      /\ c.op = "add" \/ IsCas(c)
  BY StoredPair
<1>2. /\ Goes(t, r) /\ UNCHANGED <<platform, wide>>
      /\ word' = [word EXCEPT ![First(c)] = NewHalf(t)]
  BY DEF StoreConditional
<1>3. r.stage = "took" /\ r.call = c /\ r.got = word
  BY <1>1, Ready DEF Registers
<1>4. loc[t].stage = "called"
  BY Ready DEF StoreConditional, At, ControlOK, Stages
<1>5. CASE c.op = "add"
  <2>1. word' = Added(word, c.arg)
    BY <1>1, <1>2, <1>5 DEF Added, NewHalf, First
  <2> HIDE DEF r
  <2> QED
    BY <1>2, <1>3, <1>4, <1>5, <2>1, Takes
<1>6. CASE c.op # "add"
  <2>1. /\ IsCas(c) /\ word = c.want /\ c.new \in Pair
        /\ c.new[Other(First(c))] = c.want[Other(First(c))]
        /\ \A x \in Halves : x = First(c) \/ x = Other(First(c))
        /\ First(c) # Other(First(c)) /\ Other(First(c)) \in Halves
    BY <1>1, <1>6, Ready, CallFacts DEF Matches
  <2>2. word' \in [Halves -> Word] /\ \A x \in Halves : word'[x] = c.new[x]
    BY <1>1, <1>2, <1>6, <2>1, Ready DEF NewHalf, Pair
  <2>3. word' = c.new
    BY <2>1, <2>2 DEF Pair
  <2> HIDE DEF r
  <2> QED
    BY <1>2, <1>3, <1>4, <2>1, <2>3, Takes
<1> QED
  BY <1>5, <1>6

LEMMA StoreFailsSees ==
    ASSUME IInv, NEW t \in Threads, StoreFails(t) PROVE UNCHANGED Whole!vars
<1> DEFINE again == loc[t].call.op = "add" \/ ~loc[t].call.weak
           r == [loc[t] EXCEPT !.res = 0, !.pc = IF again THEN "loadLinked" ELSE "test"]
<1>1. Goes(t, r) /\ UNCHANGED <<platform, wide, word>>
  BY DEF StoreFails
<1>2. r.stage = loc[t].stage /\ r.call = loc[t].call /\ r.got = loc[t].got
  BY Ready DEF Registers
<1> HIDE DEF r
<1> QED
  BY <1>1, <1>2, Stutters

LEMMA InitSees == Init => Whole!Init
<1> SUFFICES ASSUME Init PROVE Whole!Init
  OBVIOUS
<1>1. \A t \in Threads : loc[t] = Idle
  BY DEF Init
<1>2. Nothing = Whole!Nothing /\ word = [ref |-> 0, ptr |-> 0]
  BY Constants DEF Init, Nothing, Whole!Nothing
<1>3. (wide /\ platform # "c11_whole") \in BOOLEAN
  BY DEF Init
<1> QED
  BY <1>1, <1>2, <1>3 DEF Init, Whole!Init, Idle, Whole!NoCall

LEMMA StepSees ==
    ASSUME EndianMacro = LittleEndian, IInv, [Next]_vars
    PROVE  [Whole!Next]_(Whole!vars)
<1>1. CASE Next
  <2>1. PICK t \in Threads : Step(t)
    BY <1>1 DEF Next
  <2> QED
    BY <2>1, CallSees, ReturnSees, AnswerSees, LoadSees, LoadHalfSees, WriteSees, AddCasSees,
       StoreSees, StoreFailsSees, TestSees DEF Step
<1>2. CASE UNCHANGED vars
  BY <1>2 DEF vars, Whole!vars
<1> QED
  BY <1>1, <1>2

\* Every operation takes effect on the whole pair, in one instant, and reports
\* what it found, on each platform on which the compiler's macro for the byte
\* order is right.
THEOREM Implements == ASSUME EndianMacro = LittleEndian PROVE Spec => ImplementsAtomicPair
<1>1. IInv /\ [Next]_vars => [Whole!Next]_(Whole!vars)
  BY StepSees
<1> QED
  BY <1>1, InitSees, Invariance, PTL DEF Spec, ImplementsAtomicPair, Whole!Spec
=============================================================================
