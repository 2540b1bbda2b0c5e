--------------------------- MODULE HyalineSThreads ---------------------------
(***************************************************************************)
(* The part of the proof about Hyaline-S that looks at one thread at a     *)
(* time: what each step does to its locals, that the step is one of        *)
(* Hyaline or leaves its slots, lists and counters as they are, and that   *)
(* every step keeps the types and the locals of every thread in agreement  *)
(* with where it is.                                                       *)
(***************************************************************************)
EXTENDS HyalineS, HyalineLemmas, FiniteSetTheorems

\* The assumptions on the constants as the lemmas need them.
LEMMA Constants ==
    /\ NULL \notin Batches
    /\ NumSlots \in Nat \ {0} /\ Slots = 0 .. NumSlots - 1 /\ IsFiniteSet(Slots)
    /\ IsFiniteSet(Threads) /\ Cardinality(Threads) \in Nat
    /\ Mod \in Nat \ {0} /\ MaxEpoch \in Nat /\ StallThreshold \in Nat \ {0}
    /\ TrimThresholds \subseteq Nat /\ CmpxchgFull \in BOOLEAN
    /\ 0 \in Slots /\ 0 \in Word /\ 0 \in Epoch /\ NULL \in Ptr
    /\ Empty \in HeadWord /\ Empty.refs = 0 /\ Empty.ptr = NULL /\ Addend \in Word
<1>1. IsFiniteSet(Slots) /\ 0 \in Slots
  BY HyalineSAssumption, FS_Interval DEF Slots
<1>2. Cardinality(Threads) \in Nat
  BY HyalineSAssumption, FS_CardinalityType
<1>3. Addend \in Word
  <2> DEFINE q == Mod \div NumSlots
  <2>1. /\ Mod \in Nat \ {0} /\ NumSlots \in Nat \ {0}
        /\ q \in Nat \ {0} /\ Mod = NumSlots * q /\ (Mod - 1) \div NumSlots + 1 = q
    BY HyalineSAssumption, Division
  <2> HIDE DEF q
  <2>2. q <= Mod
    BY <2>1
  <2> QED
    BY <2>1, <2>2 DEF Addend, Word
<1> QED
  BY <1>1, <1>2, <1>3, HyalineSAssumption DEF Slots, Word, Epoch, Ptr, Empty, HeadWord

Local == Locals(HeadWord, Labels)
Ops == {"none", "enter", "leave", "trim", "nested", "trimLeft", "deref", "retire"}

\* The types of the locals.
LEMMA Fields ==
    ASSUME NEW l \in Local
    PROVE  /\ l.inside \in BOOLEAN /\ l.holds \in SUBSET Batches /\ l.vec \in Slots
           /\ l.smr \in Ptr /\ l.pc \in Labels /\ l.op \in Ops
           /\ l.walk \in Walk /\ l.outer \in Walk /\ l.thr \in Nat
           /\ l.list \in SUBSET Batches /\ l.value \in Ptr
           /\ l.acc \in Epoch /\ l.glob \in Epoch /\ l.batch \in Ptr /\ l.min \in Epoch
           /\ l.slot \in Slots /\ l.last \in HeadWord /\ l.adjs \in Word
           /\ l.doAdjs \in BOOLEAN /\ l.into \in SUBSET Slots
BY DEF Local, Locals, Ops

\* The types of the locals of a walk.
LEMMA WalkFields ==
    /\ NoWalk \in Walk
    /\ \A w \in Walk : w.curr \in Ptr /\ w.nxt \in Ptr /\ w.end \in Ptr /\ w.counter \in Nat
BY DEF Walk, NoWalk, Ptr

\* A thread between two calls has locals of the right types.
LEMMA BetweenType == Between(Empty) \in Local
BY Constants DEF Between, Local, Locals, NoWalk, Walk, Labels, Ptr

\* The types hold initially.
LEMMA InitType == Init => TypeOK
<1> SUFFICES ASSUME Init PROVE TypeOK
  OBVIOUS
<1>1. ASSUME NEW s \in Slots PROVE [Between(Empty) EXCEPT !.vec = s] \in Local
  BY <1>1, BetweenType DEF Local, Locals
<1>2. loc \in [Threads -> Local]
  BY <1>1 DEF Init
<1>3. <<>> \in Seq(Batches)
  OBVIOUS
<1> QED
  BY <1>2, <1>3, Constants DEF Init, TypeOK, Local

\* What a step leaves of the other threads' locals.
Others(t) == \A u \in Threads : u # t => loc'[u] = loc[u]
Moves(t) == loc' \in [Threads -> Local] /\ Others(t)

\* A step that assigns the locals of one thread.
LEMMA GoesTo ==
    ASSUME TypeOK, NEW t \in Threads, NEW l \in Local, Goes(t, l)
    PROVE  loc'[t] = l /\ Moves(t)
BY DEF TypeOK, Goes, Local, Others, Moves

-----------------------------------------------------------------------------
(* What each step does to the locals of its thread.                        *)

\* The locals that only some of the calls change.
SameClient(l, m) ==
    m.inside = l.inside /\ m.holds = l.holds /\ m.vec = l.vec /\ m.smr = l.smr
SameWalks(l, m) == m.walk = l.walk /\ m.outer = l.outer /\ m.thr = l.thr
SameDeref(l, m) == m.value = l.value /\ m.acc = l.acc /\ m.glob = l.glob
SameRetire(l, m) ==
    /\ m.batch = l.batch /\ m.min = l.min /\ m.slot = l.slot
    /\ m.adjs = l.adjs /\ m.doAdjs = l.doAdjs /\ m.into = l.into

-----------------------------------------------------------------------------
(* What the parts of the calls do to the locals.                           *)

\* traverse or __leave has returned.
Returned(l, m) ==
    /\ SameClient(l, m) /\ SameDeref(l, m) /\ SameRetire(l, m) /\ m.list = l.list
    /\ l.op = "nested" =>
         /\ m.op = "trimLeft" /\ m.thr = 0 /\ m.walk = l.outer /\ m.outer = NoWalk
         /\ m.pc = IF l.outer.curr = l.outer.end THEN "ack" ELSE "travRead"
    /\ l.op # "nested" =>
         /\ m.op = l.op /\ m.thr = l.thr /\ m.walk = NoWalk /\ m.outer = l.outer
         /\ m.pc = "free"

\* A walk that returns ends its call, or goes back to the trim around it.
LEMMA ReturnIs ==
    ASSUME NEW l \in Local
    PROVE  /\ Return(l) \in Local /\ Returned(l, Return(l)) /\ Return(l).last = l.last
<1>1. NoWalk \in Walk /\ 0 \in Nat /\ l.outer \in Walk
  BY WalkFields, Fields
<1>2. CASE l.op = "nested"
  <2> DEFINE p == IF l.outer.curr = l.outer.end THEN "ack" ELSE "travRead"
             m == [l EXCEPT !.op = "trimLeft", !.thr = 0, !.walk = l.outer,
                            !.outer = NoWalk, !.pc = p]
  <2>1. Return(l) = m
    BY <1>2 DEF Return
  <2>2. p \in Labels
    BY DEF Labels
  <2> HIDE DEF p
  <2>3. m \in Local
    BY <1>1, <2>2 DEF Local, Locals
  <2>4. /\ m.op = "trimLeft" /\ m.walk = l.outer /\ m.pc = p /\ m.list = l.list
        /\ m.thr = 0 /\ m.outer = NoWalk /\ m.last = l.last
        /\ SameClient(l, m) /\ SameDeref(l, m) /\ SameRetire(l, m)
    BY <1>2 DEF Local, Locals, SameClient, SameDeref, SameRetire
  <2> QED
    BY <1>2, <2>1, <2>3, <2>4 DEF p, Returned
<1>3. CASE l.op # "nested"
  <2> DEFINE m == [l EXCEPT !.walk = NoWalk, !.pc = "free"]
  <2>1. Return(l) = m
    BY <1>3 DEF Return
  <2>2. m \in Local
    BY <1>1 DEF Local, Locals, Labels
  <2>3. /\ m.op = l.op /\ m.outer = l.outer /\ m.pc = "free" /\ m.list = l.list
        /\ m.thr = l.thr /\ m.walk = NoWalk /\ m.last = l.last
        /\ SameClient(l, m) /\ SameDeref(l, m) /\ SameRetire(l, m)
    BY <1>3 DEF Local, Locals, SameClient, SameDeref, SameRetire
  <2> QED
    BY <1>3, <2>1, <2>2, <2>3 DEF Returned
<1> QED
  BY <1>2, <1>3

\* The walk is over but for the acknowledgement.
Ended(l, m) ==
    /\ SameClient(l, m) /\ SameDeref(l, m) /\ SameRetire(l, m) /\ m.list = l.list
    /\ m.last = l.last /\ m.op = l.op /\ m.thr = l.thr /\ m.outer = l.outer
    /\ m.pc = "ack" /\ m.walk.counter = l.walk.counter
    /\ m.walk.curr = NULL /\ m.walk.nxt = NULL /\ m.walk.end = NULL

\* A walk that is over goes on to the acknowledgement.
LEMMA ToAckIs ==
    ASSUME NEW l \in Local
    PROVE  ToAck(l) \in Local /\ Ended(l, ToAck(l))
<1> DEFINE w == [NoWalk EXCEPT !.counter = l.walk.counter]
<1>1. /\ w \in Walk
      /\ w.curr = NULL /\ w.nxt = NULL /\ w.end = NULL /\ w.counter = l.walk.counter
  BY Fields, WalkFields DEF Walk, NoWalk
<1> HIDE DEF w
<1>2. ToAck(l) = [l EXCEPT !.pc = "ack", !.walk = w]
  BY DEF ToAck, w
<1>3. [l EXCEPT !.pc = "ack", !.walk = w] \in Local
  BY <1>1 DEF Local, Locals, Labels
<1> QED
  BY <1>1, <1>2, <1>3 DEF Local, Locals, Ended, SameClient, SameDeref, SameRetire

\* The head word w has been loaded.
Loaded(l, m, w) ==
    /\ SameClient(l, m) /\ SameWalks(l, m) /\ SameDeref(l, m) /\ SameRetire(l, m)
    /\ m.list = l.list /\ m.op = l.op /\ m.last = w
    /\ m.pc = IF w.ptr # l.smr THEN "leaveRead" ELSE "leaveCas"

\* leave has loaded the head of its slot.
LEMMA HeadLoadedIs ==
    ASSUME NEW l \in Local, NEW w \in HeadWord
    PROVE  HeadLoaded(l, w) \in Local /\ Loaded(l, HeadLoaded(l, w), w)
<1> DEFINE p == IF w.ptr # l.smr THEN "leaveRead" ELSE "leaveCas"
           m == [l EXCEPT !.last = w, !.pc = p]
<1>1. HeadLoaded(l, w) = m /\ p \in Labels
  BY DEF HeadLoaded, Labels
<1> HIDE DEF p
<1>2. m \in Local
  BY <1>1 DEF Local, Locals
<1>3. /\ m.list = l.list /\ m.op = l.op /\ m.last = w /\ m.pc = p
      /\ SameClient(l, m) /\ SameWalks(l, m) /\ SameDeref(l, m) /\ SameRetire(l, m)
  BY <1>1 DEF Local, Locals, SameClient, SameWalks, SameDeref, SameRetire
<1> QED
  BY <1>1, <1>2, <1>3 DEF Loaded, p

\* The tail of __leave.
Traversed(l, m) ==
    /\ m.last = Empty
    /\ l.last.ptr # l.smr =>
         /\ SameClient(l, m) /\ SameDeref(l, m) /\ SameRetire(l, m) /\ m.list = l.list
         /\ m.op = l.op /\ m.thr = l.thr /\ m.outer = l.outer /\ m.pc = "travRead"
         /\ m.walk.curr = l.walk.curr /\ m.walk.nxt = l.walk.nxt
         /\ m.walk.end = l.smr /\ m.walk.counter = l.walk.counter
    /\ l.last.ptr = l.smr => Returned(l, m)

\* leave walks down to its handle, or has nothing to walk.
LEMMA LeaveTraverseIs ==
    ASSUME NEW l \in Local
    PROVE  LeaveTraverse(l) \in Local /\ Traversed(l, LeaveTraverse(l))
<1> DEFINE e == [l EXCEPT !.last = Empty]
           m == [e EXCEPT !.walk.end = l.smr, !.pc = "travRead"]
<1>1. e \in Local
  BY Constants DEF Local, Locals
<1>2. /\ e.last = Empty /\ e.op = l.op /\ e.list = l.list
      /\ SameClient(l, e) /\ SameWalks(l, e) /\ SameDeref(l, e) /\ SameRetire(l, e)
  BY DEF Local, Locals, SameClient, SameWalks, SameDeref, SameRetire
<1>3. LeaveTraverse(l) = IF l.last.ptr # l.smr THEN m ELSE Return(e)
  BY Zenon DEF LeaveTraverse
<1>4. l.smr \in Ptr /\ e.walk \in Walk
  BY <1>1, Fields
<1> HIDE DEF e
<1>5. CASE l.last.ptr # l.smr
  <2>1. m \in Local
    BY <1>1, <1>4, ZenonT(60) DEF Local, Locals, Labels, Walk
  <2>2. /\ m.last = e.last /\ m.op = e.op /\ m.list = e.list /\ m.outer = e.outer
        /\ m.thr = e.thr /\ m.pc = "travRead"
        /\ SameClient(e, m) /\ SameDeref(e, m) /\ SameRetire(e, m)
    BY <1>1 DEF Local, Locals, SameClient, SameDeref, SameRetire
  <2>3. /\ m.walk.curr = e.walk.curr /\ m.walk.nxt = e.walk.nxt
        /\ m.walk.end = l.smr /\ m.walk.counter = e.walk.counter
    BY <1>1, <1>4 DEF Local, Locals, Walk
  <2> HIDE DEF m
  <2> QED
    BY <1>2, <1>3, <1>5, <2>1, <2>2, <2>3
    DEF Traversed, SameClient, SameWalks, SameDeref, SameRetire
<1>6. CASE l.last.ptr = l.smr
  BY <1>1, <1>2, <1>3, <1>6, ReturnIs
  DEF Traversed, Returned, SameClient, SameWalks, SameDeref, SameRetire
<1> QED
  BY <1>5, <1>6

\* The loop of retire goes on to the next slot, or ends, d being do_adjs.
Advanced(l, m, d) ==
    /\ SameClient(l, m) /\ SameWalks(l, m) /\ SameDeref(l, m) /\ m.list = l.list
    /\ m.op = l.op /\ m.batch = l.batch /\ m.min = l.min /\ m.into = l.into
    /\ m.last = Empty
    /\ \/ l.slot + 1 < NumSlots /\ m.slot = l.slot + 1 /\ m.pc = "retireAccess"
       \/ /\ l.slot + 1 = NumSlots /\ m.slot = l.slot
          /\ m.pc = IF d THEN "retireFinish" ELSE "free"

\* The loop of retire goes on to the next slot.
LEMMA NextSlotIs ==
    ASSUME NEW l \in Local
    PROVE  /\ NextSlot(l) \in Local /\ Advanced(l, NextSlot(l), l.doAdjs)
           /\ NextSlot(l).adjs = l.adjs /\ NextSlot(l).doAdjs = l.doAdjs
<1>1. l.slot \in 0 .. NumSlots - 1 /\ NumSlots \in Nat \ {0} /\ Empty \in HeadWord
  BY Fields, Constants
<1>2. CASE l.slot + 1 < NumSlots
  <2> DEFINE s == l.slot + 1
             m == [l EXCEPT !.last = Empty, !.slot = s, !.pc = "retireAccess"]
  <2>1. NextSlot(l) = m
    BY <1>2 DEF NextSlot
  <2>2. s \in Slots
    BY <1>1, <1>2, Constants
  <2> HIDE DEF s
  <2>3. m \in Local
    BY <1>1, <2>2 DEF Local, Locals, Labels
  <2>4. /\ m.slot = s /\ m.pc = "retireAccess" /\ m.adjs = l.adjs /\ m.doAdjs = l.doAdjs
        /\ m.list = l.list /\ m.op = l.op /\ m.batch = l.batch /\ m.min = l.min
        /\ m.into = l.into /\ m.last = Empty
        /\ SameClient(l, m) /\ SameWalks(l, m) /\ SameDeref(l, m)
    BY DEF Local, Locals, SameClient, SameWalks, SameDeref
  <2> QED
    BY <1>2, <2>1, <2>3, <2>4 DEF s, Advanced
<1>3. CASE ~(l.slot + 1 < NumSlots)
  <2> DEFINE p == IF l.doAdjs THEN "retireFinish" ELSE "free"
             m == [l EXCEPT !.last = Empty, !.pc = p]
  <2>1. NextSlot(l) = m
    BY <1>3 DEF NextSlot
  <2>2. p \in Labels
    BY DEF Labels
  <2> HIDE DEF p
  <2>3. m \in Local
    BY <1>1, <2>2 DEF Local, Locals
  <2>4. /\ m.slot = l.slot /\ m.pc = p /\ m.adjs = l.adjs /\ m.doAdjs = l.doAdjs
        /\ m.list = l.list /\ m.op = l.op /\ m.batch = l.batch /\ m.min = l.min
        /\ m.into = l.into /\ m.last = Empty
        /\ SameClient(l, m) /\ SameWalks(l, m) /\ SameDeref(l, m)
    BY DEF Local, Locals, SameClient, SameWalks, SameDeref
  <2>5. l.slot + 1 = NumSlots
    BY <1>1, <1>3
  <2> QED
    BY <2>1, <2>3, <2>4, <2>5 DEF p, Advanced
<1> QED
  BY <1>2, <1>3

\* The slot has been passed by.
Passed(l, m) == Advanced(l, m, TRUE) /\ m.adjs = AddW(l.adjs, Addend) /\ m.doAdjs = TRUE

\* The loop of retire passes a slot by.
LEMMA PassByIs ==
    ASSUME NEW l \in Local
    PROVE  PassBy(l) \in Local /\ Passed(l, PassBy(l))
<1> DEFINE a == AddW(l.adjs, Addend)
           k == [l EXCEPT !.adjs = a, !.doAdjs = TRUE]
<1>1. PassBy(l) = NextSlot(k)
  BY DEF PassBy
<1>2. a \in Word
  BY Fields, WordClosed, Constants
<1> HIDE DEF a
<1>3. k \in Local
  BY <1>2 DEF Local, Locals
<1>4. /\ k.adjs = a /\ k.doAdjs = TRUE /\ k.slot = l.slot /\ k.list = l.list
      /\ k.op = l.op /\ k.batch = l.batch /\ k.min = l.min /\ k.into = l.into
      /\ SameClient(l, k) /\ SameWalks(l, k) /\ SameDeref(l, k)
  BY DEF Local, Locals, SameClient, SameWalks, SameDeref
<1> HIDE DEF k
<1> QED
  BY <1>1, <1>3, <1>4, NextSlotIs DEF Passed, Advanced, SameClient, SameWalks, SameDeref, a

\* The head word w of the slot has been loaded: the slot is passed by, or its
\* compare-and-swap comes next.
Tried(l, m, w) ==
    /\ w.refs = 0 => Passed(l, m)
    /\ w.refs # 0 =>
         /\ SameClient(l, m) /\ SameWalks(l, m) /\ SameDeref(l, m) /\ SameRetire(l, m)
         /\ m.list = l.list /\ m.op = l.op /\ m.last = w /\ m.pc = "retireCas"

\* The loop of retire tries a slot by the head it has loaded.
LEMMA TrySlotIs ==
    ASSUME NEW l \in Local, NEW w \in HeadWord
    PROVE  TrySlot(l, w) \in Local /\ Tried(l, TrySlot(l, w), w)
<1>1. CASE w.refs = 0
  BY <1>1, PassByIs DEF TrySlot, Tried
<1>2. CASE w.refs # 0
  <2> DEFINE m == [l EXCEPT !.last = w, !.pc = "retireCas"]
  <2>1. TrySlot(l, w) = m
    BY <1>2 DEF TrySlot
  <2>2. m \in Local
    BY DEF Local, Locals, Labels
  <2>3. /\ m.pc = "retireCas" /\ m.last = w /\ m.op = l.op /\ m.list = l.list
        /\ SameClient(l, m) /\ SameWalks(l, m) /\ SameDeref(l, m) /\ SameRetire(l, m)
    BY DEF Local, Locals, SameClient, SameWalks, SameDeref, SameRetire
  <2> QED
    BY <1>2, <2>1, <2>2, <2>3 DEF Tried
<1> QED
  BY <1>1, <1>2


\* deref begins with the epoch its slot has published.
LEMMA DerefDoes ==
    ASSUME TypeOK, NEW t \in Threads, Deref(t)
    PROVE  /\ Moves(t) /\ loc[t].pc = "idle" /\ loc[t].inside
           /\ loc'[t].pc = "derefLoad" /\ loc'[t].op = "deref"
           /\ loc'[t].last = loc[t].last /\ loc'[t].list = loc[t].list
           /\ SameClient(loc[t], loc'[t]) /\ SameWalks(loc[t], loc'[t])
           /\ loc'[t].value = loc[t].value /\ loc'[t].acc = access[loc[t].vec]
           /\ loc'[t].glob = loc[t].glob /\ SameRetire(loc[t], loc'[t])
<1> DEFINE x == access[loc[t].vec]
           l == [loc[t] EXCEPT !.op = "deref", !.pc = "derefLoad", !.acc = x]
<1>1. /\ Goes(t, l) /\ loc[t].pc = "idle" /\ loc[t].inside
  BY DEF Deref, At
<1>2. loc[t] \in Local /\ x \in Epoch
  BY Fields, Constants DEF TypeOK, Local
<1> HIDE DEF x
<1>3. l \in Local
  BY <1>2 DEF Local, Locals, Labels
<1>4. /\ l.pc = "derefLoad" /\ l.op = "deref" /\ l.last = loc[t].last
      /\ l.list = loc[t].list /\ SameClient(loc[t], l) /\ SameWalks(loc[t], l)
      /\ l.value = loc[t].value /\ l.acc = x /\ l.glob = loc[t].glob
      /\ SameRetire(loc[t], l)
  BY <1>2 DEF Local, Locals, SameClient, SameWalks, SameDeref, SameRetire
<1> HIDE DEF l
<1> QED
  BY <1>1, <1>2, <1>3, <1>4, GoesTo DEF SameClient, SameWalks, SameDeref, SameRetire, x

\* deref loads the pointer.
LEMMA DerefLoadDoes ==
    ASSUME TypeOK, NEW t \in Threads, DerefLoad(t)
    PROVE  /\ Moves(t) /\ loc[t].pc = "derefLoad" /\ loc'[t].pc = "derefEpoch"
           /\ loc'[t].op = loc[t].op /\ loc'[t].last = loc[t].last
           /\ loc'[t].list = loc[t].list /\ SameClient(loc[t], loc'[t])
           /\ SameWalks(loc[t], loc'[t]) /\ loc'[t].value = root
           /\ loc'[t].acc = loc[t].acc /\ loc'[t].glob = loc[t].glob
           /\ SameRetire(loc[t], loc'[t])
<1> DEFINE l == [loc[t] EXCEPT !.value = root, !.pc = "derefEpoch"]
<1>1. /\ Goes(t, l) /\ loc[t].pc = "derefLoad"
  BY DEF DerefLoad, At
<1>2. loc[t] \in Local /\ root \in Ptr
  BY DEF TypeOK, Local
<1>3. l \in Local
  BY <1>2 DEF Local, Locals, Labels
<1>4. /\ l.pc = "derefEpoch" /\ l.op = loc[t].op /\ l.last = loc[t].last
      /\ l.list = loc[t].list /\ SameClient(loc[t], l) /\ SameWalks(loc[t], l)
      /\ l.value = root /\ l.acc = loc[t].acc /\ l.glob = loc[t].glob
      /\ SameRetire(loc[t], l)
  BY <1>2 DEF Local, Locals, SameClient, SameWalks, SameDeref, SameRetire
<1> HIDE DEF l
<1> QED
  BY <1>1, <1>2, <1>3, <1>4, GoesTo DEF SameClient, SameWalks, SameDeref, SameRetire

\* One round of the search for a slot: it ends at a slot with little to
\* acknowledge, or goes on from one with more to another than the thread's own.
LEMMA EnterLookDoes ==
    ASSUME TypeOK, NEW t \in Threads, EnterLook(t)
    PROVE  /\ Moves(t)
           /\ (loc[t].pc = "idle" /\ ~loc[t].inside) \/ loc[t].pc \in {"reenter", "enterLook"}
           /\ loc'[t].last = loc[t].last /\ loc'[t].list = loc[t].list
           /\ SameClient(loc[t], loc'[t]) /\ SameWalks(loc[t], loc'[t])
           /\ SameDeref(loc[t], loc'[t]) /\ loc'[t].batch = loc[t].batch
           /\ loc'[t].min = loc[t].min /\ loc'[t].adjs = loc[t].adjs
           /\ loc'[t].doAdjs = loc[t].doAdjs /\ loc'[t].into = loc[t].into
           /\ loc'[t].op = "enter"
           /\ LET i == IF loc[t].pc = "enterLook" THEN loc[t].slot ELSE loc[t].vec IN
              \/ loc'[t].pc = "enterAdd" /\ loc'[t].slot = i
              \/ /\ loc'[t].pc = "enterLook" /\ loc'[t].slot # loc[t].vec
                 /\ counter[i] >= StallThreshold
<1> DEFINE i == IF loc[t].pc = "enterLook" THEN loc[t].slot ELSE loc[t].vec
           j == (i + 1) % NumSlots
           near == j = loc[t].vec \/ counter[i] < StallThreshold
           m == [loc[t] EXCEPT !.op = "enter", !.slot = i, !.pc = "enterAdd"]
           n == [loc[t] EXCEPT !.op = "enter", !.slot = j, !.pc = "enterLook"]
<1>1. /\ Goes(t, IF near THEN m ELSE n)
      /\ (loc[t].pc = "idle" /\ ~loc[t].inside) \/ loc[t].pc \in {"reenter", "enterLook"}
  BY Zenon DEF EnterLook, At
<1>2. loc[t] \in Local /\ i \in Slots /\ j \in Slots /\ counter[i] \in Int
  <2>1. loc[t] \in Local
    BY DEF TypeOK, Local
  <2>2. i \in 0 .. NumSlots - 1
    BY <2>1, Fields, Constants
  <2> HIDE DEF i
  <2> QED
    BY <2>1, <2>2, Constants DEF TypeOK
<1>3. ~near => counter[i] >= StallThreshold /\ j # loc[t].vec
  BY <1>2, Constants
<1> HIDE DEF i, j, near
<1>4. CASE near
  <2>1. m \in Local
    BY <1>2 DEF Local, Locals, Labels
  <2>2. /\ m.pc = "enterAdd" /\ m.op = "enter" /\ m.last = loc[t].last
        /\ m.list = loc[t].list /\ SameClient(loc[t], m) /\ SameWalks(loc[t], m)
        /\ SameDeref(loc[t], m) /\ m.batch = loc[t].batch /\ m.min = loc[t].min
        /\ m.slot = i /\ m.adjs = loc[t].adjs /\ m.doAdjs = loc[t].doAdjs
        /\ m.into = loc[t].into
    BY <1>2 DEF Local, Locals, SameClient, SameWalks, SameDeref
  <2> HIDE DEF m
  <2>3. loc'[t] = m /\ Moves(t)
    BY <1>1, <1>4, <2>1, GoesTo
  <2> QED
    BY <1>1, <2>2, <2>3 DEF SameClient, SameWalks, SameDeref, i
<1>5. CASE ~near
  <2>1. n \in Local
    BY <1>2 DEF Local, Locals, Labels
  <2>2. /\ n.pc = "enterLook" /\ n.op = "enter" /\ n.last = loc[t].last
        /\ n.list = loc[t].list /\ SameClient(loc[t], n) /\ SameWalks(loc[t], n)
        /\ SameDeref(loc[t], n) /\ n.batch = loc[t].batch /\ n.min = loc[t].min
        /\ n.slot = j /\ n.adjs = loc[t].adjs /\ n.doAdjs = loc[t].doAdjs
        /\ n.into = loc[t].into
    BY <1>2 DEF Local, Locals, SameClient, SameWalks, SameDeref
  <2> HIDE DEF n
  <2>3. loc'[t] = n /\ Moves(t)
    BY <1>1, <1>5, <2>1, GoesTo
  <2> QED
    BY <1>1, <1>3, <1>5, <2>2, <2>3 DEF SameClient, SameWalks, SameDeref, i
<1> QED
  BY <1>4, <1>5

\* enter counts itself in and takes the handle.
LEMMA EnterAddDoes ==
    ASSUME TypeOK, NEW t \in Threads, EnterAdd(t)
    PROVE  /\ Moves(t) /\ loc[t].pc = "enterAdd" /\ loc'[t].pc = "idle"
           /\ loc'[t].inside /\ loc'[t].vec = loc[t].slot
           /\ loc'[t].smr = head[loc[t].slot].ptr
           /\ loc'[t].op = "none" /\ loc'[t].holds = {} /\ loc'[t].walk = NoWalk
           /\ loc'[t].outer = NoWalk /\ loc'[t].thr = 0 /\ loc'[t].list = {}
           /\ loc'[t].slot = 0 /\ loc'[t].last = Empty /\ loc'[t].adjs = 0
           /\ loc'[t].doAdjs = FALSE /\ loc'[t].into = {}
<1> DEFINE k == Between(Empty)
           x == head[loc[t].slot].ptr
           y == loc[t].slot
           l == [k EXCEPT !.inside = TRUE, !.vec = y, !.smr = x]
<1>1. loc[t].pc = "enterAdd" /\ Goes(t, l)
  BY Zenon DEF EnterAdd, At
<1>2. k \in Local /\ x \in Ptr /\ y \in Slots
  BY BetweenType, Fields, Constants DEF TypeOK, Local, HeadWord
<1>3. /\ k.pc = "idle" /\ k.op = "none" /\ k.holds = {} /\ k.walk = NoWalk
      /\ k.outer = NoWalk /\ k.thr = 0 /\ k.list = {} /\ k.slot = 0 /\ k.last = Empty
      /\ k.adjs = 0 /\ k.doAdjs = FALSE /\ k.into = {}
  BY DEF Between
<1> HIDE DEF k, x, y
<1>4. l \in Local
  BY <1>2 DEF Local, Locals
<1>5. /\ l.inside /\ l.vec = y /\ l.smr = x
      /\ l.pc = "idle" /\ l.op = "none" /\ l.holds = {} /\ l.walk = NoWalk
      /\ l.outer = NoWalk /\ l.thr = 0 /\ l.list = {} /\ l.slot = 0 /\ l.last = Empty
      /\ l.adjs = 0 /\ l.doAdjs = FALSE /\ l.into = {}
  BY <1>2, <1>3 DEF Local, Locals
<1> HIDE DEF l
<1> QED
  BY <1>1, <1>4, <1>5, GoesTo DEF x, y

\* The epoch is the published one: deref returns.  Otherwise it goes on.
LEMMA DerefEpochDoes ==
    ASSUME TypeOK, NEW t \in Threads, DerefEpoch(t)
    PROVE  /\ Moves(t) /\ loc[t].pc = "derefEpoch" /\ loc'[t].last = loc[t].last
           /\ loc'[t].list = loc[t].list /\ loc'[t].inside = loc[t].inside
           /\ loc'[t].vec = loc[t].vec /\ loc'[t].smr = loc[t].smr
           /\ SameWalks(loc[t], loc'[t]) /\ SameRetire(loc[t], loc'[t])
           /\ loc[t].acc = global =>
                /\ loc'[t].pc = "idle" /\ loc'[t].op = "none"
                /\ loc'[t].holds = (loc[t].holds \union ({loc[t].value} \ {NULL}))
                /\ loc'[t].value = NULL /\ loc'[t].acc = 0 /\ loc'[t].glob = 0
           /\ loc[t].acc # global =>
                /\ loc'[t].pc = "derefAccess" /\ loc'[t].op = loc[t].op
                /\ loc'[t].holds = loc[t].holds /\ loc'[t].value = loc[t].value
                /\ loc'[t].acc = loc[t].acc /\ loc'[t].glob = global
<1> DEFINE h == (loc[t].holds \union ({loc[t].value} \ {NULL}))
           m == [loc[t] EXCEPT !.op = "none", !.pc = "idle", !.value = NULL, !.acc = 0,
                               !.glob = 0, !.holds = h]
           n == [loc[t] EXCEPT !.glob = global, !.pc = "derefAccess"]
<1>1. /\ Goes(t, IF loc[t].acc = global THEN m ELSE n) /\ loc[t].pc = "derefEpoch"
  BY DEF DerefEpoch, At
<1>2. loc[t] \in Local /\ global \in Epoch /\ 0 \in Epoch /\ NULL \in Ptr /\ h \in SUBSET Batches
  BY Fields, Constants DEF TypeOK, Local, Ptr
<1> HIDE DEF h
<1>3. CASE loc[t].acc = global
  <2>1. m \in Local
    BY <1>2 DEF Local, Locals, Labels
  <2>2. /\ m.pc = "idle" /\ m.op = "none" /\ m.last = loc[t].last
        /\ m.list = loc[t].list /\ m.inside = loc[t].inside /\ m.holds = h
        /\ m.vec = loc[t].vec /\ m.smr = loc[t].smr /\ SameWalks(loc[t], m)
        /\ m.value = NULL /\ m.acc = 0 /\ m.glob = 0 /\ SameRetire(loc[t], m)
    BY <1>2 DEF Local, Locals, SameClient, SameWalks, SameDeref, SameRetire
  <2> HIDE DEF m
  <2>3. loc'[t] = m /\ Moves(t)
    BY <1>1, <1>3, <2>1, GoesTo
  <2> QED
    BY <1>1, <1>2, <1>3, <2>2, <2>3 DEF SameClient, SameWalks, SameDeref, SameRetire, h
<1>4. CASE loc[t].acc # global
  <2>1. n \in Local
    BY <1>2 DEF Local, Locals, Labels
  <2>2. /\ n.pc = "derefAccess" /\ n.op = loc[t].op /\ n.last = loc[t].last
        /\ n.list = loc[t].list /\ SameClient(loc[t], n) /\ SameWalks(loc[t], n)
        /\ n.value = loc[t].value /\ n.acc = loc[t].acc /\ n.glob = global
        /\ SameRetire(loc[t], n)
    BY <1>2 DEF Local, Locals, SameClient, SameWalks, SameDeref, SameRetire
  <2> HIDE DEF n
  <2>3. loc'[t] = n /\ Moves(t)
    BY <1>1, <1>4, <2>1, GoesTo
  <2> QED
    BY <1>1, <1>2, <1>4, <2>2, <2>3 DEF SameClient, SameWalks, SameDeref, SameRetire, h
<1> QED
  BY <1>3, <1>4

\* The epoch is published, or another thread of the slot was there first.
LEMMA DerefAccessDoes ==
    ASSUME TypeOK, NEW t \in Threads, DerefAccess(t)
    PROVE  /\ Moves(t) /\ loc[t].pc = "derefAccess" /\ loc'[t].op = loc[t].op
           /\ loc'[t].last = loc[t].last /\ loc'[t].list = loc[t].list
           /\ SameClient(loc[t], loc'[t]) /\ SameWalks(loc[t], loc'[t])
           /\ loc'[t].value = loc[t].value /\ SameRetire(loc[t], loc'[t])
           /\ access[loc[t].vec] = loc[t].acc =>
                /\ loc'[t].pc = "derefLoad" /\ loc'[t].acc = loc[t].glob
                /\ loc'[t].glob = 0
           /\ (access[loc[t].vec] # loc[t].acc /\ access[loc[t].vec] >= loc[t].glob) =>
                /\ loc'[t].pc = "derefLoad" /\ loc'[t].acc = access[loc[t].vec]
                /\ loc'[t].glob = 0
           /\ (access[loc[t].vec] # loc[t].acc /\ ~(access[loc[t].vec] >= loc[t].glob)) =>
                /\ loc'[t].pc = "derefAccess" /\ loc'[t].acc = access[loc[t].vec]
                /\ loc'[t].glob = loc[t].glob
<1> DEFINE x == access[loc[t].vec]
           m == [loc[t] EXCEPT !.acc = loc[t].glob, !.glob = 0, !.pc = "derefLoad"]
           n == [loc[t] EXCEPT !.acc = x, !.glob = 0, !.pc = "derefLoad"]
           k == [loc[t] EXCEPT !.acc = x]
<1>1. /\ Goes(t, IF x = loc[t].acc THEN m ELSE IF x >= loc[t].glob THEN n ELSE k)
      /\ loc[t].pc = "derefAccess"
  BY Zenon DEF DerefAccess, At
<1>2. loc[t] \in Local /\ x \in Epoch /\ 0 \in Epoch /\ loc[t].glob \in Epoch /\ loc[t].acc \in Epoch
  BY Fields, Constants DEF TypeOK, Local
<1> HIDE DEF x
<1>3. CASE x = loc[t].acc
  <2>1. m \in Local
    BY <1>2 DEF Local, Locals, Labels
  <2>2. /\ m.pc = "derefLoad" /\ m.op = loc[t].op /\ m.last = loc[t].last
        /\ m.list = loc[t].list /\ SameClient(loc[t], m) /\ SameWalks(loc[t], m)
        /\ m.value = loc[t].value /\ m.acc = loc[t].glob /\ m.glob = 0
        /\ SameRetire(loc[t], m)
    BY <1>2 DEF Local, Locals, SameClient, SameWalks, SameDeref, SameRetire
  <2> HIDE DEF m
  <2>3. loc'[t] = m /\ Moves(t)
    BY <1>1, <1>3, <2>1, GoesTo
  <2> QED
    BY <1>1, <1>2, <1>3, <2>2, <2>3 DEF SameClient, SameWalks, SameDeref, SameRetire, x
<1>4. CASE x # loc[t].acc /\ x >= loc[t].glob
  <2>1. n \in Local
    BY <1>2 DEF Local, Locals, Labels
  <2>2. /\ n.pc = "derefLoad" /\ n.op = loc[t].op /\ n.last = loc[t].last
        /\ n.list = loc[t].list /\ SameClient(loc[t], n) /\ SameWalks(loc[t], n)
        /\ n.value = loc[t].value /\ n.acc = x /\ n.glob = 0 /\ SameRetire(loc[t], n)
    BY <1>2 DEF Local, Locals, SameClient, SameWalks, SameDeref, SameRetire
  <2> HIDE DEF n
  <2>3. loc'[t] = n /\ Moves(t)
    BY <1>1, <1>4, <2>1, GoesTo
  <2> QED
    BY <1>1, <1>2, <1>4, <2>2, <2>3 DEF SameClient, SameWalks, SameDeref, SameRetire, x
<1>5. CASE x # loc[t].acc /\ ~(x >= loc[t].glob)
  <2>1. k \in Local
    BY <1>2 DEF Local, Locals, Labels
  <2>2. /\ k.pc = loc[t].pc /\ k.op = loc[t].op /\ k.last = loc[t].last
        /\ k.list = loc[t].list /\ SameClient(loc[t], k) /\ SameWalks(loc[t], k)
        /\ k.value = loc[t].value /\ k.acc = x /\ k.glob = loc[t].glob
        /\ SameRetire(loc[t], k)
    BY <1>2 DEF Local, Locals, SameClient, SameWalks, SameDeref, SameRetire
  <2> HIDE DEF k
  <2>3. loc'[t] = k /\ Moves(t)
    BY <1>1, <1>5, <2>1, GoesTo
  <2> QED
    BY <1>1, <1>2, <1>5, <2>2, <2>3 DEF SameClient, SameWalks, SameDeref, SameRetire, x
<1> QED
  BY <1>3, <1>4, <1>5


-----------------------------------------------------------------------------
(* The walks.                                                              *)

\* leave, of a call or inside a trim, loads the head of its slot.
LEMMA LeaveLoadDoes ==
    ASSUME TypeOK, NEW t \in Threads, LeaveLoad(t)
    PROVE  /\ Moves(t) /\ ((loc[t].pc = "idle" /\ loc[t].inside) \/ loc[t].pc = "leaveLoad")
           /\ loc'[t].inside = FALSE /\ loc'[t].holds = {}
           /\ loc'[t].vec = loc[t].vec /\ loc'[t].smr = loc[t].smr
           /\ loc'[t].op = IF loc[t].op = "nested" THEN "nested" ELSE "leave"
           /\ SameWalks(loc[t], loc'[t]) /\ SameDeref(loc[t], loc'[t])
           /\ SameRetire(loc[t], loc'[t]) /\ loc'[t].list = loc[t].list
           /\ loc'[t].last = head[loc[t].vec]
           /\ loc'[t].pc = IF head[loc[t].vec].ptr # loc[t].smr
                           THEN "leaveRead" ELSE "leaveCas"
<1> DEFINE o == IF loc[t].op = "nested" THEN "nested" ELSE "leave"
           l == [loc[t] EXCEPT !.inside = FALSE, !.holds = {}, !.op = o]
<1>1. /\ Goes(t, HeadLoaded(l, head[l.vec]))
      /\ (loc[t].pc = "idle" /\ loc[t].inside) \/ loc[t].pc = "leaveLoad"
  BY Zenon DEF LeaveLoad, At
<1>2. loc[t] \in Local /\ head[loc[t].vec] \in HeadWord
  BY Fields DEF TypeOK, Local
<1>3. o \in Ops
  BY DEF Ops
<1> HIDE DEF o
<1>4. l \in Local
  BY <1>2, <1>3 DEF Local, Locals, Ops
<1>5. /\ l.inside = FALSE /\ l.holds = {} /\ l.op = o /\ l.vec = loc[t].vec
      /\ l.smr = loc[t].smr /\ l.list = loc[t].list
      /\ SameWalks(loc[t], l) /\ SameDeref(loc[t], l) /\ SameRetire(loc[t], l)
  BY <1>2 DEF Local, Locals, SameWalks, SameDeref, SameRetire
<1> HIDE DEF l
<1>6. loc'[t] = HeadLoaded(l, head[loc[t].vec]) /\ Moves(t)
  BY <1>1, <1>2, <1>4, <1>5, HeadLoadedIs, GoesTo
<1>7. Loaded(l, loc'[t], head[loc[t].vec])
  BY <1>2, <1>4, <1>6, HeadLoadedIs
<1> QED
  BY <1>1, <1>5, <1>6, <1>7
  DEF o, Loaded, SameClient, SameWalks, SameDeref, SameRetire

\* leave reads the link of the first node.
LEMMA LeaveReadDoes ==
    ASSUME TypeOK, NEW t \in Threads, loc[t].last.ptr \in Batches, LeaveRead(t)
    PROVE  /\ Moves(t) /\ loc[t].pc = "leaveRead" /\ loc'[t].pc = "leaveCas"
           /\ loc'[t].op = loc[t].op /\ loc'[t].last = loc[t].last
           /\ loc'[t].list = loc[t].list /\ SameClient(loc[t], loc'[t])
           /\ loc'[t].walk.curr = loc[t].walk.curr
           /\ loc'[t].walk.nxt = next[loc[t].last.ptr][loc[t].vec]
           /\ loc'[t].walk.end = loc[t].walk.end
           /\ loc'[t].walk.counter = loc[t].walk.counter
           /\ loc'[t].outer = loc[t].outer /\ loc'[t].thr = loc[t].thr
           /\ SameDeref(loc[t], loc'[t]) /\ SameRetire(loc[t], loc'[t])
<1> DEFINE x == next[loc[t].last.ptr][loc[t].vec]
           l == [loc[t] EXCEPT !.walk.nxt = x, !.pc = "leaveCas"]
<1>1. /\ Goes(t, l) /\ loc[t].pc = "leaveRead"
  BY DEF LeaveRead, At
<1>2. loc[t] \in Local /\ x \in Ptr /\ loc[t].walk \in Walk
  BY Fields DEF TypeOK, Local
<1> HIDE DEF x
<1>3. l \in Local
  BY <1>2 DEF Local, Locals, Labels, Walk
<1>4. /\ l.pc = "leaveCas" /\ l.op = loc[t].op /\ l.last = loc[t].last
      /\ l.list = loc[t].list /\ SameClient(loc[t], l)
      /\ l.walk.curr = loc[t].walk.curr /\ l.walk.nxt = x
      /\ l.walk.end = loc[t].walk.end /\ l.walk.counter = loc[t].walk.counter
      /\ l.outer = loc[t].outer /\ l.thr = loc[t].thr /\ SameDeref(loc[t], l)
      /\ SameRetire(loc[t], l)
  BY <1>2 DEF Local, Locals, SameClient, SameWalks, SameDeref, SameRetire, Walk
<1> HIDE DEF l
<1> QED
  BY <1>1, <1>2, <1>3, <1>4, GoesTo DEF SameClient, SameWalks, SameDeref, SameRetire, x

\* The compare-and-swap of leave: the last one out goes on to clear the slot.
LEMMA LeaveCasDoes ==
    ASSUME TypeOK, NEW t \in Threads, LeaveCas(t)
    PROVE  /\ Moves(t) /\ loc[t].pc = "leaveCas"
           /\ head[loc[t].vec] = loc[t].last =>
                LET out == HeadAfterLeave(loc[t].last).refs = 0 /\ loc[t].last.ptr # NULL IN
                /\ out => /\ SameClient(loc[t], loc'[t]) /\ SameWalks(loc[t], loc'[t])
                          /\ SameDeref(loc[t], loc'[t]) /\ SameRetire(loc[t], loc'[t])
                          /\ loc'[t].list = loc[t].list /\ loc'[t].op = loc[t].op
                          /\ loc'[t].last = loc[t].last
                          /\ loc'[t].pc = IF CmpxchgFull THEN "leaveAdjust"
                                          ELSE "leaveClear"
                          /\ todo' = [todo EXCEPT ![t] = held[t]] /\ later' = later
                /\ ~out => Traversed(loc[t], loc'[t]) /\ Starts(t, held[t])
           /\ head[loc[t].vec] # loc[t].last => Loaded(loc[t], loc'[t], head[loc[t].vec])
<1> DEFINE p == IF CmpxchgFull THEN "leaveAdjust" ELSE "leaveClear"
           m == [loc[t] EXCEPT !.pc = p]
           out == HeadAfterLeave(loc[t].last).refs = 0 /\ loc[t].last.ptr # NULL
<1>1. /\ loc[t].pc = "leaveCas"
      /\ \/ /\ head[loc[t].vec] = loc[t].last
            /\ IF out THEN /\ Goes(t, m)
                           /\ todo' = [todo EXCEPT ![t] = held[t]] /\ later' = later
               ELSE Goes(t, LeaveTraverse(loc[t])) /\ Starts(t, held[t])
         \/ /\ head[loc[t].vec] # loc[t].last
            /\ Goes(t, HeadLoaded(loc[t], head[loc[t].vec]))
  BY Zenon DEF LeaveCas, At
<1>2. loc[t] \in Local /\ head[loc[t].vec] \in HeadWord /\ p \in Labels
  BY Fields DEF TypeOK, Local, Labels
<1> HIDE DEF p, out
<1>3. m \in Local
  BY <1>2 DEF Local, Locals
<1>4. /\ SameClient(loc[t], m) /\ SameWalks(loc[t], m) /\ SameDeref(loc[t], m)
      /\ SameRetire(loc[t], m) /\ m.list = loc[t].list /\ m.op = loc[t].op
      /\ m.last = loc[t].last /\ m.pc = p
  BY <1>2 DEF Local, Locals, SameClient, SameWalks, SameDeref, SameRetire
<1> HIDE DEF m
<1>5. CASE head[loc[t].vec] = loc[t].last /\ out
  <2>1. loc'[t] = m /\ Moves(t)
    BY <1>1, <1>3, <1>5, GoesTo
  <2> QED
    BY <1>1, <1>4, <1>5, <2>1 DEF p, out
<1>6. CASE head[loc[t].vec] = loc[t].last /\ ~out
  <2>1. loc'[t] = LeaveTraverse(loc[t]) /\ Moves(t)
    BY <1>1, <1>2, <1>6, LeaveTraverseIs, GoesTo
  <2> QED
    BY <1>1, <1>2, <1>6, <2>1, LeaveTraverseIs DEF out
<1>7. CASE head[loc[t].vec] # loc[t].last
  <2>1. loc'[t] = HeadLoaded(loc[t], head[loc[t].vec]) /\ Moves(t)
    BY <1>1, <1>2, <1>7, HeadLoadedIs, GoesTo
  <2> QED
    BY <1>1, <1>2, <1>7, <2>1, HeadLoadedIs
<1> QED
  BY <1>5, <1>6, <1>7

\* The last one out empties the slot, or finds it taken again.
LEMMA LeaveClearDoes ==
    ASSUME TypeOK, NEW t \in Threads, LeaveClear(t)
    PROVE  /\ Moves(t) /\ loc[t].pc = "leaveClear"
           /\ head[loc[t].vec] = [refs |-> 0, ptr |-> loc[t].last.ptr] =>
                /\ SameClient(loc[t], loc'[t]) /\ SameWalks(loc[t], loc'[t])
                /\ SameDeref(loc[t], loc'[t]) /\ SameRetire(loc[t], loc'[t])
                /\ loc'[t].list = loc[t].list /\ loc'[t].op = loc[t].op
                /\ loc'[t].last = loc[t].last /\ loc'[t].pc = "leaveAdjust"
           /\ head[loc[t].vec] # [refs |-> 0, ptr |-> loc[t].last.ptr] =>
                Traversed(loc[t], loc'[t]) /\ Starts(t, todo[t]) /\ head' = head
<1> DEFINE m == [loc[t] EXCEPT !.pc = "leaveAdjust"]
           clear == head[loc[t].vec] = [refs |-> 0, ptr |-> loc[t].last.ptr]
<1>1. /\ loc[t].pc = "leaveClear"
      /\ IF clear THEN Goes(t, m)
         ELSE Goes(t, LeaveTraverse(loc[t])) /\ Starts(t, todo[t]) /\ head' = head
  BY Zenon DEF LeaveClear, At
<1>2. loc[t] \in Local
  BY DEF TypeOK, Local
<1> HIDE DEF clear
<1>3. m \in Local
  BY <1>2 DEF Local, Locals, Labels
<1>4. /\ SameClient(loc[t], m) /\ SameWalks(loc[t], m) /\ SameDeref(loc[t], m)
      /\ SameRetire(loc[t], m) /\ m.list = loc[t].list /\ m.op = loc[t].op
      /\ m.last = loc[t].last /\ m.pc = "leaveAdjust"
  BY <1>2 DEF Local, Locals, SameClient, SameWalks, SameDeref, SameRetire
<1> HIDE DEF m
<1>5. CASE clear
  <2>1. loc'[t] = m /\ Moves(t)
    BY <1>1, <1>3, <1>5, GoesTo
  <2> QED
    BY <1>1, <1>4, <1>5, <2>1 DEF clear
<1>6. CASE ~clear
  <2>1. loc'[t] = LeaveTraverse(loc[t]) /\ Moves(t)
    BY <1>1, <1>2, <1>6, LeaveTraverseIs, GoesTo
  <2> QED
    BY <1>1, <1>2, <1>6, <2>1, LeaveTraverseIs DEF clear
<1> QED
  BY <1>5, <1>6

\* The last one out adds the slot's share to the first batch of the list.
LEMMA LeaveAdjustDoes ==
    ASSUME TypeOK, NEW t \in Threads, LeaveAdjust(t), loc[t].last.ptr \in Batches
    PROVE  /\ Moves(t) /\ loc[t].pc = "leaveAdjust"
           /\ loc'[t].list = Collected(loc[t].list, loc[t].last.ptr, Addend)
           /\ \E l \in Local :
                /\ Traversed(l, loc'[t])
                /\ SameClient(loc[t], l) /\ SameWalks(loc[t], l)
                /\ SameDeref(loc[t], l) /\ SameRetire(loc[t], l)
                /\ l.op = loc[t].op /\ l.last = loc[t].last
<1> DEFINE c == Collected(loc[t].list, loc[t].last.ptr, Addend)
           l == [loc[t] EXCEPT !.list = c]
<1>1. loc[t].pc = "leaveAdjust" /\ Goes(t, LeaveTraverse(l))
  BY DEF LeaveAdjust, At
<1>2. loc[t] \in Local /\ c \in SUBSET Batches
  BY Fields DEF TypeOK, Local, Collected
<1> HIDE DEF c
<1>3. l \in Local
  BY <1>2 DEF Local, Locals
<1>4. /\ SameClient(loc[t], l) /\ SameWalks(loc[t], l) /\ SameDeref(loc[t], l)
      /\ SameRetire(loc[t], l) /\ l.op = loc[t].op /\ l.last = loc[t].last /\ l.list = c
  BY <1>2 DEF Local, Locals, SameClient, SameWalks, SameDeref, SameRetire
<1> HIDE DEF l
<1>5. loc'[t] = LeaveTraverse(l) /\ Moves(t) /\ Traversed(l, loc'[t])
  BY <1>1, <1>3, LeaveTraverseIs, GoesTo
<1>6. loc'[t].list = l.list
  BY <1>5 DEF Traversed, Returned
<1> QED
  BY <1>1, <1>3, <1>4, <1>5, <1>6 DEF c


\* traverse reads the link of a node, and counts the node.
LEMMA TravReadDoes ==
    ASSUME TypeOK, NEW t \in Threads, TravRead(t)
    PROVE  /\ Moves(t) /\ loc[t].pc = "travRead"
           /\ SameClient(loc[t], loc'[t]) /\ SameDeref(loc[t], loc'[t])
           /\ SameRetire(loc[t], loc'[t]) /\ loc'[t].list = loc[t].list
           /\ loc'[t].last = loc[t].last /\ loc'[t].op = loc[t].op
           /\ loc'[t].thr = loc[t].thr /\ loc'[t].outer = loc[t].outer
           /\ loc'[t].walk.counter = loc[t].walk.counter + 1
           /\ loc[t].walk.nxt = NULL =>
                /\ loc'[t].pc = "ack" /\ loc'[t].walk.curr = NULL
                /\ loc'[t].walk.nxt = NULL /\ loc'[t].walk.end = NULL
           /\ loc[t].walk.nxt # NULL =>
                /\ loc'[t].pc = "travDrop" /\ loc'[t].walk.curr = loc[t].walk.nxt
                /\ loc'[t].walk.nxt = next[loc[t].walk.nxt][loc[t].vec]
                /\ loc'[t].walk.end = loc[t].walk.end
<1> DEFINE b == loc[t].walk.nxt
           k == [loc[t] EXCEPT !.walk.counter = @ + 1]
           l == [k EXCEPT !.walk.curr = b]
           x == next[b][loc[t].vec]
           m == [l EXCEPT !.walk.nxt = x, !.pc = "travDrop"]
<1>1. loc[t] \in Local /\ loc[t].walk \in Walk /\ b \in Ptr /\ loc[t].vec \in Slots
  BY Fields, WalkFields DEF TypeOK, Local
<1>2. l \in Local
  <2>1. k \in Local
    BY <1>1 DEF Local, Locals, Walk
  <2> HIDE DEF k
  <2> QED
    BY <1>1, <2>1 DEF Local, Locals, Walk
<1>3. /\ l.walk.curr = b /\ l.walk.end = loc[t].walk.end /\ l.vec = loc[t].vec
      /\ l.walk.counter = loc[t].walk.counter + 1
      /\ SameClient(loc[t], l) /\ SameDeref(loc[t], l) /\ SameRetire(loc[t], l)
      /\ l.list = loc[t].list /\ l.op = loc[t].op /\ l.outer = loc[t].outer
      /\ l.thr = loc[t].thr /\ l.last = loc[t].last
  BY <1>1 DEF Local, Locals, Walk, SameClient, SameDeref, SameRetire
<1>4. loc[t].pc = "travRead" /\ Goes(t, IF b = NULL THEN ToAck(l) ELSE m)
  <2>1. /\ loc[t].pc = "travRead"
        /\ Goes(t, IF l.walk.curr = NULL THEN ToAck(l)
                   ELSE [l EXCEPT !.walk.nxt = next[l.walk.curr][l.vec],
                                  !.pc = "travDrop"])
    BY Zenon DEF TravRead, At
  <2> HIDE DEF l, b
  <2>2. /\ l.walk.curr = NULL <=> b = NULL
        /\ next[l.walk.curr][l.vec] = x
    BY <1>3
  <2> HIDE DEF x
  <2> QED
    BY <2>1, <2>2
<1> HIDE DEF l
<1>5. CASE b = NULL
  <2>1. loc'[t] = ToAck(l) /\ Moves(t) /\ Ended(l, loc'[t])
    BY <1>2, <1>4, <1>5, ToAckIs, GoesTo
  <2> QED
    BY <1>3, <1>4, <1>5, <2>1 DEF Ended, SameClient, SameDeref, SameRetire
<1>6. CASE b # NULL
  <2>1. x \in Ptr
    BY <1>1, <1>6 DEF TypeOK, Ptr
  <2> HIDE DEF x
  <2>2. m \in Local
    BY <1>2, <2>1 DEF Local, Locals, Labels, Walk
  <2>3. loc'[t] = m /\ Moves(t)
    BY <1>4, <1>6, <2>2, GoesTo
  <2>4. /\ m.pc = "travDrop" /\ m.walk.curr = b /\ m.walk.nxt = x
        /\ m.walk.end = l.walk.end /\ m.walk.counter = l.walk.counter
        /\ SameClient(l, m) /\ SameDeref(l, m) /\ SameRetire(l, m)
        /\ m.list = l.list /\ m.op = l.op /\ m.outer = l.outer
        /\ m.thr = l.thr /\ m.last = l.last
    BY <1>2, <1>3 DEF Local, Locals, Walk, SameClient, SameDeref, SameRetire
  <2> HIDE DEF m
  <2> QED
    BY <1>3, <1>4, <1>6, <2>3, <2>4 DEF SameClient, SameDeref, SameRetire, x
<1> QED
  BY <1>5, <1>6

\* A decrement: the nested leave begins, or the walk ends or goes on.
LEMMA TravDropDoes ==
    ASSUME TypeOK, NEW t \in Threads, TravDrop(t), loc[t].walk.curr \in Batches
    PROVE  LET b == loc[t].walk.curr
               c == Collected(loc[t].list, b, MinusOne)
               flush == /\ loc[t].op = "trim" /\ loc[t].thr > 0
                        /\ b \in c /\ Cardinality(c) >= loc[t].thr
           IN  /\ Moves(t) /\ loc[t].pc = "travDrop"
               /\ SameClient(loc[t], loc'[t]) /\ SameDeref(loc[t], loc'[t])
               /\ SameRetire(loc[t], loc'[t]) /\ loc'[t].last = loc[t].last
               /\ loc'[t].list = c /\ loc'[t].thr = loc[t].thr
               /\ flush => /\ loc'[t].op = "nested" /\ loc'[t].outer = loc[t].walk
                           /\ loc'[t].walk = NoWalk /\ loc'[t].pc = "leaveLoad"
               /\ ~flush => loc'[t].op = loc[t].op /\ loc'[t].outer = loc[t].outer
               /\ ~flush /\ b = loc[t].walk.end =>
                    /\ loc'[t].pc = "ack" /\ loc'[t].walk.counter = loc[t].walk.counter
                    /\ loc'[t].walk.curr = NULL /\ loc'[t].walk.nxt = NULL
                    /\ loc'[t].walk.end = NULL
               /\ ~flush /\ b # loc[t].walk.end =>
                    loc'[t].pc = "travRead" /\ loc'[t].walk = loc[t].walk
<1> DEFINE b == loc[t].walk.curr
           c == Collected(loc[t].list, b, MinusOne)
           l == [loc[t] EXCEPT !.list = c]
           f == [l EXCEPT !.op = "nested", !.outer = l.walk, !.walk = NoWalk,
                          !.pc = "leaveLoad"]
           n == [l EXCEPT !.pc = "travRead"]
           flush == /\ l.op = "trim" /\ l.thr > 0 /\ b \in l.list
                    /\ Cardinality(l.list) >= l.thr
           rush == /\ loc[t].op = "trim" /\ loc[t].thr > 0 /\ b \in c
                   /\ Cardinality(c) >= loc[t].thr
<1>1. /\ loc[t].pc = "travDrop"
      /\ Goes(t, IF flush THEN f ELSE IF b = l.walk.end THEN ToAck(l) ELSE n)
  BY DEF TravDrop, At
<1>2. loc[t] \in Local /\ b \in Batches
  BY DEF TypeOK, Local
<1>3. c \in SUBSET Batches
  BY <1>2, Fields DEF Collected
<1> HIDE DEF b, c
<1>4. l \in Local
  BY <1>2, <1>3 DEF Local, Locals
<1>5. /\ l.list = c /\ l.op = loc[t].op /\ l.outer = loc[t].outer /\ l.walk = loc[t].walk
      /\ l.thr = loc[t].thr /\ l.last = loc[t].last
      /\ SameClient(loc[t], l) /\ SameDeref(loc[t], l) /\ SameRetire(loc[t], l)
  BY <1>2 DEF Local, Locals, SameClient, SameDeref, SameRetire
<1>6. flush <=> rush
  <2> HIDE DEF l
  <2> QED
    BY <1>5
<1>7. l.walk \in Walk /\ NoWalk \in Walk
  BY <1>4, Fields, WalkFields
<1> HIDE DEF l, flush, rush
<1>8. f \in Local
  BY <1>4, <1>7 DEF Local, Locals, Labels
<1>9. /\ f.op = "nested" /\ f.pc = "leaveLoad" /\ f.outer = l.walk /\ f.list = l.list
      /\ f.walk = NoWalk /\ f.thr = l.thr /\ f.last = l.last
      /\ SameClient(l, f) /\ SameDeref(l, f) /\ SameRetire(l, f)
  BY <1>4 DEF Local, Locals, SameClient, SameDeref, SameRetire
<1>10. n \in Local
  BY <1>4 DEF Local, Locals, Labels
<1>11. /\ n.op = l.op /\ n.pc = "travRead" /\ n.outer = l.outer /\ n.list = l.list
       /\ n.walk = l.walk /\ n.thr = l.thr /\ n.last = l.last
       /\ SameClient(l, n) /\ SameDeref(l, n) /\ SameRetire(l, n)
  BY <1>4 DEF Local, Locals, SameClient, SameDeref, SameRetire
<1> HIDE DEF f, n
<1>12. CASE flush
  <2>1. loc'[t] = f /\ Moves(t)
    BY <1>1, <1>8, <1>12, GoesTo
  <2> QED
    BY <1>1, <1>5, <1>6, <1>9, <1>12, <2>1
    DEF SameClient, SameDeref, SameRetire, b, c, rush
<1>13. CASE ~flush /\ b = l.walk.end
  <2>1. loc'[t] = ToAck(l) /\ Moves(t) /\ Ended(l, loc'[t])
    BY <1>1, <1>4, <1>13, ToAckIs, GoesTo
  <2> QED
    BY <1>1, <1>5, <1>6, <1>13, <2>1
    DEF Ended, SameClient, SameDeref, SameRetire, b, c, rush
<1>14. CASE ~flush /\ b # l.walk.end
  <2>1. loc'[t] = n /\ Moves(t)
    BY <1>1, <1>10, <1>14, GoesTo
  <2> QED
    BY <1>1, <1>5, <1>6, <1>11, <1>14, <2>1
    DEF SameClient, SameDeref, SameRetire, b, c, rush
<1> QED
  BY <1>12, <1>13, <1>14

\* traverse acknowledges the nodes it has counted and returns.
LEMMA AckDoes ==
    ASSUME TypeOK, NEW t \in Threads, Ack(t)
    PROVE  /\ Moves(t) /\ loc[t].pc = "ack" /\ Returned(loc[t], loc'[t])
           /\ loc'[t].last = loc[t].last
<1>1. Goes(t, Return(loc[t])) /\ loc[t].pc = "ack"
  BY DEF Ack, At
<1>2. loc[t] \in Local
  BY DEF TypeOK, Local
<1> QED
  BY <1>1, <1>2, ReturnIs, GoesTo

\* trim gives up the caller's pointers; with a new head, it walks from there.
LEMMA TrimDoes ==
    ASSUME TypeOK, NEW t \in Threads, NEW th \in TrimThresholds, Trim(t, th)
    PROVE  LET x == head[loc[t].vec].ptr IN
           /\ Moves(t) /\ loc[t].pc = "idle" /\ loc[t].inside /\ loc'[t].inside = TRUE
           /\ loc'[t].holds = {} /\ loc'[t].vec = loc[t].vec
           /\ loc'[t].list = loc[t].list /\ loc'[t].outer = loc[t].outer
           /\ loc'[t].last = loc[t].last
           /\ SameDeref(loc[t], loc'[t]) /\ SameRetire(loc[t], loc'[t])
           /\ x = loc[t].smr =>
                /\ loc'[t].op = loc[t].op /\ loc'[t].pc = "idle"
                /\ loc'[t].smr = loc[t].smr /\ SameWalks(loc[t], loc'[t])
           /\ x # loc[t].smr =>
                /\ loc'[t].op = "trim" /\ loc'[t].pc = "trimRead"
                /\ loc'[t].smr = x /\ loc'[t].thr = th
                /\ loc'[t].walk.curr = loc[t].walk.curr
                /\ loc'[t].walk.nxt = loc[t].walk.nxt
                /\ loc'[t].walk.end = loc[t].smr
                /\ loc'[t].walk.counter = loc[t].walk.counter
<1> DEFINE l == [loc[t] EXCEPT !.holds = {}]
           x == head[l.vec].ptr
           m == [l EXCEPT !.op = "trim", !.thr = th, !.pc = "trimRead",
                          !.smr = x, !.walk.end = l.smr]
<1>1. Goes(t, IF x = l.smr THEN l ELSE m) /\ loc[t].pc = "idle" /\ l.inside
  BY DEF Trim, At
<1>2. loc[t] \in Local /\ th \in Nat /\ head[loc[t].vec].ptr \in Ptr
  BY Fields, Constants DEF TypeOK, Local, HeadWord
<1>3. l \in Local
  BY <1>2 DEF Local, Locals
<1>4. /\ l.holds = {} /\ l.inside = loc[t].inside /\ l.vec = loc[t].vec
      /\ l.smr = loc[t].smr /\ l.pc = loc[t].pc /\ l.op = loc[t].op
      /\ l.list = loc[t].list /\ l.last = loc[t].last
      /\ l.walk \in Walk /\ l.smr \in Ptr /\ l.inside \in BOOLEAN
      /\ SameWalks(loc[t], l) /\ SameDeref(loc[t], l) /\ SameRetire(loc[t], l)
  BY <1>2 DEF Local, Locals, SameWalks, SameDeref, SameRetire
<1> HIDE DEF l
<1>5. x = head[loc[t].vec].ptr
  BY <1>4
<1> HIDE DEF x
<1>6. m \in Local
  BY <1>2, <1>3, <1>4, <1>5, ZenonT(60) DEF Local, Locals, Labels, Walk
<1>7. /\ m.op = "trim" /\ m.pc = "trimRead" /\ m.smr = x /\ m.thr = th
      /\ m.holds = l.holds /\ m.inside = l.inside /\ m.vec = l.vec
      /\ m.list = l.list /\ m.outer = l.outer /\ m.last = l.last
      /\ SameDeref(l, m) /\ SameRetire(l, m)
  BY <1>3, <1>4 DEF Local, Locals, SameDeref, SameRetire
<1>8. /\ m.walk.curr = l.walk.curr /\ m.walk.nxt = l.walk.nxt
      /\ m.walk.end = l.smr /\ m.walk.counter = l.walk.counter
  BY <1>3, <1>4 DEF Local, Locals, Walk
<1> HIDE DEF m
<1>9. CASE x = l.smr
  <2>1. loc'[t] = l /\ Moves(t)
    BY <1>1, <1>3, <1>9, GoesTo
  <2> QED
    BY <1>1, <1>4, <1>5, <1>9, <2>1 DEF SameWalks
<1>10. CASE x # l.smr
  <2>1. loc'[t] = m /\ Moves(t)
    BY <1>1, <1>6, <1>10, GoesTo
  <2>2. /\ SameDeref(loc[t], m) /\ SameRetire(loc[t], m)
        /\ m.walk.curr = loc[t].walk.curr /\ m.walk.nxt = loc[t].walk.nxt
        /\ m.walk.end = loc[t].smr /\ m.walk.counter = loc[t].walk.counter
        /\ m.outer = loc[t].outer /\ m.inside = TRUE
    BY <1>1, <1>4, <1>7, <1>8 DEF SameWalks, SameDeref, SameRetire
  <2>3. head[loc[t].vec].ptr # loc[t].smr
    BY <1>4, <1>5, <1>10
  <2> QED
    BY <1>1, <1>4, <1>5, <1>7, <2>1, <2>2, <2>3
<1> QED
  BY <1>9, <1>10

\* trim reads the link of the node it has for a handle.
LEMMA TrimReadDoes ==
    ASSUME TypeOK, NEW t \in Threads, TrimRead(t), loc[t].smr \in Batches
    PROVE  /\ Moves(t) /\ loc[t].pc = "trimRead" /\ loc'[t].pc = "travRead"
           /\ SameClient(loc[t], loc'[t]) /\ SameDeref(loc[t], loc'[t])
           /\ SameRetire(loc[t], loc'[t]) /\ loc'[t].list = loc[t].list
           /\ loc'[t].last = loc[t].last /\ loc'[t].op = loc[t].op
           /\ loc'[t].thr = loc[t].thr /\ loc'[t].outer = loc[t].outer
           /\ loc'[t].walk.curr = loc[t].walk.curr
           /\ loc'[t].walk.nxt = next[loc[t].smr][loc[t].vec]
           /\ loc'[t].walk.end = loc[t].walk.end
           /\ loc'[t].walk.counter = loc[t].walk.counter
<1> DEFINE x == next[loc[t].smr][loc[t].vec]
           l == [loc[t] EXCEPT !.walk.nxt = x, !.pc = "travRead"]
<1>1. Goes(t, l) /\ loc[t].pc = "trimRead"
  BY DEF TrimRead, At
<1>2. loc[t] \in Local /\ loc[t].walk \in Walk /\ x \in Ptr
  BY Fields DEF TypeOK, Local
<1> HIDE DEF x
<1>3. l \in Local
  BY <1>2, ZenonT(60) DEF Local, Locals, Labels, Walk
<1>4. /\ l.pc = "travRead" /\ l.list = loc[t].list /\ l.op = loc[t].op
      /\ l.outer = loc[t].outer /\ l.thr = loc[t].thr /\ l.last = loc[t].last
      /\ SameClient(loc[t], l) /\ SameDeref(loc[t], l) /\ SameRetire(loc[t], l)
  BY <1>2 DEF Local, Locals, SameClient, SameDeref, SameRetire
<1>5. /\ l.walk.curr = loc[t].walk.curr /\ l.walk.nxt = x
      /\ l.walk.end = loc[t].walk.end /\ l.walk.counter = loc[t].walk.counter
  BY <1>2 DEF Local, Locals, Walk
<1> HIDE DEF l
<1> QED
  BY <1>1, <1>3, <1>4, <1>5, GoesTo DEF SameClient, SameDeref, SameRetire, x


-----------------------------------------------------------------------------
(* retire and free.                                                        *)

\* retire begins at the first slot with the oldest birth epoch of the batch.
LEMMA RetireDoes ==
    ASSUME TypeOK, NEW t \in Threads, NEW e \in 0 .. global, Retire(t, e)
    PROVE  /\ Moves(t) /\ loc[t].pc = "idle" /\ loc[t].inside /\ root \in Batches
           /\ loc'[t].pc = "retireAccess" /\ loc'[t].op = "retire"
           /\ loc'[t].last = loc[t].last /\ loc'[t].list = loc[t].list
           /\ SameClient(loc[t], loc'[t]) /\ SameWalks(loc[t], loc'[t])
           /\ SameDeref(loc[t], loc'[t]) /\ loc'[t].batch = root
           /\ loc'[t].min <= birth[root] /\ loc'[t].slot = loc[t].slot
           /\ loc'[t].adjs = loc[t].adjs /\ loc'[t].doAdjs = loc[t].doAdjs
           /\ loc'[t].into = loc[t].into
<1> DEFINE x == MinEpoch(e, birth[root])
           l == [loc[t] EXCEPT !.op = "retire", !.pc = "retireAccess", !.batch = root,
                               !.min = x]
<1>1. /\ Goes(t, l) /\ loc[t].pc = "idle" /\ loc[t].inside /\ root \in Batches
  BY DEF Retire, At, TypeOK, Ptr
<1>2. /\ loc[t] \in Local /\ root \in Ptr
      /\ x \in Epoch /\ x <= birth[root]
  <2>1. /\ loc[t] \in Local /\ root \in Ptr /\ root \in Batches
        /\ birth[root] \in Epoch /\ e \in Epoch
    BY <1>1, Constants DEF TypeOK, Local, Epoch
  <2> QED
    BY <2>1, Constants DEF MinEpoch, Epoch
<1> HIDE DEF x
<1>3. l \in Local
  BY <1>2 DEF Local, Locals, Labels
<1>4. /\ l.pc = "retireAccess" /\ l.op = "retire" /\ l.last = loc[t].last
      /\ l.list = loc[t].list /\ SameClient(loc[t], l) /\ SameWalks(loc[t], l)
      /\ SameDeref(loc[t], l) /\ l.batch = root /\ l.min = x /\ l.slot = loc[t].slot
      /\ l.adjs = loc[t].adjs /\ l.doAdjs = loc[t].doAdjs /\ l.into = loc[t].into
  BY <1>2 DEF Local, Locals, SameClient, SameWalks, SameDeref, SameRetire
<1> HIDE DEF l
<1> QED
  BY <1>1, <1>2, <1>3, <1>4, GoesTo DEF SameClient, SameWalks, SameDeref, SameRetire, x

\* retire tests the epoch of a slot against that of the batch.
LEMMA RetireAccessDoes ==
    ASSUME TypeOK, NEW t \in Threads, RetireAccess(t)
    PROVE  /\ Moves(t) /\ loc[t].pc = "retireAccess"
           /\ access[loc[t].slot] >= loc[t].min =>
                /\ SameClient(loc[t], loc'[t]) /\ SameWalks(loc[t], loc'[t])
                /\ SameDeref(loc[t], loc'[t]) /\ SameRetire(loc[t], loc'[t])
                /\ loc'[t].list = loc[t].list /\ loc'[t].op = loc[t].op
                /\ loc'[t].last = loc[t].last /\ loc'[t].pc = "retireLoad"
           /\ ~(access[loc[t].slot] >= loc[t].min) => Passed(loc[t], loc'[t])
<1> DEFINE l == [loc[t] EXCEPT !.pc = "retireLoad"]
<1>1. /\ Goes(t, IF access[loc[t].slot] >= loc[t].min THEN l ELSE PassBy(loc[t]))
      /\ loc[t].pc = "retireAccess"
  BY DEF RetireAccess, At
<1>2. loc[t] \in Local
  BY DEF TypeOK, Local
<1>3. l \in Local
  BY <1>2 DEF Local, Locals, Labels
<1>4. /\ l.pc = "retireLoad" /\ l.list = loc[t].list /\ l.op = loc[t].op
      /\ l.last = loc[t].last /\ SameClient(loc[t], l) /\ SameWalks(loc[t], l)
      /\ SameDeref(loc[t], l) /\ SameRetire(loc[t], l)
  BY <1>2 DEF Local, Locals, SameClient, SameWalks, SameDeref, SameRetire
<1> HIDE DEF l
<1>5. CASE access[loc[t].slot] >= loc[t].min
  <2>1. loc'[t] = l /\ Moves(t)
    BY <1>1, <1>3, <1>5, GoesTo
  <2> QED
    BY <1>1, <1>4, <1>5, <2>1
<1>6. CASE ~(access[loc[t].slot] >= loc[t].min)
  <2>1. loc'[t] = PassBy(loc[t]) /\ Moves(t)
    BY <1>1, <1>2, <1>6, PassByIs, GoesTo
  <2> QED
    BY <1>1, <1>2, <1>6, <2>1, PassByIs
<1> QED
  BY <1>5, <1>6

\* The step of retire that loads a head and tries the slot by it.
LEMMA TriesSlot ==
    ASSUME TypeOK, NEW t \in Threads, Goes(t, TrySlot(loc[t], head[loc[t].slot]))
    PROVE  Moves(t) /\ Tried(loc[t], loc'[t], head[loc[t].slot])
<1>1. loc[t] \in Local /\ head[loc[t].slot] \in HeadWord
  BY Fields DEF TypeOK, Local
<1> QED
  BY <1>1, TrySlotIs, GoesTo

\* retire loads the head of the slot.
LEMMA RetireLoadDoes ==
    ASSUME TypeOK, NEW t \in Threads, RetireLoad(t)
    PROVE  /\ Moves(t) /\ loc[t].pc = "retireLoad"
           /\ Tried(loc[t], loc'[t], head[loc[t].slot])
<1>1. Goes(t, TrySlot(loc[t], head[loc[t].slot])) /\ loc[t].pc = "retireLoad"
  BY DEF RetireLoad, At
<1> QED
  BY <1>1, TriesSlot

\* The compare-and-swap of retire puts the batch into the slot, or fails.
LEMMA RetireCasDoes ==
    ASSUME TypeOK, NEW t \in Threads, RetireCas(t)
    PROVE  /\ Moves(t) /\ loc[t].pc = "retireCas"
           /\ head[loc[t].slot] = loc[t].last =>
                /\ SameClient(loc[t], loc'[t]) /\ SameWalks(loc[t], loc'[t])
                /\ SameDeref(loc[t], loc'[t]) /\ loc'[t].list = loc[t].list
                /\ loc'[t].op = loc[t].op /\ loc'[t].last = loc[t].last
                /\ loc'[t].batch = loc[t].batch /\ loc'[t].min = loc[t].min
                /\ loc'[t].slot = loc[t].slot /\ loc'[t].adjs = loc[t].adjs
                /\ loc'[t].doAdjs = loc[t].doAdjs
                /\ loc'[t].into = loc[t].into \union {loc[t].slot}
                /\ loc'[t].pc = IF loc[t].last.ptr # NULL THEN "retireAdjust"
                                ELSE "retireCount"
           /\ head[loc[t].slot] # loc[t].last =>
                Tried(loc[t], loc'[t], head[loc[t].slot])
<1> DEFINE i == loc[t].into \union {loc[t].slot}
           p == IF loc[t].last.ptr # NULL THEN "retireAdjust" ELSE "retireCount"
           l == [loc[t] EXCEPT !.into = i, !.pc = p]
<1>1. /\ loc[t].pc = "retireCas"
      /\ \/ head[loc[t].slot] = loc[t].last /\ Goes(t, l)
         \/ /\ head[loc[t].slot] # loc[t].last
            /\ Goes(t, TrySlot(loc[t], head[loc[t].slot]))
  BY Zenon DEF RetireCas, At
<1>2. loc[t] \in Local /\ i \in SUBSET Slots /\ p \in Labels
  BY Fields DEF TypeOK, Local, Labels
<1> HIDE DEF i, p
<1>3. l \in Local
  BY <1>2 DEF Local, Locals
<1>4. /\ l.pc = p /\ l.list = loc[t].list /\ l.op = loc[t].op /\ l.last = loc[t].last
      /\ l.batch = loc[t].batch /\ l.min = loc[t].min /\ l.slot = loc[t].slot
      /\ l.adjs = loc[t].adjs /\ l.doAdjs = loc[t].doAdjs /\ l.into = i
      /\ SameClient(loc[t], l) /\ SameWalks(loc[t], l) /\ SameDeref(loc[t], l)
  BY <1>2 DEF Local, Locals, SameClient, SameWalks, SameDeref
<1> HIDE DEF l
<1>5. CASE head[loc[t].slot] = loc[t].last
  <2>1. loc'[t] = l /\ Moves(t)
    BY <1>1, <1>3, <1>5, GoesTo
  <2> QED
    BY <1>1, <1>4, <1>5, <2>1 DEF i, p
<1>6. CASE head[loc[t].slot] # loc[t].last
  BY <1>1, <1>6, TriesSlot
<1> QED
  BY <1>5, <1>6

\* retire adds the references of the slot to the batch it has put its own before.
LEMMA RetireAdjustDoes ==
    ASSUME TypeOK, NEW t \in Threads, loc[t].last.ptr \in Batches, RetireAdjust(t)
    PROVE  /\ Moves(t) /\ loc[t].pc = "retireAdjust" /\ loc'[t].pc = "retireCount"
           /\ loc'[t].op = loc[t].op /\ loc'[t].last = loc[t].last
           /\ loc'[t].list = Collected(loc[t].list, loc[t].last.ptr, AddW(Addend, loc[t].last.refs))
           /\ SameClient(loc[t], loc'[t]) /\ SameWalks(loc[t], loc'[t])
           /\ SameDeref(loc[t], loc'[t]) /\ SameRetire(loc[t], loc'[t])
<1> DEFINE c == Collected(loc[t].list, loc[t].last.ptr, AddW(Addend, loc[t].last.refs))
           l == [loc[t] EXCEPT !.list = c, !.pc = "retireCount"]
<1>1. /\ Goes(t, l) /\ loc[t].pc = "retireAdjust"
  BY DEF RetireAdjust, At
<1>2. loc[t] \in Local /\ c \in SUBSET Batches
  BY Fields DEF TypeOK, Local, Collected
<1> HIDE DEF c
<1>3. l \in Local
  BY <1>2 DEF Local, Locals, Labels
<1>4. /\ l.pc = "retireCount" /\ l.op = loc[t].op /\ l.last = loc[t].last
      /\ l.list = c /\ SameClient(loc[t], l) /\ SameWalks(loc[t], l)
      /\ SameDeref(loc[t], l) /\ SameRetire(loc[t], l)
  BY <1>2 DEF Local, Locals, SameClient, SameWalks, SameDeref, SameRetire
<1> HIDE DEF l
<1> QED
  BY <1>1, <1>2, <1>3, <1>4, GoesTo DEF SameClient, SameWalks, SameDeref, SameRetire, c

\* retire counts the references of the slot as nodes to acknowledge.
LEMMA RetireCountDoes ==
    ASSUME TypeOK, NEW t \in Threads, RetireCount(t)
    PROVE  /\ Moves(t) /\ loc[t].pc = "retireCount"
           /\ Advanced(loc[t], loc'[t], loc[t].doAdjs)
           /\ loc'[t].adjs = loc[t].adjs /\ loc'[t].doAdjs = loc[t].doAdjs
<1>1. Goes(t, NextSlot(loc[t])) /\ loc[t].pc = "retireCount"
  BY DEF RetireCount, At
<1>2. loc[t] \in Local
  BY DEF TypeOK, Local
<1> QED
  BY <1>1, <1>2, NextSlotIs, GoesTo

\* retire adds the shares of the slots it has passed by.
LEMMA RetireFinishDoes ==
    ASSUME TypeOK, NEW t \in Threads, loc[t].batch \in Batches, RetireFinish(t)
    PROVE  /\ Moves(t) /\ loc[t].pc = "retireFinish" /\ loc'[t].pc = "free"
           /\ loc'[t].op = loc[t].op /\ loc'[t].last = loc[t].last
           /\ loc'[t].list = Collected(loc[t].list, loc[t].batch, loc[t].adjs)
           /\ SameClient(loc[t], loc'[t]) /\ SameWalks(loc[t], loc'[t])
           /\ SameDeref(loc[t], loc'[t]) /\ SameRetire(loc[t], loc'[t])
<1> DEFINE c == Collected(loc[t].list, loc[t].batch, loc[t].adjs)
           l == [loc[t] EXCEPT !.list = c, !.pc = "free"]
<1>1. /\ Goes(t, l) /\ loc[t].pc = "retireFinish"
  BY DEF RetireFinish, At
<1>2. loc[t] \in Local /\ c \in SUBSET Batches
  BY Fields DEF TypeOK, Local, Collected
<1> HIDE DEF c
<1>3. l \in Local
  BY <1>2 DEF Local, Locals, Labels
<1>4. /\ l.pc = "free" /\ l.op = loc[t].op /\ l.last = loc[t].last /\ l.list = c
      /\ SameClient(loc[t], l) /\ SameWalks(loc[t], l) /\ SameDeref(loc[t], l)
      /\ SameRetire(loc[t], l)
  BY <1>2 DEF Local, Locals, SameClient, SameWalks, SameDeref, SameRetire
<1> HIDE DEF l
<1> QED
  BY <1>1, <1>2, <1>3, <1>4, GoesTo DEF SameClient, SameWalks, SameDeref, SameRetire, c

\* A batch of the thread's list is freed.
LEMMA FreeDoes ==
    ASSUME TypeOK, NEW t \in Threads, NEW b \in Batches, Free(t, b)
    PROVE  /\ Moves(t) /\ loc[t].pc = "free" /\ b \in loc[t].list
           /\ loc'[t].pc = "free" /\ loc'[t].op = loc[t].op
           /\ loc'[t].last = loc[t].last /\ loc'[t].list = loc[t].list \ {b}
           /\ SameClient(loc[t], loc'[t]) /\ SameWalks(loc[t], loc'[t])
           /\ SameDeref(loc[t], loc'[t]) /\ SameRetire(loc[t], loc'[t])
<1> DEFINE c == loc[t].list \ {b}
           l == [loc[t] EXCEPT !.list = c]
<1>1. /\ Goes(t, l) /\ loc[t].pc = "free" /\ b \in loc[t].list
  BY DEF Free, At
<1>2. loc[t] \in Local /\ c \in SUBSET Batches
  BY Fields DEF TypeOK, Local
<1> HIDE DEF c
<1>3. l \in Local
  BY <1>2 DEF Local, Locals, Labels
<1>4. /\ l.pc = loc[t].pc /\ l.op = loc[t].op /\ l.last = loc[t].last /\ l.list = c
      /\ SameClient(loc[t], l) /\ SameWalks(loc[t], l) /\ SameDeref(loc[t], l)
      /\ SameRetire(loc[t], l)
  BY <1>2 DEF Local, Locals, SameClient, SameWalks, SameDeref, SameRetire
<1> HIDE DEF l
<1> QED
  BY <1>1, <1>2, <1>3, <1>4, GoesTo DEF SameClient, SameWalks, SameDeref, SameRetire, c

\* A call with nothing left to free returns.
LEMMA EndCallDoes ==
    ASSUME TypeOK, NEW t \in Threads, EndCall(t, Empty)
    PROVE  /\ Moves(t) /\ loc[t].pc = "free" /\ loc[t].list = {} /\ loc'[t].list = {}
           /\ loc'[t].inside = loc[t].inside /\ loc'[t].holds = loc[t].holds
           /\ loc'[t].vec = loc[t].vec
           /\ loc'[t].smr = IF loc[t].op = "trimLeft" \/ loc[t].inside
                            THEN loc[t].smr ELSE NULL
           /\ loc'[t].op = "none" /\ loc'[t].walk = NoWalk /\ loc'[t].outer = NoWalk
           /\ loc'[t].thr = 0 /\ loc'[t].slot = 0 /\ loc'[t].last = Empty
           /\ loc'[t].adjs = 0 /\ loc'[t].doAdjs = FALSE /\ loc'[t].into = {}
           /\ loc'[t].pc = IF loc[t].op = "trimLeft" THEN "reenter" ELSE "idle"
<1> DEFINE Blank(m) == /\ m.op = "none" /\ m.walk = NoWalk /\ m.outer = NoWalk
                       /\ m.thr = 0 /\ m.slot = 0 /\ m.last = Empty /\ m.adjs = 0
                       /\ m.doAdjs = FALSE /\ m.into = {} /\ m.list = {}
           k == Between(Empty)
           l == [k EXCEPT !.inside = loc[t].inside, !.holds = loc[t].holds,
                          !.vec = loc[t].vec, !.smr = loc[t].smr]
           r == [l EXCEPT !.pc = "reenter"]
           n == [l EXCEPT !.smr = NULL]
<1>1. /\ loc[t].pc = "free" /\ loc[t].list = {}
      /\ Goes(t, IF loc[t].op = "trimLeft" THEN r ELSE IF loc[t].inside THEN l ELSE n)
  BY Zenon DEF EndCall, At
<1>2. loc[t] \in Local
  BY DEF TypeOK, Local
<1>3. k \in Local
  BY BetweenType
<1>4. Blank(k) /\ k.pc = "idle"
  BY DEF Between
<1> HIDE DEF k
<1>5. l \in Local
  BY <1>2, <1>3 DEF Local, Locals
<1>6. Blank(l) /\ l.pc = "idle" /\ SameClient(loc[t], l)
  BY <1>3, <1>4 DEF Local, Locals, SameClient
<1> HIDE DEF l
<1>7. r \in Local
  BY <1>5 DEF Local, Locals, Labels
<1>8. Blank(r) /\ r.pc = "reenter" /\ SameClient(loc[t], r)
  BY <1>5, <1>6 DEF Local, Locals, SameClient
<1>9. n \in Local
  BY <1>5 DEF Local, Locals, Ptr
<1>10. /\ Blank(n) /\ n.pc = "idle" /\ n.inside = loc[t].inside
       /\ n.holds = loc[t].holds /\ n.vec = loc[t].vec /\ n.smr = NULL
  BY <1>5, <1>6 DEF Local, Locals, SameClient
<1> HIDE DEF r, n
<1>11. CASE loc[t].op = "trimLeft"
  BY <1>1, <1>7, <1>8, <1>11, GoesTo DEF SameClient
<1>12. CASE loc[t].op # "trimLeft" /\ loc[t].inside
  BY <1>1, <1>5, <1>6, <1>12, GoesTo DEF SameClient
<1>13. CASE loc[t].op # "trimLeft" /\ ~loc[t].inside
  BY <1>1, <1>9, <1>10, <1>13, GoesTo
<1> QED
  BY <1>11, <1>12, <1>13


-----------------------------------------------------------------------------
(* The slots, lists and counters are those of Hyaline.  A thread that is   *)
(* about to acknowledge, or that searches for a slot, is where Hyaline's   *)
(* would be after it or before it; the abstract retirement is over when    *)
(* the counter of its batch is complete.                                   *)

Bare(w) == [curr |-> w.curr, nxt |-> w.nxt, end |-> w.end]
None == [curr |-> NULL, nxt |-> NULL, end |-> NULL]

\* The acknowledgement of a nested leave is followed by the rest of trim's walk.
GoesOn(l) == l.op = "nested" /\ l.outer.curr # l.outer.end
Out(l) == ~l.inside /\ l.op \in {"none", "enter"}
Live(l) == l.op = "retire" /\ ~(l.pc = "free" /\ l.doAdjs)

PcOf(l) ==
    IF l.op \in {"none", "enter", "deref"} THEN "idle"
    ELSE IF l.pc = "ack" THEN (IF GoesOn(l) THEN "travRead" ELSE "free")
    ELSE IF l.pc = "retireAccess" THEN "retireLoad"
    ELSE IF l.pc = "retireCount" THEN "retireNext" ELSE l.pc
OpOf(l) ==
    IF l.op \in {"enter", "deref"} THEN "none"
    ELSE IF l.pc = "ack" /\ l.op = "nested" THEN "trimLeft" ELSE l.op
VecOf(l) == IF Out(l) THEN 0 ELSE l.vec
SmrOf(l) == IF Out(l) THEN NULL ELSE l.smr
LastOf(l) == l.last
WalkOf(l) ==
    IF l.pc # "ack" THEN Bare(l.walk) ELSE IF GoesOn(l) THEN Bare(l.outer) ELSE None
OuterOf(l) == IF l.pc = "ack" THEN None ELSE Bare(l.outer)
ThrOf(l) == IF l.pc = "ack" /\ l.op = "nested" THEN 0 ELSE l.thr
ListOf(l) == l.list
BatchOf(l) == IF Live(l) THEN l.batch ELSE NULL
SlotOf(l) == IF Live(l) THEN l.slot ELSE 0
AdjsOf(l) == IF Live(l) THEN l.adjs ELSE 0
DoAdjsOf(l) == IF Live(l) THEN l.doAdjs ELSE FALSE
SkippedOf(l) ==
    IF l.pc = "retireFinish" THEN Slots \ l.into
    ELSE IF l.pc \in RetireLabels THEN (0 .. l.slot - 1) \ l.into
    ELSE {}

absPc == [t \in Threads |-> PcOf(loc[t])]
absOp == [t \in Threads |-> OpOf(loc[t])]
absVec == [t \in Threads |-> VecOf(loc[t])]
absSmr == [t \in Threads |-> SmrOf(loc[t])]
absLast == [t \in Threads |-> LastOf(loc[t])]
absWalk == [t \in Threads |-> WalkOf(loc[t])]
absOuter == [t \in Threads |-> OuterOf(loc[t])]
absThr == [t \in Threads |-> ThrOf(loc[t])]
absList == [t \in Threads |-> ListOf(loc[t])]
absBatch == [t \in Threads |-> BatchOf(loc[t])]
absSlot == [t \in Threads |-> SlotOf(loc[t])]
absAdjs == [t \in Threads |-> AdjsOf(loc[t])]
absDoAdjs == [t \in Threads |-> DoAdjsOf(loc[t])]
absSkipped == [t \in Threads |-> SkippedOf(loc[t])]
absActive == {t \in Threads : loc[t].inside}
absStatus ==
    [b \in Batches |-> IF status[b] \in {"new", "linked"} THEN "live" ELSE status[b]]
absGrace == [b \in Batches |-> {}]
absCovers == [t \in Threads |-> IF loc[t].pc = "retireAdjust" THEN covers[t] ELSE {}]

P == INSTANCE HyalineProofs WITH
    RetireOutside <- TRUE, active <- absActive, status <- absStatus, grace <- absGrace,
    pc <- absPc, op <- absOp, vec <- absVec, smr <- absSmr,
    last <- absLast, walk <- absWalk, outer <- absOuter, thr <- absThr,
    list <- absList, batch <- absBatch, slot <- absSlot, adjs <- absAdjs,
    doAdjs <- absDoAdjs, skipped <- absSkipped, covers <- absCovers

\* The words, chains and sets of the two modules are the same.
LEMMA SameFinite == \A S : P!IsFiniteSet(S) <=> IsFiniteSet(S)
BY Zenon DEF IsFiniteSet, P!IsFiniteSet

\* Hyaline's instance of FiniteSets counts as this module's does.
LEMMA SameSize == \A S : P!Cardinality(S) = Cardinality(S)
BY Zenon DEF Cardinality, P!Cardinality

\* Hyaline's words, head words and slots are those of Hyaline-S.
LEMMA SameWords ==
    /\ P!Word = Word /\ P!Addend = Addend /\ P!MinusOne = MinusOne
    /\ P!HeadWord = HeadWord /\ P!Empty = Empty /\ P!Ptr = Ptr /\ P!Slots = Slots
    /\ \A x, v : P!AddW(x, v) = AddW(x, v)
    /\ \A x : P!NegW(x) = NegW(x)
BY Zenon DEF P!Word, Word, P!Addend, Addend, P!MinusOne, MinusOne, P!HeadWord, HeadWord,
   P!Empty, Empty, P!Ptr, Ptr, P!Slots, Slots, P!AddW, AddW, P!NegW, NegW

\* The assumptions of Hyaline hold of the constants of Hyaline-S.
LEMMA CoreAssumption == P!HyalineAssumption
BY HyalineSAssumption, SameFinite, SameSize DEF P!HyalineAssumption, P!Share

\* A step of t takes its part f[t] of the state of Hyaline from x to y.
Follows(f, g, t, x, y) == f[t] = x /\ g = [f EXCEPT ![t] = y] /\ (y = x => g = f)

\* A step of one thread changes the image of that thread alone.
LEMMA Mapped ==
    ASSUME NEW t \in Threads, Others(t)
    PROVE
        /\ Follows(absPc, absPc', t, PcOf(loc[t]), PcOf(loc'[t]))
        /\ Follows(absOp, absOp', t, OpOf(loc[t]), OpOf(loc'[t]))
        /\ Follows(absVec, absVec', t, VecOf(loc[t]), VecOf(loc'[t]))
        /\ Follows(absSmr, absSmr', t, SmrOf(loc[t]), SmrOf(loc'[t]))
        /\ Follows(absLast, absLast', t, LastOf(loc[t]), LastOf(loc'[t]))
        /\ Follows(absWalk, absWalk', t, WalkOf(loc[t]), WalkOf(loc'[t]))
        /\ Follows(absOuter, absOuter', t, OuterOf(loc[t]), OuterOf(loc'[t]))
        /\ Follows(absThr, absThr', t, ThrOf(loc[t]), ThrOf(loc'[t]))
        /\ Follows(absList, absList', t, ListOf(loc[t]), ListOf(loc'[t]))
        /\ Follows(absBatch, absBatch', t, BatchOf(loc[t]), BatchOf(loc'[t]))
        /\ Follows(absSlot, absSlot', t, SlotOf(loc[t]), SlotOf(loc'[t]))
        /\ Follows(absAdjs, absAdjs', t, AdjsOf(loc[t]), AdjsOf(loc'[t]))
        /\ Follows(absDoAdjs, absDoAdjs', t, DoAdjsOf(loc[t]), DoAdjsOf(loc'[t]))
        /\ Follows(absSkipped, absSkipped', t, SkippedOf(loc[t]), SkippedOf(loc'[t]))
<1>1. Follows(absPc, absPc', t, PcOf(loc[t]), PcOf(loc'[t]))
  BY DEF Follows, absPc, Others
<1>2. Follows(absOp, absOp', t, OpOf(loc[t]), OpOf(loc'[t]))
  BY DEF Follows, absOp, Others
<1>3. Follows(absVec, absVec', t, VecOf(loc[t]), VecOf(loc'[t]))
  BY DEF Follows, absVec, Others
<1>4. Follows(absSmr, absSmr', t, SmrOf(loc[t]), SmrOf(loc'[t]))
  BY DEF Follows, absSmr, Others
<1>5. Follows(absLast, absLast', t, LastOf(loc[t]), LastOf(loc'[t]))
  BY DEF Follows, absLast, Others
<1>6. Follows(absWalk, absWalk', t, WalkOf(loc[t]), WalkOf(loc'[t]))
  BY DEF Follows, absWalk, Others
<1>7. Follows(absOuter, absOuter', t, OuterOf(loc[t]), OuterOf(loc'[t]))
  BY DEF Follows, absOuter, Others
<1>8. Follows(absThr, absThr', t, ThrOf(loc[t]), ThrOf(loc'[t]))
  BY DEF Follows, absThr, Others
<1>9. Follows(absList, absList', t, ListOf(loc[t]), ListOf(loc'[t]))
  BY DEF Follows, absList, Others
<1>10. Follows(absBatch, absBatch', t, BatchOf(loc[t]), BatchOf(loc'[t]))
  BY DEF Follows, absBatch, Others
<1>11. Follows(absSlot, absSlot', t, SlotOf(loc[t]), SlotOf(loc'[t]))
  BY DEF Follows, absSlot, Others
<1>12. Follows(absAdjs, absAdjs', t, AdjsOf(loc[t]), AdjsOf(loc'[t]))
  BY DEF Follows, absAdjs, Others
<1>13. Follows(absDoAdjs, absDoAdjs', t, DoAdjsOf(loc[t]), DoAdjsOf(loc'[t]))
  BY DEF Follows, absDoAdjs, Others
<1>14. Follows(absSkipped, absSkipped', t, SkippedOf(loc[t]), SkippedOf(loc'[t]))
  BY DEF Follows, absSkipped, Others
<1> QED
  BY <1>1, <1>2, <1>3, <1>4, <1>5, <1>6, <1>7, <1>8, <1>9, <1>10, <1>11, <1>12, <1>13, <1>14

\* The threads inside follow the caller's flag.
LEMMA MappedHere ==
    ASSUME NEW t \in Threads, Others(t)
    PROVE  /\ t \in absActive <=> loc[t].inside
           /\ loc'[t].inside = loc[t].inside => absActive' = absActive
           /\ ~loc'[t].inside => absActive' = absActive \ {t}
           /\ loc'[t].inside => absActive' = absActive \union {t}
<1>1. \A u \in Threads : u # t => (u \in absActive' <=> u \in absActive)
  BY Zenon DEF absActive, Others
<1>2. /\ t \in absActive <=> loc[t].inside
      /\ t \in absActive' <=> loc'[t].inside
      /\ absActive \subseteq Threads /\ absActive' \subseteq Threads
  BY Zenon DEF absActive
<1>3. ASSUME loc'[t].inside = loc[t].inside PROVE absActive' = absActive
  <2>1. t \in absActive' <=> t \in absActive
    BY <1>2, <1>3, Zenon
  <2> QED
    BY <1>1, <1>2, <2>1
<1>4. ASSUME ~loc'[t].inside PROVE absActive' = absActive \ {t}
  <2>1. t \notin absActive'
    BY <1>2, <1>4, Zenon
  <2> QED
    BY <1>1, <1>2, <2>1
<1>5. ASSUME loc'[t].inside PROVE absActive' = absActive \union {t}
  <2>1. t \in absActive'
    BY <1>2, <1>5, Zenon
  <2> QED
    BY <1>1, <1>2, <2>1
<1> QED
  BY <1>2, <1>3, <1>4, <1>5, Zenon

\* The threads a retirer covers are seen while it is about to add its references.
LEMMA MappedCovers ==
    ASSUME NEW t \in Threads, Others(t), covers \in [Threads -> SUBSET Threads],
           covers' \in [Threads -> SUBSET Threads],
           \A u \in Threads : u # t => covers'[u] = covers[u]
    PROVE  /\ absCovers[t] = IF loc[t].pc = "retireAdjust" THEN covers[t] ELSE {}
           /\ absCovers' = [absCovers EXCEPT ![t] =
                              IF loc'[t].pc = "retireAdjust" THEN covers'[t] ELSE {}]
           /\ loc[t].pc # "retireAdjust" /\ loc'[t].pc # "retireAdjust" =>
                absCovers' = absCovers
BY DEF absCovers, Others

\* The image of the batches follows their status, and no batch has a grace period.
LEMMA MappedStatus ==
    /\ status' = status => absStatus' = absStatus
    /\ absGrace' = absGrace
BY DEF absStatus, absGrace

\* What the invariants of Hyaline-S and of Hyaline say before a step.
Base == TypeOK /\ ThreadInv /\ ObjectInv /\ P!CoreInv

\* The locals of a thread in Hyaline.
LEMMA Image ==
    ASSUME NEW t \in Threads
    PROVE  /\ absPc[t] = PcOf(loc[t]) /\ absOp[t] = OpOf(loc[t])
           /\ absVec[t] = VecOf(loc[t]) /\ absSmr[t] = SmrOf(loc[t])
           /\ absLast[t] = loc[t].last /\ absWalk[t] = WalkOf(loc[t])
           /\ absOuter[t] = OuterOf(loc[t]) /\ absThr[t] = ThrOf(loc[t])
           /\ absList[t] = loc[t].list /\ absBatch[t] = BatchOf(loc[t])
           /\ absSlot[t] = SlotOf(loc[t]) /\ absAdjs[t] = AdjsOf(loc[t])
           /\ absDoAdjs[t] = DoAdjsOf(loc[t]) /\ absSkipped[t] = SkippedOf(loc[t])
           /\ absCovers[t] = IF loc[t].pc = "retireAdjust" THEN covers[t] ELSE {}
           /\ t \in absActive <=> loc[t].inside
BY DEF absPc, absOp, absVec, absSmr, absLast, absWalk, absOuter, absThr, absList,
       absBatch, absSlot, absAdjs, absDoAdjs, absSkipped, absCovers, absActive,
       LastOf, ListOf

\* A walk without its count of nodes.
LEMMA BareIs ==
    \A w : Bare(w).curr = w.curr /\ Bare(w).nxt = w.nxt /\ Bare(w).end = w.end
BY DEF Bare

\* What the next access of a thread goes to.
LEMMA Addresses ==
    ASSUME Base, NEW t \in Threads
    PROVE  /\ loc[t].pc = "leaveRead" => loc[t].last.ptr \in Batches
           /\ loc[t].pc = "trimRead" => loc[t].smr \in Batches
           /\ loc[t].pc = "travDrop" => loc[t].walk.curr \in Batches
           /\ loc[t].pc \in {"leaveAdjust", "leaveClear", "retireAdjust"} =>
                loc[t].last.ptr \in Batches
           /\ loc[t].pc \in RetireLabels => loc[t].batch \in Batches
<1>1. P!TypeOK /\ P!ThreadInv /\ P!HyalineAssumption /\ ControlOK(t)
  BY CoreAssumption DEF Base, P!CoreInv, ThreadInv
<1>2. ASSUME loc[t].pc = "leaveRead" PROVE loc[t].last.ptr \in Batches
  <2>1. absPc[t] = "leaveRead" /\ absLast[t] = loc[t].last
    BY <1>1, <1>2, Image DEF PcOf, ControlOK, LeaveLabels, EnterLabels, DerefLabels
  <2>2. absLast[t].ptr # absSmr[t]
    BY <1>1, <2>1 DEF P!ThreadInv, P!ThreadOK, P!LeavesOK
  <2> QED
    BY <1>1, <2>1, <2>2, P!LeavesHead
<1>3. ASSUME loc[t].pc = "trimRead" PROVE loc[t].smr \in Batches
  <2>1. absPc[t] = "trimRead" /\ absSmr[t] = loc[t].smr
    BY <1>1, <1>3, Image DEF PcOf, SmrOf, Out, ControlOK
  <2> QED
    BY <1>1, <2>1, P!TrimsHandle
<1>4. ASSUME loc[t].pc = "travDrop" PROVE loc[t].walk.curr \in Batches
  <2>1. absPc[t] = "travDrop" /\ absWalk[t] = Bare(loc[t].walk)
    BY <1>1, <1>4, Image DEF PcOf, WalkOf, ControlOK, EnterLabels, DerefLabels
  <2> QED
    BY <1>1, <2>1, P!DropsTodo, BareIs
<1>5. ASSUME loc[t].pc \in {"leaveAdjust", "leaveClear", "retireAdjust"}
      PROVE  loc[t].last.ptr \in Batches
  <2>1. absPc[t] = loc[t].pc /\ absLast[t] = loc[t].last
    BY <1>1, <1>5, Image
    DEF PcOf, ControlOK, LeaveLabels, RetireLabels, EnterLabels, DerefLabels
  <2> QED
    BY <1>1, <1>5, <2>1, P!RetiresBatch
<1>6. ASSUME loc[t].pc \in RetireLabels PROVE loc[t].batch \in Batches
  BY <1>6 DEF Base, TypeOK, Locals, ThreadInv, RetireOK, Ptr
<1> QED
  BY <1>2, <1>3, <1>4, <1>5, <1>6

-----------------------------------------------------------------------------
(* The steps that Hyaline does not see.                                    *)

SameImage(l, m) ==
    /\ PcOf(m) = PcOf(l) /\ OpOf(m) = OpOf(l) /\ VecOf(m) = VecOf(l)
    /\ SmrOf(m) = SmrOf(l) /\ LastOf(m) = LastOf(l) /\ WalkOf(m) = WalkOf(l)
    /\ OuterOf(m) = OuterOf(l) /\ ThrOf(m) = ThrOf(l) /\ ListOf(m) = ListOf(l)
    /\ BatchOf(m) = BatchOf(l) /\ SlotOf(m) = SlotOf(l) /\ AdjsOf(m) = AdjsOf(l)
    /\ DoAdjsOf(m) = DoAdjsOf(l) /\ SkippedOf(m) = SkippedOf(l)

\* A step that Hyaline does not see.
LEMMA Hidden ==
    ASSUME TypeOK, NEW t \in Threads, Moves(t), SameImage(loc[t], loc'[t]),
           loc'[t].inside = loc[t].inside,
           loc[t].pc # "retireAdjust", loc'[t].pc # "retireAdjust",
           UNCHANGED <<head, next, refs, history>>, absStatus' = absStatus
    PROVE  UNCHANGED P!vars
<1>1. /\ absPc' = absPc /\ absOp' = absOp /\ absVec' = absVec /\ absSmr' = absSmr
      /\ absLast' = absLast /\ absWalk' = absWalk /\ absOuter' = absOuter
      /\ absThr' = absThr /\ absList' = absList /\ absBatch' = absBatch
      /\ absSlot' = absSlot /\ absAdjs' = absAdjs /\ absDoAdjs' = absDoAdjs
      /\ absSkipped' = absSkipped
  BY Mapped DEF Moves, SameImage, Follows
<1>2. absActive' = absActive
  BY MappedHere DEF Moves
<1>3. absCovers' = absCovers
  BY MappedCovers DEF Moves, TypeOK, history
<1>4. absGrace' = absGrace
  BY MappedStatus
<1> QED
  BY <1>1, <1>2, <1>3, <1>4 DEF P!vars, history, owed

\* Outside the slots nothing is seen of a call of enter or deref.
LEMMA HiddenIdle ==
    ASSUME NEW l \in Local, NEW m \in Local, SameWalks(l, m),
           m.inside = l.inside, m.vec = l.vec, m.smr = l.smr,
           l.op \in {"none", "enter", "deref"}, m.op \in {"none", "enter", "deref"},
           l.op = "deref" \/ m.op = "deref" => l.inside,
           l.pc # "ack", m.pc # "ack", l.pc \notin RetireLabels, m.pc \notin RetireLabels,
           m.last = l.last, m.list = l.list
    PROVE  SameImage(l, m)
<1>1. /\ PcOf(m) = PcOf(l) /\ OpOf(m) = OpOf(l)
      /\ LastOf(m) = LastOf(l) /\ ListOf(m) = ListOf(l)
  BY DEF PcOf, OpOf, LastOf, ListOf
<1>2. Out(m) = Out(l)
  BY Fields DEF Out
<1>3. VecOf(m) = VecOf(l) /\ SmrOf(m) = SmrOf(l)
  BY <1>2 DEF VecOf, SmrOf
<1>4. WalkOf(m) = WalkOf(l) /\ OuterOf(m) = OuterOf(l) /\ ThrOf(m) = ThrOf(l)
  BY DEF WalkOf, OuterOf, ThrOf, SameWalks
<1>5. /\ BatchOf(m) = BatchOf(l) /\ SlotOf(m) = SlotOf(l) /\ AdjsOf(m) = AdjsOf(l)
      /\ DoAdjsOf(m) = DoAdjsOf(l)
  BY DEF BatchOf, SlotOf, AdjsOf, DoAdjsOf, Live
<1>6. SkippedOf(m) = SkippedOf(l)
  BY DEF SkippedOf, RetireLabels
<1> QED
  BY <1>1, <1>3, <1>4, <1>5, <1>6 DEF SameImage

\* The search for a slot is such a step.
LEMMA EnterLookHidden ==
    ASSUME Base, NEW t \in Threads, EnterLook(t)
    PROVE  UNCHANGED P!vars
<1>1. TypeOK /\ ControlOK(t) /\ Moves(t) /\ loc[t] \in Local /\ loc'[t] \in Local
  BY EnterLookDoes DEF Base, TypeOK, ThreadInv, Local, Moves
<1>2. /\ SameClient(loc[t], loc'[t]) /\ SameWalks(loc[t], loc'[t])
      /\ loc[t].pc \in {"idle", "reenter", "enterLook"}
      /\ loc'[t].op = "enter" /\ loc'[t].pc \in {"enterLook", "enterAdd"}
      /\ loc'[t].last = loc[t].last /\ loc'[t].list = loc[t].list
  BY <1>1, EnterLookDoes
<1>3. loc[t].op \in {"none", "enter"}
  BY <1>1, <1>2 DEF ControlOK, EnterLabels
<1>4. SameImage(loc[t], loc'[t])
  BY <1>1, <1>2, <1>3, HiddenIdle DEF RetireLabels, SameClient
<1>5. UNCHANGED <<head, next, refs, history>> /\ status' = status
  BY Zenon DEF EnterLook, memory, structure
<1> QED
  BY <1>1, <1>2, <1>4, <1>5, Hidden, MappedStatus DEF SameClient

\* A step of deref.
LEMMA DerefHidden ==
    ASSUME Base, NEW t \in Threads,
           Deref(t) \/ DerefLoad(t) \/ DerefEpoch(t) \/ DerefAccess(t),
           UNCHANGED <<head, history>>
    PROVE  UNCHANGED P!vars
<1>1. TypeOK /\ ControlOK(t) /\ loc[t] \in Local
  BY DEF Base, TypeOK, ThreadInv, Local
<1>2. /\ Moves(t) /\ loc[t].pc \in {"idle", "derefLoad", "derefEpoch", "derefAccess"}
      /\ loc[t].pc = "idle" => loc[t].inside
      /\ loc'[t].inside = loc[t].inside /\ loc'[t].vec = loc[t].vec
      /\ loc'[t].smr = loc[t].smr /\ SameWalks(loc[t], loc'[t])
      /\ loc'[t].last = loc[t].last /\ loc'[t].list = loc[t].list
      /\ loc'[t].op \in {"none", "deref", loc[t].op}
      /\ loc'[t].pc \in {"idle", "derefLoad", "derefEpoch", "derefAccess"}
  <2>1. CASE Deref(t)
    BY <1>1, <2>1, DerefDoes DEF SameClient
  <2>2. CASE DerefLoad(t)
    BY <1>1, <2>2, DerefLoadDoes DEF SameClient
  <2>3. CASE DerefEpoch(t)
    BY <1>1, <2>3, DerefEpochDoes DEF SameClient
  <2>4. CASE DerefAccess(t)
    <3>1. loc'[t].pc \in {"derefLoad", "derefAccess"}
      BY <1>1, <2>4, DerefAccessDoes
    <3> QED
      BY <1>1, <2>4, <3>1, DerefAccessDoes DEF SameClient
  <2> QED
    BY <2>1, <2>2, <2>3, <2>4
<1>3. loc[t].op \in {"none", "deref"} /\ loc[t].inside
  BY <1>1, <1>2 DEF ControlOK, DerefLabels
<1>4. SameImage(loc[t], loc'[t])
  BY <1>1, <1>2, <1>3, HiddenIdle DEF RetireLabels, Moves
<1>5. UNCHANGED <<next, refs>> /\ status' = status
  BY DEF Deref, DerefLoad, DerefEpoch, DerefAccess, memory, structure
<1> QED
  BY <1>1, <1>2, <1>4, <1>5, Hidden, MappedStatus

\* An acknowledgement.
LEMMA AckHidden ==
    ASSUME Base, NEW t \in Threads, Ack(t)
    PROVE  UNCHANGED P!vars
<1> DEFINE l == loc[t]
           m == loc'[t]
<1>1. TypeOK /\ ControlOK(t) /\ LocalsOK(t) /\ l \in Local
  BY DEF Base, TypeOK, ThreadInv, Local
<1>2. l.pc = "ack" /\ Moves(t) /\ Returned(l, m) /\ m.last = l.last
  BY <1>1, AckDoes
<1>3. l.op \in {"leave", "nested", "trim", "trimLeft"}
  BY <1>1, <1>2, Fields DEF ControlOK, EnterLabels, DerefLabels, RetireLabels, Ops
<1>4. m \in Local
  BY <1>2 DEF Moves
<1> HIDE DEF l, m
<1>5. SameImage(l, m) /\ m.pc # "retireAdjust" /\ m.inside = l.inside
  <2>1. CASE l.op = "nested" /\ l.outer.curr = l.outer.end
    <3>1. /\ m.op = "trimLeft" /\ m.thr = 0 /\ m.walk = l.outer /\ m.outer = NoWalk
          /\ m.pc = "ack"
      BY <1>2, <2>1 DEF Returned
    <3>2. /\ PcOf(m) = PcOf(l) /\ OpOf(m) = OpOf(l) /\ ThrOf(m) = ThrOf(l)
          /\ LastOf(m) = LastOf(l) /\ ListOf(m) = ListOf(l)
      BY <1>2, <2>1, <3>1 DEF PcOf, OpOf, ThrOf, LastOf, ListOf, GoesOn, Returned
    <3>3. WalkOf(m) = WalkOf(l) /\ OuterOf(m) = OuterOf(l)
      BY <1>2, <2>1, <3>1 DEF WalkOf, OuterOf, GoesOn
    <3>4. /\ VecOf(m) = VecOf(l) /\ SmrOf(m) = SmrOf(l) /\ BatchOf(m) = BatchOf(l)
          /\ SlotOf(m) = SlotOf(l) /\ AdjsOf(m) = AdjsOf(l)
          /\ DoAdjsOf(m) = DoAdjsOf(l) /\ SkippedOf(m) = SkippedOf(l)
      BY <1>2, <2>1, <3>1
      DEF VecOf, SmrOf, BatchOf, SlotOf, AdjsOf, DoAdjsOf, SkippedOf, Out, Live,
          RetireLabels, Returned, SameClient
    <3> QED
      BY <1>2, <3>1, <3>2, <3>3, <3>4 DEF SameImage, Returned, SameClient
  <2>2. CASE l.op = "nested" /\ l.outer.curr # l.outer.end
    <3>1. /\ m.op = "trimLeft" /\ m.thr = 0 /\ m.walk = l.outer /\ m.outer = NoWalk
          /\ m.pc = "travRead"
      BY <1>2, <2>2 DEF Returned
    <3>2. /\ PcOf(m) = PcOf(l) /\ OpOf(m) = OpOf(l) /\ ThrOf(m) = ThrOf(l)
          /\ LastOf(m) = LastOf(l) /\ ListOf(m) = ListOf(l)
      BY <1>2, <2>2, <3>1 DEF PcOf, OpOf, ThrOf, LastOf, ListOf, GoesOn, Returned
    <3>3. WalkOf(m) = WalkOf(l) /\ OuterOf(m) = OuterOf(l)
      BY <1>2, <2>2, <3>1 DEF WalkOf, OuterOf, GoesOn, Bare, None, NoWalk
    <3>4. /\ VecOf(m) = VecOf(l) /\ SmrOf(m) = SmrOf(l) /\ BatchOf(m) = BatchOf(l)
          /\ SlotOf(m) = SlotOf(l) /\ AdjsOf(m) = AdjsOf(l)
          /\ DoAdjsOf(m) = DoAdjsOf(l) /\ SkippedOf(m) = SkippedOf(l)
      BY <1>2, <2>2, <3>1
      DEF VecOf, SmrOf, BatchOf, SlotOf, AdjsOf, DoAdjsOf, SkippedOf, Out, Live,
          RetireLabels, Returned, SameClient
    <3> QED
      BY <1>2, <3>1, <3>2, <3>3, <3>4 DEF SameImage, Returned, SameClient
  <2>3. CASE l.op # "nested"
    <3>1. /\ m.op = l.op /\ m.thr = l.thr /\ m.walk = NoWalk /\ m.outer = l.outer
          /\ m.pc = "free" /\ l.outer = NoWalk
      BY <1>1, <1>2, <2>3 DEF Returned, LocalsOK, l
    <3>2. /\ PcOf(m) = PcOf(l) /\ OpOf(m) = OpOf(l) /\ ThrOf(m) = ThrOf(l)
          /\ LastOf(m) = LastOf(l) /\ ListOf(m) = ListOf(l)
      BY <1>2, <1>3, <2>3, <3>1 DEF PcOf, OpOf, ThrOf, LastOf, ListOf, GoesOn, Returned
    <3>3. WalkOf(m) = WalkOf(l) /\ OuterOf(m) = OuterOf(l)
      BY <1>2, <2>3, <3>1 DEF WalkOf, OuterOf, GoesOn, Bare, None, NoWalk
    <3>4. /\ VecOf(m) = VecOf(l) /\ SmrOf(m) = SmrOf(l) /\ BatchOf(m) = BatchOf(l)
          /\ SlotOf(m) = SlotOf(l) /\ AdjsOf(m) = AdjsOf(l)
          /\ DoAdjsOf(m) = DoAdjsOf(l) /\ SkippedOf(m) = SkippedOf(l)
      BY <1>2, <1>3, <2>3, <3>1
      DEF VecOf, SmrOf, BatchOf, SlotOf, AdjsOf, DoAdjsOf, SkippedOf, Out, Live,
          RetireLabels, Returned, SameClient
    <3> QED
      BY <1>2, <3>1, <3>2, <3>3, <3>4 DEF SameImage, Returned, SameClient
  <2> QED
    BY <2>1, <2>2, <2>3
<1>6. UNCHANGED <<head, next, refs, history>> /\ status' = status
  BY Zenon DEF Ack, memory, structure
<1> QED
  BY <1>1, <1>2, <1>5, <1>6, Hidden, MappedStatus DEF l, m

\* The client links a batch.
LEMMA LinkHidden ==
    ASSUME Base, NEW b \in Batches, Link(b), UNCHANGED <<head, history>>
    PROVE  UNCHANGED P!vars
<1>1. /\ status[b] = "new" /\ status' = [status EXCEPT ![b] = "linked"]
      /\ loc' = loc /\ next' = next /\ refs' = refs
  BY DEF Link, memory
<1>2. status \in [Batches -> {"freed", "new", "linked", "retired"}]
  BY DEF Base, TypeOK
<1>3. absStatus' = absStatus
  BY <1>1, <1>2 DEF absStatus
<1>4. /\ absPc' = absPc /\ absOp' = absOp /\ absVec' = absVec /\ absSmr' = absSmr
      /\ absLast' = absLast /\ absWalk' = absWalk /\ absOuter' = absOuter
      /\ absThr' = absThr /\ absList' = absList /\ absBatch' = absBatch
      /\ absSlot' = absSlot /\ absAdjs' = absAdjs /\ absDoAdjs' = absDoAdjs
      /\ absSkipped' = absSkipped /\ absActive' = absActive /\ absCovers' = absCovers
  BY <1>1
  DEF absPc, absOp, absVec, absSmr, absLast, absWalk, absOuter, absThr, absList,
      absBatch, absSlot, absAdjs, absDoAdjs, absSkipped, absCovers, absActive,
      history, owed
<1> QED
  BY <1>1, <1>3, <1>4, MappedStatus DEF P!vars, history, owed

-----------------------------------------------------------------------------
(* The state of Hyaline in the calls.                                      *)

WalkOps == {"leave", "nested", "trim", "trimLeft"}

\* The image of a thread on a walk.
LEMMA WalkerImage ==
    ASSUME NEW l \in Local, l.op \in WalkOps, l.pc \notin RetireLabels
    PROVE  /\ VecOf(l) = l.vec /\ SmrOf(l) = l.smr /\ BatchOf(l) = NULL
           /\ SlotOf(l) = 0 /\ AdjsOf(l) = 0 /\ DoAdjsOf(l) = FALSE /\ SkippedOf(l) = {}
           /\ LastOf(l) = l.last /\ ListOf(l) = l.list
           /\ l.pc # "ack" => /\ PcOf(l) = l.pc /\ OpOf(l) = l.op /\ ThrOf(l) = l.thr
                              /\ WalkOf(l) = Bare(l.walk) /\ OuterOf(l) = Bare(l.outer)
<1>1. ~Out(l) /\ ~Live(l)
  BY DEF Out, Live, WalkOps
<1>2. /\ VecOf(l) = l.vec /\ SmrOf(l) = l.smr /\ BatchOf(l) = NULL
      /\ SlotOf(l) = 0 /\ AdjsOf(l) = 0 /\ DoAdjsOf(l) = FALSE
  BY <1>1 DEF VecOf, SmrOf, BatchOf, SlotOf, AdjsOf, DoAdjsOf
<1>3. SkippedOf(l) = {} /\ LastOf(l) = l.last /\ ListOf(l) = l.list
  BY DEF SkippedOf, RetireLabels, LastOf, ListOf
<1>4. ASSUME l.pc # "ack"
      PROVE  PcOf(l) = l.pc /\ OpOf(l) = l.op /\ ThrOf(l) = l.thr
  BY <1>4 DEF PcOf, OpOf, ThrOf, WalkOps, RetireLabels
<1>5. ASSUME l.pc # "ack" PROVE WalkOf(l) = Bare(l.walk) /\ OuterOf(l) = Bare(l.outer)
  BY <1>5 DEF WalkOf, OuterOf
<1> QED
  BY <1>2, <1>3, <1>4, <1>5

\* The image of a thread that retires.
LEMMA RetirerImage ==
    ASSUME NEW l \in Local, l.op = "retire", l.pc \in RetireLabels
    PROVE  /\ VecOf(l) = l.vec /\ SmrOf(l) = l.smr /\ BatchOf(l) = l.batch
           /\ SlotOf(l) = l.slot /\ AdjsOf(l) = l.adjs /\ DoAdjsOf(l) = l.doAdjs
           /\ SkippedOf(l) = IF l.pc = "retireFinish" THEN Slots \ l.into
                             ELSE (0 .. l.slot - 1) \ l.into
           /\ LastOf(l) = l.last /\ ListOf(l) = l.list
           /\ PcOf(l) = IF l.pc = "retireAccess" THEN "retireLoad"
                        ELSE IF l.pc = "retireCount" THEN "retireNext" ELSE l.pc
           /\ OpOf(l) = l.op /\ ThrOf(l) = l.thr
           /\ WalkOf(l) = Bare(l.walk) /\ OuterOf(l) = Bare(l.outer)
<1>1. ~Out(l) /\ Live(l)
  BY DEF Out, Live, RetireLabels
<1>2. /\ VecOf(l) = l.vec /\ SmrOf(l) = l.smr /\ BatchOf(l) = l.batch
      /\ SlotOf(l) = l.slot /\ AdjsOf(l) = l.adjs /\ DoAdjsOf(l) = l.doAdjs
  BY <1>1 DEF VecOf, SmrOf, BatchOf, SlotOf, AdjsOf, DoAdjsOf
<1>3. /\ SkippedOf(l) = IF l.pc = "retireFinish" THEN Slots \ l.into
                        ELSE (0 .. l.slot - 1) \ l.into
      /\ LastOf(l) = l.last /\ ListOf(l) = l.list
  BY DEF SkippedOf, LastOf, ListOf
<1>4. /\ PcOf(l) = IF l.pc = "retireAccess" THEN "retireLoad"
                   ELSE IF l.pc = "retireCount" THEN "retireNext" ELSE l.pc
      /\ OpOf(l) = l.op /\ ThrOf(l) = l.thr
  BY DEF PcOf, OpOf, ThrOf, RetireLabels
<1>5. WalkOf(l) = Bare(l.walk) /\ OuterOf(l) = Bare(l.outer)
  BY DEF WalkOf, OuterOf, RetireLabels
<1> QED
  BY <1>2, <1>3, <1>4, <1>5

\* The image of a thread between two calls, or before its enter counts.
LEMMA IdleImage ==
    ASSUME NEW l \in Local, l.op \in {"none", "enter"}, l.pc # "ack", l.pc \notin RetireLabels
    PROVE  /\ VecOf(l) = (IF ~l.inside THEN 0 ELSE l.vec)
           /\ SmrOf(l) = (IF ~l.inside THEN NULL ELSE l.smr) /\ BatchOf(l) = NULL
           /\ SlotOf(l) = 0 /\ AdjsOf(l) = 0 /\ DoAdjsOf(l) = FALSE /\ SkippedOf(l) = {}
           /\ LastOf(l) = l.last /\ ListOf(l) = l.list
           /\ PcOf(l) = "idle" /\ OpOf(l) = "none" /\ ThrOf(l) = l.thr
           /\ WalkOf(l) = Bare(l.walk) /\ OuterOf(l) = Bare(l.outer)
<1>1. (Out(l) <=> ~l.inside) /\ ~Live(l)
  BY DEF Out, Live
<1>2. /\ VecOf(l) = (IF ~l.inside THEN 0 ELSE l.vec)
      /\ SmrOf(l) = (IF ~l.inside THEN NULL ELSE l.smr) /\ BatchOf(l) = NULL
      /\ SlotOf(l) = 0 /\ AdjsOf(l) = 0 /\ DoAdjsOf(l) = FALSE
  BY <1>1 DEF VecOf, SmrOf, BatchOf, SlotOf, AdjsOf, DoAdjsOf
<1>3. SkippedOf(l) = {} /\ LastOf(l) = l.last /\ ListOf(l) = l.list
  BY DEF SkippedOf, RetireLabels, LastOf, ListOf
<1>4. PcOf(l) = "idle" /\ OpOf(l) = "none" /\ ThrOf(l) = l.thr
  BY DEF PcOf, OpOf, ThrOf
<1>5. WalkOf(l) = Bare(l.walk) /\ OuterOf(l) = Bare(l.outer)
  BY DEF WalkOf, OuterOf
<1> QED
  BY <1>2, <1>3, <1>4, <1>5

\* No batch is waited for by the threads inside: the epochs stand in for that.
LEMMA ReleasedIs == \A t : P!Released(t) = absGrace /\ absGrace' = absGrace
BY MappedStatus DEF P!Released, absGrace

-----------------------------------------------------------------------------
(* The steps of Hyaline.                                                   *)

\* The client allocates a batch in both.
LEMMA AllocMaps ==
    ASSUME Base, NEW b \in Batches, Alloc(b), UNCHANGED <<head, history>>
    PROVE  P!Alloc(b)
<1>1. /\ status[b] = "freed" /\ status' = [status EXCEPT ![b] = "new"]
      /\ loc' = loc /\ next' = next /\ refs' = refs
  BY DEF Alloc
<1>2. status \in [Batches -> {"freed", "new", "linked", "retired"}]
  BY DEF Base, TypeOK
<1>3. absStatus[b] = "freed" /\ absStatus' = [absStatus EXCEPT ![b] = "live"]
  BY <1>1, <1>2 DEF absStatus
<1>4. /\ absPc' = absPc /\ absOp' = absOp /\ absVec' = absVec /\ absSmr' = absSmr
      /\ absLast' = absLast /\ absWalk' = absWalk /\ absOuter' = absOuter
      /\ absThr' = absThr /\ absList' = absList /\ absBatch' = absBatch
      /\ absSlot' = absSlot /\ absAdjs' = absAdjs /\ absDoAdjs' = absDoAdjs
      /\ absSkipped' = absSkipped /\ absActive' = absActive /\ absCovers' = absCovers
  BY <1>1
  DEF absPc, absOp, absVec, absSmr, absLast, absWalk, absOuter, absThr, absList,
      absBatch, absSlot, absAdjs, absDoAdjs, absSkipped, absCovers, absActive,
      history, owed
<1> QED
  BY <1>1, <1>3, <1>4, MappedStatus
  DEF P!Alloc, P!shared, P!history, P!callerLocals, P!walkLocals, P!retireLocals,
      history, owed

\* The step that counts the caller in is Hyaline's enter, in the slot that was found.
LEMMA EnterMaps ==
    ASSUME Base, NEW t \in Threads, EnterAdd(t)
    PROVE  P!Enter(t, loc[t].slot)
<1> DEFINE l == loc[t]
           m == loc'[t]
           s == loc[t].slot
<1>1. /\ TypeOK /\ ControlOK(t) /\ LocalsOK(t) /\ l \in Local /\ s \in Slots
      /\ head[s] \in HeadWord
  BY Fields DEF Base, TypeOK, ThreadInv, Local
<1>2. /\ l.pc = "enterAdd" /\ Moves(t) /\ m.pc = "idle" /\ m.inside /\ m.vec = s
      /\ m.smr = head[s].ptr /\ m.op = "none" /\ m.walk = NoWalk /\ m.outer = NoWalk
      /\ m.thr = 0 /\ m.list = {} /\ m.last = Empty
  BY <1>1, EnterAddDoes
<1>3. /\ l.op = "enter" /\ ~l.inside /\ l.last = Empty /\ l.thr = 0 /\ l.list = {}
      /\ l.walk = NoWalk /\ l.outer = NoWalk
  BY <1>1, <1>2 DEF ControlOK, LocalsOK, EnterLabels
<1>4. /\ head' = [head EXCEPT ![s].refs = AddW(@, 1)]
      /\ UNCHANGED <<next, refs, history>> /\ status' = status
  BY Zenon DEF EnterAdd, memory, structure
<1>5. head' = [head EXCEPT ![s] = [refs |-> AddW(head[s].refs, 1), ptr |-> head[s].ptr]]
  <2>1. [head[s] EXCEPT !.refs = AddW(@, 1)]
          = [refs |-> AddW(head[s].refs, 1), ptr |-> head[s].ptr]
    BY <1>1 DEF HeadWord
  <2> QED
    BY <1>4, <2>1, Zenon
<1> HIDE DEF l, m, s
<1>6. /\ VecOf(m) = s /\ SmrOf(m) = head[s].ptr /\ PcOf(l) = "idle" /\ PcOf(m) = PcOf(l)
      /\ OpOf(m) = OpOf(l) /\ LastOf(m) = LastOf(l) /\ WalkOf(m) = WalkOf(l)
      /\ OuterOf(m) = OuterOf(l) /\ ThrOf(m) = ThrOf(l) /\ ListOf(m) = ListOf(l)
      /\ BatchOf(m) = BatchOf(l) /\ SlotOf(m) = SlotOf(l) /\ AdjsOf(m) = AdjsOf(l)
      /\ DoAdjsOf(m) = DoAdjsOf(l) /\ SkippedOf(m) = SkippedOf(l)
  <2>1. /\ l.op \in {"none", "enter"} /\ l.pc # "ack" /\ l.pc \notin RetireLabels
        /\ m.op \in {"none", "enter"} /\ m.pc # "ack" /\ m.pc \notin RetireLabels
        /\ l \in Local /\ m \in Local
    BY <1>1, <1>2, <1>3 DEF RetireLabels, Moves, l, m
  <2>2. /\ VecOf(m) = s /\ SmrOf(m) = head[s].ptr /\ BatchOf(m) = NULL
        /\ SlotOf(m) = 0 /\ AdjsOf(m) = 0 /\ DoAdjsOf(m) = FALSE /\ SkippedOf(m) = {}
        /\ LastOf(m) = m.last /\ ListOf(m) = m.list
        /\ PcOf(m) = "idle" /\ OpOf(m) = "none" /\ ThrOf(m) = m.thr
        /\ WalkOf(m) = Bare(m.walk) /\ OuterOf(m) = Bare(m.outer)
    BY <1>2, <2>1, IdleImage
  <2>3. /\ BatchOf(l) = NULL
        /\ SlotOf(l) = 0 /\ AdjsOf(l) = 0 /\ DoAdjsOf(l) = FALSE /\ SkippedOf(l) = {}
        /\ LastOf(l) = l.last /\ ListOf(l) = l.list
        /\ PcOf(l) = "idle" /\ OpOf(l) = "none" /\ ThrOf(l) = l.thr
        /\ WalkOf(l) = Bare(l.walk) /\ OuterOf(l) = Bare(l.outer)
    BY <2>1, IdleImage
  <2> QED
    BY <1>2, <1>3, <2>2, <2>3
<1>7. /\ absVec' = [absVec EXCEPT ![t] = s] /\ absSmr' = [absSmr EXCEPT ![t] = head[s].ptr]
      /\ absPc[t] = "idle" /\ absPc' = absPc /\ absOp' = absOp
      /\ absLast' = absLast /\ absWalk' = absWalk /\ absOuter' = absOuter
      /\ absThr' = absThr /\ absList' = absList /\ absBatch' = absBatch
      /\ absSlot' = absSlot /\ absAdjs' = absAdjs /\ absDoAdjs' = absDoAdjs
      /\ absSkipped' = absSkipped
  BY <1>2, <1>6, Mapped DEF Moves, Follows, l, m
<1>8. t \notin absActive /\ absActive' = absActive \union {t}
  BY <1>2, <1>3, MappedHere DEF Moves, l, m
<1>9. absCovers' = absCovers /\ absStatus' = absStatus /\ absGrace' = absGrace
  BY <1>1, <1>2, <1>4, MappedCovers, MappedStatus DEF Moves, TypeOK, history, l, m
<1> QED
  BY <1>4, <1>5, <1>7, <1>8, <1>9, SameWords
  DEF P!Enter, P!EnterSlot, P!history, P!walkLocals, P!retireLocals, history, owed, s

\* leave begins in both, by itself or inside a trim.
LEMMA LeaveLoadMaps ==
    ASSUME Base, NEW t \in Threads, LeaveLoad(t)
    PROVE  P!Leave(t) \/ P!NestedLeave(t)
<1> DEFINE l == loc[t]
           m == loc'[t]
           w == head[loc[t].vec]
           p == IF w.ptr # l.smr THEN "leaveRead" ELSE "leaveCas"
<1>1. /\ TypeOK /\ ControlOK(t) /\ l \in Local /\ w \in HeadWord
  BY Fields DEF Base, TypeOK, ThreadInv, Local
<1>2. /\ Moves(t) /\ ((l.pc = "idle" /\ l.inside) \/ l.pc = "leaveLoad")
      /\ ~m.inside /\ m.vec = l.vec /\ m.smr = l.smr
      /\ m.op = (IF l.op = "nested" THEN "nested" ELSE "leave")
      /\ SameWalks(l, m) /\ m.list = l.list /\ m.last = w /\ m.pc = p
  BY <1>1, LeaveLoadDoes
<1>3. UNCHANGED <<head, next, refs, history>> /\ status' = status
  BY Zenon DEF LeaveLoad, memory, structure
<1>4. /\ m \in Local /\ m.pc \notin RetireLabels /\ m.pc # "ack" /\ m.op \in WalkOps
      /\ m.pc # "retireAdjust" /\ l.pc # "retireAdjust"
  BY <1>2 DEF Moves, RetireLabels, WalkOps
<1>5. l.inside /\ l.pc \notin RetireLabels /\ l.pc # "ack"
  BY <1>1, <1>2 DEF ControlOK, RetireLabels
<1>6. CASE l.pc = "idle"
  <2>1. l.op = "none"
    BY <1>1, <1>6 DEF ControlOK
  <2> HIDE DEF l, m, w, p
  <2>2. /\ VecOf(l) = l.vec /\ SmrOf(l) = l.smr /\ PcOf(l) = "idle"
        /\ PcOf(m) = p /\ OpOf(m) = "leave" /\ LastOf(m) = w
        /\ VecOf(m) = VecOf(l) /\ SmrOf(m) = SmrOf(l) /\ WalkOf(m) = WalkOf(l)
        /\ OuterOf(m) = OuterOf(l) /\ ThrOf(m) = ThrOf(l) /\ ListOf(m) = ListOf(l)
        /\ BatchOf(m) = BatchOf(l) /\ SlotOf(m) = SlotOf(l) /\ AdjsOf(m) = AdjsOf(l)
        /\ DoAdjsOf(m) = DoAdjsOf(l) /\ SkippedOf(m) = SkippedOf(l)
    BY <1>1, <1>2, <1>4, <1>5, <2>1, IdleImage, WalkerImage DEF SameWalks
  <2>3. /\ absVec[t] = l.vec /\ absSmr[t] = l.smr /\ absPc[t] = "idle"
        /\ absPc' = [absPc EXCEPT ![t] = p] /\ absOp' = [absOp EXCEPT ![t] = "leave"]
        /\ absLast' = [absLast EXCEPT ![t] = w]
        /\ absVec' = absVec /\ absSmr' = absSmr /\ absWalk' = absWalk
        /\ absOuter' = absOuter /\ absThr' = absThr /\ absList' = absList
        /\ absBatch' = absBatch /\ absSlot' = absSlot /\ absAdjs' = absAdjs
        /\ absDoAdjs' = absDoAdjs /\ absSkipped' = absSkipped
    BY <1>2, <2>2, Mapped DEF Moves, Follows, l, m
  <2>4. t \in absActive /\ absActive' = absActive \ {t}
    BY <1>2, <1>5, MappedHere DEF Moves, l, m
  <2>5. absCovers' = absCovers /\ absStatus' = absStatus
    BY <1>1, <1>2, <1>3, <1>4, MappedCovers, MappedStatus DEF Moves, TypeOK, history, l, m
  <2> QED
    BY <1>3, <2>3, <2>4, <2>5, ReleasedIs
    DEF P!Leave, P!LeaveBegin, P!LoadedHead, P!Goto, P!shared, P!history,
        P!callerLocals, P!walkLocals, P!retireLocals, history, owed, w, p, l
<1>7. CASE l.pc = "leaveLoad"
  <2>1. l.op = "nested"
    BY <1>1, <1>7 DEF ControlOK
  <2> HIDE DEF l, m, w, p
  <2>2. /\ VecOf(l) = l.vec /\ SmrOf(l) = l.smr /\ PcOf(l) = "leaveLoad"
        /\ PcOf(m) = p /\ LastOf(m) = w
        /\ OpOf(m) = OpOf(l) /\ VecOf(m) = VecOf(l) /\ SmrOf(m) = SmrOf(l)
        /\ WalkOf(m) = WalkOf(l) /\ OuterOf(m) = OuterOf(l) /\ ThrOf(m) = ThrOf(l)
        /\ ListOf(m) = ListOf(l) /\ BatchOf(m) = BatchOf(l) /\ SlotOf(m) = SlotOf(l)
        /\ AdjsOf(m) = AdjsOf(l) /\ DoAdjsOf(m) = DoAdjsOf(l)
        /\ SkippedOf(m) = SkippedOf(l)
    BY <1>1, <1>2, <1>4, <1>5, <1>7, <2>1, WalkerImage DEF SameWalks, WalkOps
  <2>3. /\ absVec[t] = l.vec /\ absSmr[t] = l.smr /\ absPc[t] = "leaveLoad"
        /\ absPc' = [absPc EXCEPT ![t] = p] /\ absLast' = [absLast EXCEPT ![t] = w]
        /\ absOp' = absOp /\ absVec' = absVec /\ absSmr' = absSmr /\ absWalk' = absWalk
        /\ absOuter' = absOuter /\ absThr' = absThr /\ absList' = absList
        /\ absBatch' = absBatch /\ absSlot' = absSlot /\ absAdjs' = absAdjs
        /\ absDoAdjs' = absDoAdjs /\ absSkipped' = absSkipped
    BY <1>2, <2>2, Mapped DEF Moves, Follows, l, m
  <2>4. absActive' = absActive \ {t}
    BY <1>2, MappedHere DEF Moves, l, m
  <2>5. absCovers' = absCovers /\ absStatus' = absStatus
    BY <1>1, <1>2, <1>3, <1>4, MappedCovers, MappedStatus DEF Moves, TypeOK, history, l, m
  <2> QED
    BY <1>3, <2>3, <2>4, <2>5, ReleasedIs
    DEF P!NestedLeave, P!LeaveBegin, P!LoadedHead, P!Goto, P!shared, P!history,
        P!callerLocals, P!walkLocals, P!retireLocals, history, owed, w, p, l
<1> QED
  BY <1>2, <1>6, <1>7

\* leave reads the first link in both.
LEMMA LeaveReadMaps ==
    ASSUME Base, NEW t \in Threads, LeaveRead(t)
    PROVE  P!LeaveRead(t)
<1> DEFINE l == loc[t]
           m == loc'[t]
           x == next[l.last.ptr][l.vec]
<1>1. /\ TypeOK /\ ControlOK(t) /\ LocalsOK(t) /\ l \in Local
  BY DEF Base, TypeOK, ThreadInv, Local
<1>2. l.pc = "leaveRead" /\ l.last.ptr \in Batches
  BY Addresses DEF LeaveRead, At
<1>3. /\ Moves(t) /\ m.pc = "leaveCas"
      /\ m.op = l.op /\ m.last = l.last /\ m.list = l.list /\ SameClient(l, m)
      /\ m.walk.curr = l.walk.curr /\ m.walk.nxt = x
      /\ m.walk.end = l.walk.end /\ m.outer = l.outer /\ m.thr = l.thr
  BY <1>1, <1>2, LeaveReadDoes
<1>4. /\ l.op \in WalkOps /\ l.pc \notin RetireLabels /\ l.pc # "ack"
      /\ m.op \in WalkOps /\ m.pc \notin RetireLabels /\ m.pc # "ack"
      /\ l.pc # "retireAdjust" /\ m.pc # "retireAdjust" /\ m \in Local
  BY <1>1, <1>2, <1>3 DEF ControlOK, LeaveLabels, RetireLabels, WalkOps, Moves
<1>5. l.walk.curr = NULL /\ l.walk.end = NULL
  BY <1>1, <1>2 DEF LocalsOK, LeaveLabels, NoWalk
<1>6. UNCHANGED <<head, next, refs, history>> /\ status' = status
  BY Zenon DEF LeaveRead, memory, structure
<1>7. Bare(m.walk) = [curr |-> NULL, nxt |-> x, end |-> NULL]
  BY <1>3, <1>5 DEF Bare
<1> HIDE DEF l, m, x
<1>8. /\ VecOf(l) = l.vec /\ PcOf(l) = "leaveRead" /\ LastOf(l) = l.last
      /\ PcOf(m) = "leaveCas" /\ WalkOf(m) = [curr |-> NULL, nxt |-> x, end |-> NULL]
      /\ OpOf(m) = OpOf(l) /\ VecOf(m) = VecOf(l) /\ SmrOf(m) = SmrOf(l)
      /\ LastOf(m) = LastOf(l) /\ OuterOf(m) = OuterOf(l) /\ ThrOf(m) = ThrOf(l)
      /\ ListOf(m) = ListOf(l) /\ BatchOf(m) = BatchOf(l) /\ SlotOf(m) = SlotOf(l)
      /\ AdjsOf(m) = AdjsOf(l) /\ DoAdjsOf(m) = DoAdjsOf(l)
      /\ SkippedOf(m) = SkippedOf(l)
  BY <1>1, <1>2, <1>3, <1>4, <1>7, WalkerImage DEF SameClient
<1>9. /\ absVec[t] = l.vec /\ absLast[t] = l.last /\ absPc[t] = "leaveRead"
      /\ absPc' = [absPc EXCEPT ![t] = "leaveCas"]
      /\ absWalk' = [absWalk EXCEPT ![t] = [curr |-> NULL, nxt |-> x, end |-> NULL]]
      /\ absOp' = absOp /\ absVec' = absVec /\ absSmr' = absSmr /\ absLast' = absLast
      /\ absOuter' = absOuter /\ absThr' = absThr /\ absList' = absList
      /\ absBatch' = absBatch /\ absSlot' = absSlot /\ absAdjs' = absAdjs
      /\ absDoAdjs' = absDoAdjs /\ absSkipped' = absSkipped
  BY <1>3, <1>8, Mapped DEF Moves, Follows, l, m
<1>10. absActive' = absActive
  BY <1>3, MappedHere DEF Moves, SameClient, l, m
<1>11. absCovers' = absCovers /\ absStatus' = absStatus
  BY <1>1, <1>3, <1>4, <1>6, MappedCovers, MappedStatus DEF Moves, TypeOK, history, l, m
<1> QED
  BY <1>6, <1>9, <1>10, <1>11, MappedStatus
  DEF P!LeaveRead, P!Goto, P!shared, P!client, P!history, P!callerLocals, P!retireLocals,
      history, owed, x

-----------------------------------------------------------------------------
(* The return of leave and of traverse.                                    *)

MapsReturn(l, m) ==
    /\ m.op \in WalkOps /\ m.pc \notin RetireLabels
    /\ l.op = "nested" =>
         /\ OpOf(m) = "trimLeft" /\ OuterOf(m) = None /\ ThrOf(m) = 0
         /\ l.outer.curr = l.outer.end => WalkOf(m) = None /\ PcOf(m) = "free"
         /\ l.outer.curr # l.outer.end => WalkOf(m) = Bare(l.outer) /\ PcOf(m) = "travRead"
    /\ l.op # "nested" =>
         /\ OpOf(m) = l.op /\ OuterOf(m) = Bare(l.outer) /\ ThrOf(m) = l.thr
         /\ WalkOf(m) = None /\ PcOf(m) = "free"

\* No walk has no walk for an image.
LEMMA BareNone == Bare(NoWalk) = None
BY DEF Bare, NoWalk, None

\* A walk that has returned has returned in Hyaline.
LEMMA ReturnedImage ==
    ASSUME NEW l \in Local, NEW m \in Local, l.op \in WalkOps, Returned(l, m)
    PROVE  MapsReturn(l, m)
<1>1. CASE l.op = "nested"
  <2>1. /\ m.op = "trimLeft" /\ m.thr = 0 /\ m.walk = l.outer /\ m.outer = NoWalk
        /\ m.pc = IF l.outer.curr = l.outer.end THEN "ack" ELSE "travRead"
    BY <1>1 DEF Returned
  <2>2. m.op \in WalkOps /\ m.pc \notin RetireLabels
    BY <2>1 DEF WalkOps, RetireLabels
  <2>3. CASE l.outer.curr = l.outer.end
    <3>1. m.pc = "ack"
      BY <2>1, <2>3
    <3>2. OpOf(m) = "trimLeft" /\ OuterOf(m) = None /\ ThrOf(m) = 0 /\ WalkOf(m) = None
      BY <2>1, <3>1 DEF OpOf, OuterOf, ThrOf, WalkOf, GoesOn
    <3>3. PcOf(m) = "free"
      BY <2>1, <3>1 DEF PcOf, GoesOn
    <3> QED
      BY <1>1, <2>2, <2>3, <3>2, <3>3 DEF MapsReturn
  <2>4. CASE l.outer.curr # l.outer.end
    <3>1. m.pc = "travRead"
      BY <2>1, <2>4
    <3>2. /\ OpOf(m) = "trimLeft" /\ OuterOf(m) = None /\ ThrOf(m) = 0
          /\ WalkOf(m) = Bare(l.outer) /\ PcOf(m) = "travRead"
      BY <2>1, <2>2, <3>1, WalkerImage, BareNone
    <3> QED
      BY <1>1, <2>2, <2>4, <3>2 DEF MapsReturn
  <2> QED
    BY <2>3, <2>4
<1>2. CASE l.op # "nested"
  <2>1. /\ m.op = l.op /\ m.thr = l.thr /\ m.walk = NoWalk /\ m.outer = l.outer
        /\ m.pc = "free"
    BY <1>2 DEF Returned
  <2>2. m.op \in WalkOps /\ m.pc \notin RetireLabels
    BY <2>1 DEF RetireLabels
  <2>3. /\ OpOf(m) = l.op /\ OuterOf(m) = Bare(l.outer) /\ ThrOf(m) = l.thr
        /\ WalkOf(m) = None /\ PcOf(m) = "free"
    BY <2>1, <2>2, WalkerImage, BareNone
  <2> QED
    BY <1>2, <2>2, <2>3 DEF MapsReturn
<1> QED
  BY <1>1, <1>2

\* A walk that has only to acknowledge has returned in Hyaline.
LEMMA EndedImage ==
    ASSUME NEW l \in Local, NEW m \in Local, l.op \in WalkOps,
           m.pc = "ack", m.op = l.op, m.outer = l.outer, m.thr = l.thr,
           l.op # "nested" => l.outer = NoWalk
    PROVE  MapsReturn(l, m)
<1>1. m.op \in WalkOps /\ m.pc \notin RetireLabels
  BY DEF RetireLabels
<1>2. /\ OpOf(m) = (IF l.op = "nested" THEN "trimLeft" ELSE l.op)
      /\ OuterOf(m) = None /\ ThrOf(m) = (IF l.op = "nested" THEN 0 ELSE l.thr)
  BY DEF OpOf, OuterOf, ThrOf, WalkOps
<1>3. /\ WalkOf(m) = (IF GoesOn(l) THEN Bare(l.outer) ELSE None)
      /\ PcOf(m) = (IF GoesOn(l) THEN "travRead" ELSE "free")
  BY DEF WalkOf, PcOf, GoesOn, WalkOps
<1> QED
  BY <1>1, <1>2, <1>3, BareNone DEF MapsReturn, GoesOn

\* What ends a walk is Hyaline's Return.
LEMMA ReturnMaps ==
    ASSUME NEW t \in Threads, Moves(t), loc[t] \in Local, loc[t].op \in WalkOps,
           loc[t].pc \notin RetireLabels, loc[t].pc # "ack",
           MapsReturn(loc[t], loc'[t]), NEW rest, Returns(t, rest)
    PROVE  P!Return(t) /\ todo' = [todo EXCEPT ![t] = P!TodoAfterReturn(t, rest)]
<1> DEFINE l == loc[t]
           m == loc'[t]
<1>1. /\ absOp' = [absOp EXCEPT ![t] = OpOf(m)] /\ absWalk' = [absWalk EXCEPT ![t] = WalkOf(m)]
      /\ absOuter' = [absOuter EXCEPT ![t] = OuterOf(m)]
      /\ absThr' = [absThr EXCEPT ![t] = ThrOf(m)] /\ absPc' = [absPc EXCEPT ![t] = PcOf(m)]
      /\ absOp[t] = l.op /\ absOuter[t] = Bare(l.outer) /\ absThr[t] = l.thr
      /\ (OpOf(m) = OpOf(l) => absOp' = absOp) /\ (OuterOf(m) = OuterOf(l) => absOuter' = absOuter)
      /\ (ThrOf(m) = ThrOf(l) => absThr' = absThr)
      /\ OpOf(l) = l.op /\ OuterOf(l) = Bare(l.outer) /\ ThrOf(l) = l.thr
  <2>1. OpOf(l) = l.op /\ OuterOf(l) = Bare(l.outer) /\ ThrOf(l) = l.thr
    BY WalkerImage
  <2> QED
    BY <2>1, Mapped DEF Moves, Follows
<1>2. MapsReturn(l, m)
  OBVIOUS
<1>3. P!NoWalk = None /\ \A w : Bare(w).curr = w.curr /\ Bare(w).end = w.end
  BY BareIs DEF P!NoWalk, None
<1>4. CASE l.op = "nested"
  <2>1. /\ todo' = [todo EXCEPT ![t] = later[t]] /\ later' = [later EXCEPT ![t] = <<>>]
    BY <1>4 DEF Returns
  <2>2. todo' = [todo EXCEPT ![t] = P!TodoAfterReturn(t, rest)]
    BY <1>1, <1>4, <2>1 DEF P!TodoAfterReturn
  <2>3. /\ absOp[t] = "nested" /\ absOp' = [absOp EXCEPT ![t] = "trimLeft"]
        /\ absOuter' = [absOuter EXCEPT ![t] = P!NoWalk]
        /\ absThr' = [absThr EXCEPT ![t] = 0]
    BY <1>1, <1>2, <1>3, <1>4 DEF MapsReturn
  <2>4. absOuter[t].curr = l.outer.curr /\ absOuter[t].end = l.outer.end
    BY <1>1, <1>3
  <2>5. CASE l.outer.curr = l.outer.end
    <3>1. /\ absWalk' = [absWalk EXCEPT ![t] = P!NoWalk]
          /\ absPc' = [absPc EXCEPT ![t] = "free"]
      BY <1>1, <1>2, <1>3, <1>4, <2>5 DEF MapsReturn
    <3> HIDE DEF l, m
    <3>2. P!Return(t)
      BY <2>1, <2>3, <2>4, <2>5, <3>1, Zenon DEF P!Return, P!Goto
    <3> QED
      BY <2>2, <3>2
  <2>6. CASE l.outer.curr # l.outer.end
    <3>1. /\ absWalk' = [absWalk EXCEPT ![t] = absOuter[t]]
          /\ absPc' = [absPc EXCEPT ![t] = "travRead"]
      BY <1>1, <1>2, <1>3, <1>4, <2>6 DEF MapsReturn
    <3> HIDE DEF l, m
    <3>2. P!Return(t)
      BY <2>1, <2>3, <2>4, <2>6, <3>1, Zenon DEF P!Return, P!Goto
    <3> QED
      BY <2>2, <3>2
  <2> QED
    BY <2>5, <2>6
<1>5. CASE l.op # "nested"
  <2>1. todo' = [todo EXCEPT ![t] = rest] /\ later' = later
    BY <1>5 DEF Returns
  <2> HIDE DEF l, m
  <2> QED
    BY <1>1, <1>2, <1>3, <1>5, <2>1 DEF P!Return, P!Goto, P!TodoAfterReturn, MapsReturn
<1> QED
  BY <1>4, <1>5

\* The tail of leave is Hyaline's, with the same walk ahead.
LEMMA TraverseMaps ==
    ASSUME NEW t \in Threads, Moves(t), loc[t] \in Local, ControlOK(t), LocalsOK(t),
           loc[t].pc \in LeaveLabels, NEW l \in Local, Traversed(l, loc'[t]),
           SameClient(loc[t], l), SameWalks(loc[t], l), l.op = loc[t].op,
           l.last = loc[t].last, NEW rest, Starts(t, rest)
    PROVE  /\ P!LeaveTraverse(t, rest)
           /\ loc'[t].op \in WalkOps /\ loc'[t].pc \notin RetireLabels
           /\ SameClient(loc[t], loc'[t]) /\ loc'[t].list = l.list
<1> DEFINE k == loc[t]
           m == loc'[t]
<1>1. /\ m \in Local /\ k \in Local /\ k.op \in WalkOps /\ k.pc \notin RetireLabels /\ k.pc # "ack"
      /\ k.walk = [NoWalk EXCEPT !.nxt = k.walk.nxt]
  BY DEF Moves, ControlOK, LocalsOK, LeaveLabels, WalkOps, RetireLabels
<1>2. k.walk.curr = NULL
  BY <1>1 DEF NoWalk
<1>3. m.last = Empty
  BY DEF Traversed
<1> HIDE DEF k, m
<1>4. /\ LastOf(m) = Empty /\ absLast' = [absLast EXCEPT ![t] = P!Empty]
      /\ absLast[t] = k.last /\ absSmr[t] = k.smr /\ absWalk[t] = Bare(k.walk)
  <2>1. LastOf(m) = Empty /\ LastOf(k) = k.last /\ SmrOf(k) = k.smr /\ WalkOf(k) = Bare(k.walk)
    BY <1>1, <1>3, WalkerImage DEF LastOf, k
  <2> QED
    BY <2>1, SameWords, Mapped DEF Moves, Follows, k, m
<1>5. CASE k.last.ptr # k.smr
  <2>1. /\ SameClient(l, m) /\ m.list = l.list
        /\ m.op = l.op /\ m.thr = l.thr /\ m.outer = l.outer /\ m.pc = "travRead"
        /\ m.walk.curr = l.walk.curr /\ m.walk.nxt = l.walk.nxt /\ m.walk.end = l.smr
    BY <1>5 DEF Traversed, SameClient, k, m
  <2>2. /\ SameClient(k, m) /\ m.list = l.list
        /\ m.op = k.op /\ m.thr = k.thr /\ m.outer = k.outer
        /\ m.walk.curr = NULL /\ m.walk.nxt = k.walk.nxt /\ m.walk.end = k.smr
    BY <1>2, <2>1 DEF SameClient, SameWalks, k
  <2>3. todo' = [todo EXCEPT ![t] = rest] /\ later' = later
    BY <1>5 DEF Starts, k
  <2>4. m.op \in WalkOps /\ m.pc \notin RetireLabels /\ m.pc # "ack"
    BY <1>1, <2>1, <2>2 DEF RetireLabels
  <2>5. Bare(m.walk) = [curr |-> NULL, nxt |-> k.walk.nxt, end |-> k.smr]
    BY <2>2 DEF Bare
  <2>6. /\ PcOf(m) = "travRead" /\ OpOf(m) = OpOf(k) /\ ThrOf(m) = ThrOf(k)
        /\ OuterOf(m) = OuterOf(k)
        /\ WalkOf(m) = [curr |-> NULL, nxt |-> k.walk.nxt, end |-> k.smr]
    <3>1. /\ PcOf(m) = m.pc /\ OpOf(m) = m.op /\ ThrOf(m) = m.thr
          /\ OuterOf(m) = Bare(m.outer) /\ WalkOf(m) = Bare(m.walk)
      BY <1>1, <2>4, WalkerImage
    <3>2. OpOf(k) = k.op /\ ThrOf(k) = k.thr /\ OuterOf(k) = Bare(k.outer)
      BY <1>1, WalkerImage
    <3> QED
      BY <2>1, <2>2, <2>5, <3>1, <3>2
  <2>7. /\ absPc' = [absPc EXCEPT ![t] = "travRead"] /\ absOp' = absOp /\ absThr' = absThr
        /\ absOuter' = absOuter
        /\ absWalk' = [absWalk EXCEPT ![t] = [curr |-> NULL, nxt |-> k.walk.nxt, end |-> k.smr]]
    BY <2>6, Mapped DEF Moves, Follows, k, m
  <2>8. P!LeaveTraverse(t, rest)
    BY <1>4, <1>5, <2>3, <2>7, BareIs DEF P!LeaveTraverse, P!Goto
  <2> QED
    BY <2>2, <2>4, <2>8 DEF k, m
<1>6. CASE k.last.ptr = k.smr
  <2>1. Returned(l, m)
    BY <1>6 DEF Traversed, SameClient, k, m
  <2>2. MapsReturn(l, m)
    BY <1>1, <2>1, ReturnedImage DEF k
  <2>3. MapsReturn(k, m)
    BY <2>2 DEF MapsReturn, SameWalks, k
  <2>4. Returns(t, rest)
    BY <1>6 DEF Starts, k
  <2>5. P!Return(t) /\ todo' = [todo EXCEPT ![t] = P!TodoAfterReturn(t, rest)]
    BY <1>1, <2>3, <2>4, ReturnMaps DEF k, m
  <2>6. P!LeaveTraverse(t, rest)
    BY <1>4, <1>6, <2>5, Zenon DEF P!LeaveTraverse
  <2>7. SameClient(k, m) /\ m.list = l.list
    BY <2>1 DEF Returned, SameClient, k
  <2> QED
    BY <2>3, <2>6, <2>7 DEF MapsReturn, k, m
<1> QED
  BY <1>5, <1>6


-----------------------------------------------------------------------------
(* What leave and traverse leave alone.                                    *)

\* A step of a walk leaves the caller's and the retirer's locals alone.
LEMMA WalkersKeep ==
    ASSUME TypeOK, NEW t \in Threads, Moves(t), covers' = covers,
           loc[t].op \in WalkOps, loc[t].pc \notin RetireLabels,
           loc'[t].op \in WalkOps, loc'[t].pc \notin RetireLabels,
           SameClient(loc[t], loc'[t])
    PROVE  /\ absVec' = absVec /\ absSmr' = absSmr /\ absBatch' = absBatch
           /\ absSlot' = absSlot /\ absAdjs' = absAdjs /\ absDoAdjs' = absDoAdjs
           /\ absSkipped' = absSkipped /\ absActive' = absActive
           /\ absCovers' = absCovers /\ absGrace' = absGrace
           /\ UNCHANGED P!callerLocals /\ UNCHANGED P!retireLocals
           /\ absVec[t] = loc[t].vec /\ absSmr[t] = loc[t].smr
           /\ absLast[t] = loc[t].last /\ absList[t] = loc[t].list
           /\ absList' = [absList EXCEPT ![t] = loc'[t].list]
           /\ absLast' = [absLast EXCEPT ![t] = loc'[t].last]
           /\ loc'[t].list = loc[t].list => absList' = absList
           /\ loc'[t].last = loc[t].last => absLast' = absLast
<1> DEFINE l == loc[t]
           m == loc'[t]
<1>1. l \in Local /\ m \in Local
  BY DEF TypeOK, Local, Moves
<1>2. /\ m.inside = l.inside /\ m.vec = l.vec /\ m.smr = l.smr
      /\ l.pc # "retireAdjust" /\ m.pc # "retireAdjust"
  BY DEF SameClient, RetireLabels
<1>3. /\ VecOf(m) = m.vec /\ SmrOf(m) = m.smr /\ BatchOf(m) = NULL
      /\ SlotOf(m) = 0 /\ AdjsOf(m) = 0 /\ DoAdjsOf(m) = FALSE /\ SkippedOf(m) = {}
      /\ LastOf(m) = m.last /\ ListOf(m) = m.list
  BY <1>1, WalkerImage
<1>4. /\ VecOf(l) = l.vec /\ SmrOf(l) = l.smr /\ BatchOf(l) = NULL
      /\ SlotOf(l) = 0 /\ AdjsOf(l) = 0 /\ DoAdjsOf(l) = FALSE /\ SkippedOf(l) = {}
      /\ LastOf(l) = l.last /\ ListOf(l) = l.list
  BY <1>1, WalkerImage
<1>5. absActive' = absActive /\ absGrace' = absGrace
  BY <1>2, MappedHere, MappedStatus DEF Moves
<1>6. absCovers' = absCovers
  BY <1>2, MappedCovers DEF TypeOK, Moves
<1> HIDE DEF l, m
<1>7. /\ absVec' = absVec /\ absSmr' = absSmr
      /\ absVec[t] = l.vec /\ absSmr[t] = l.smr
  BY <1>2, <1>3, <1>4, Mapped DEF Moves, Follows, l, m
<1>9. /\ absBatch' = absBatch /\ absSlot' = absSlot /\ absAdjs' = absAdjs
      /\ absDoAdjs' = absDoAdjs /\ absSkipped' = absSkipped
  BY <1>3, <1>4, Mapped DEF Moves, Follows, l, m
<1>8. /\ absLast[t] = l.last /\ absList[t] = l.list
      /\ absList' = [absList EXCEPT ![t] = m.list]
      /\ absLast' = [absLast EXCEPT ![t] = m.last]
      /\ m.list = l.list => absList' = absList
      /\ m.last = l.last => absLast' = absLast
  BY <1>3, <1>4, Mapped DEF Moves, Follows, l, m
<1> QED
  BY <1>5, <1>6, <1>7, <1>8, <1>9 DEF P!callerLocals, P!retireLocals, l, m

\* The image of a thread that stays in its walk.
LEMMA WalkersGo ==
    ASSUME TypeOK, NEW t \in Threads, Moves(t),
           loc[t].op \in WalkOps, loc[t].pc \notin RetireLabels, loc[t].pc # "ack",
           loc'[t].op \in WalkOps, loc'[t].pc \notin RetireLabels, loc'[t].pc # "ack"
    PROVE  /\ absPc[t] = loc[t].pc /\ absOp[t] = loc[t].op /\ absThr[t] = loc[t].thr
           /\ absWalk[t] = Bare(loc[t].walk) /\ absOuter[t] = Bare(loc[t].outer)
           /\ absPc' = [absPc EXCEPT ![t] = loc'[t].pc]
           /\ absOp' = [absOp EXCEPT ![t] = loc'[t].op]
           /\ absWalk' = [absWalk EXCEPT ![t] = Bare(loc'[t].walk)]
           /\ absOuter' = [absOuter EXCEPT ![t] = Bare(loc'[t].outer)]
           /\ loc'[t].op = loc[t].op => absOp' = absOp
           /\ loc'[t].thr = loc[t].thr => absThr' = absThr
           /\ loc'[t].walk = loc[t].walk => absWalk' = absWalk
           /\ loc'[t].outer = loc[t].outer => absOuter' = absOuter
<1> DEFINE l == loc[t]
           m == loc'[t]
<1>1. l \in Local /\ m \in Local
  BY DEF TypeOK, Local, Moves
<1>2. /\ PcOf(m) = m.pc /\ OpOf(m) = m.op /\ ThrOf(m) = m.thr
      /\ WalkOf(m) = Bare(m.walk) /\ OuterOf(m) = Bare(m.outer)
  BY <1>1, WalkerImage
<1>3. /\ PcOf(l) = l.pc /\ OpOf(l) = l.op /\ ThrOf(l) = l.thr
      /\ WalkOf(l) = Bare(l.walk) /\ OuterOf(l) = Bare(l.outer)
  BY <1>1, WalkerImage
<1> HIDE DEF l, m
<1>4. /\ absPc[t] = l.pc /\ absOp[t] = l.op /\ absThr[t] = l.thr
      /\ absWalk[t] = Bare(l.walk) /\ absOuter[t] = Bare(l.outer)
      /\ absPc' = [absPc EXCEPT ![t] = m.pc]
      /\ absOp' = [absOp EXCEPT ![t] = m.op]
      /\ absWalk' = [absWalk EXCEPT ![t] = Bare(m.walk)]
      /\ absOuter' = [absOuter EXCEPT ![t] = Bare(m.outer)]
      /\ m.op = l.op => absOp' = absOp
      /\ m.thr = l.thr => absThr' = absThr
      /\ m.walk = l.walk => absWalk' = absWalk
      /\ m.outer = l.outer => absOuter' = absOuter
  BY <1>2, <1>3, Mapped DEF Moves, Follows, l, m
<1> QED
  BY <1>4 DEF l, m

\* A counter is adjusted.
LEMMA AdjustMaps ==
    ASSUME TypeOK, NEW t \in Threads, NEW b \in Batches, NEW v, Adjust(b, v),
           loc'[t].list = Collected(loc[t].list, b, v),
           absList[t] = loc[t].list, absList' = [absList EXCEPT ![t] = loc'[t].list]
    PROVE  P!AdjustRefs(t, b, v)
<1>1. refs' = [refs EXCEPT ![b] = P!AddW(refs[b], v)]
  <2>1. refs' = [refs EXCEPT ![b] = AddW(refs[b], v)]
    BY DEF Adjust
  <2> QED
    BY <2>1, SameWords, Zenon
<1>2. CASE refs[b] = NegW(v)
  <2>1. loc'[t].list = loc[t].list \union {b}
    BY <1>2 DEF Collected
  <2> QED
    BY <1>1, <1>2, <2>1, SameWords DEF P!AdjustRefs
<1>3. CASE refs[b] # NegW(v)
  <2>1. loc'[t].list = loc[t].list
    BY <1>3 DEF Collected
  <2>2. absList' = absList
    BY <2>1 DEF absList
  <2> QED
    BY <1>1, <1>3, <2>2, SameWords DEF P!AdjustRefs
<1> QED
  BY <1>2, <1>3
-----------------------------------------------------------------------------
(* The steps of leave.                                                     *)

\* A share has room for the threads: there are at least two words.
LEMMA Roomy == Threads # {} => Mod >= 2
<1> SUFFICES ASSUME Threads # {} PROVE Mod >= 2
  OBVIOUS
<1>1. Cardinality(Threads) \in Nat \ {0}
  BY Constants, FS_EmptySet DEF Constants
<1> DEFINE q == Mod \div NumSlots
<1>2. /\ Mod \in Nat \ {0} /\ NumSlots \in Nat \ {0} /\ q \in Nat /\ Mod = NumSlots * q
  BY HyalineSAssumption, Division
<1>3. Cardinality(Threads) < q
  BY HyalineSAssumption
<1> HIDE DEF q
<1>4. q >= 2
  BY <1>1, <1>2, <1>3
<1>5. NumSlots * q >= q
  BY <1>2
<1> QED
  BY <1>2, <1>4, <1>5

\* The last one out is the same in both.
LEMMA LastOne ==
    ASSUME NEW t \in Threads, NEW w \in HeadWord
    PROVE  /\ HeadAfterLeave(w) = P!HeadAfterLeave(w)
           /\ HeadAfterLeave(w).refs = 0 <=> w.refs = 1
<1>1. Mod \in Nat /\ Mod >= 2 /\ w.refs \in 0 .. Mod - 1
  BY Roomy, Constants DEF HeadWord, Word
<1>2. AddW(w.refs, MinusOne) = 0 <=> w.refs = 1
  BY <1>1 DEF AddW, MinusOne
<1> DEFINE n == AddW(w.refs, MinusOne)
<1>3. [w EXCEPT !.refs = n] = [refs |-> n, ptr |-> w.ptr]
  BY DEF HeadWord
<1>4. HeadAfterLeave(w) = IF CmpxchgFull /\ n = 0 THEN Empty ELSE [refs |-> n, ptr |-> w.ptr]
  BY <1>3, Zenon DEF HeadAfterLeave
<1>5. P!HeadAfterLeave(w) = IF CmpxchgFull /\ w.refs = 1 THEN Empty ELSE [refs |-> n, ptr |-> w.ptr]
  BY SameWords, Zenon DEF P!HeadAfterLeave
<1>6. Empty.refs = 0 /\ [refs |-> n, ptr |-> w.ptr].refs = n
  BY Constants
<1> HIDE DEF n
<1> QED
  BY <1>2, <1>4, <1>5, <1>6 DEF n

\* The compare-and-swap of leave succeeds or fails in both.
LEMMA LeaveCasMaps ==
    ASSUME Base, NEW t \in Threads, LeaveCas(t)
    PROVE  P!LeaveCas(t) \/ P!LeaveCasFails(t)
<1> DEFINE l == loc[t]
           m == loc'[t]
           w == loc[t].last
           out == HeadAfterLeave(w).refs = 0 /\ w.ptr # NULL
<1>1. /\ TypeOK /\ ControlOK(t) /\ LocalsOK(t) /\ l \in Local /\ w \in HeadWord
  BY Fields DEF Base, TypeOK, ThreadInv, Local
<1>2. l.pc = "leaveCas" /\ Moves(t) /\ m \in Local
  BY <1>1, LeaveCasDoes DEF Moves
<1>3. l.op \in WalkOps /\ l.pc \notin RetireLabels /\ l.pc # "ack" /\ l.pc \in LeaveLabels
  BY <1>1, <1>2 DEF ControlOK, LeaveLabels, RetireLabels, WalkOps
<1>4. UNCHANGED <<next, refs, covers>> /\ status' = status
  BY Zenon DEF LeaveCas, memory, structure
<1>5. absStatus' = absStatus
  BY <1>4, MappedStatus
<1>6. CASE head[l.vec] = w
  <2>1. head' = [head EXCEPT ![l.vec] = HeadAfterLeave(w)] /\ held' = [held EXCEPT ![t] = <<>>]
    BY <1>6, Zenon DEF LeaveCas
  <2>2. CASE out
    <3>1. /\ SameClient(l, m) /\ SameWalks(l, m) /\ m.list = l.list /\ m.op = l.op
          /\ m.last = l.last /\ m.pc = IF CmpxchgFull THEN "leaveAdjust" ELSE "leaveClear"
          /\ todo' = [todo EXCEPT ![t] = held[t]] /\ later' = later
      BY <1>1, <1>6, <2>2, LeaveCasDoes
    <3>2. m.op \in WalkOps /\ m.pc \notin RetireLabels /\ m.pc # "ack"
      BY <1>3, <3>1 DEF RetireLabels
    <3>3. /\ absPc' = [absPc EXCEPT ![t] = IF CmpxchgFull THEN "leaveAdjust" ELSE "leaveClear"]
          /\ absPc[t] = "leaveCas" /\ absOp' = absOp /\ absWalk' = absWalk
          /\ absThr' = absThr /\ absOuter' = absOuter
      BY <1>1, <1>2, <1>3, <3>1, <3>2, WalkersGo DEF SameWalks
    <3>4. /\ absVec[t] = l.vec /\ absLast[t] = w /\ absLast' = absLast /\ absList' = absList
          /\ absActive' = absActive /\ absGrace' = absGrace
          /\ UNCHANGED P!callerLocals /\ UNCHANGED P!retireLocals
      BY <1>1, <1>2, <1>3, <1>4, <3>1, <3>2, WalkersKeep
    <3>5. P!LastOut(w) /\ P!HeadAfterLeave(w) = HeadAfterLeave(w)
      BY <1>1, <2>2, LastOne DEF P!LastOut
    <3> HIDE DEF l, m, w, out
    <3> QED
      BY <1>4, <1>5, <1>6, <2>1, <3>1, <3>3, <3>4, <3>5
      DEF P!LeaveCas, P!Goto, P!client, P!walkLocals
  <2>3. CASE ~out
    <3>1. Traversed(l, m) /\ Starts(t, held[t])
      BY <1>1, <1>6, <2>3, LeaveCasDoes
    <3>2. /\ P!LeaveTraverse(t, held[t])
          /\ m.op \in WalkOps /\ m.pc \notin RetireLabels /\ SameClient(l, m)
          /\ m.list = l.list
      <4>1. SameClient(l, l) /\ SameWalks(l, l)
        BY DEF SameClient, SameWalks
      <4> QED
        BY <1>1, <1>2, <1>3, <3>1, <4>1, TraverseMaps
    <3>4. /\ absVec[t] = l.vec /\ absLast[t] = w /\ absList' = absList
          /\ absActive' = absActive /\ absGrace' = absGrace
          /\ UNCHANGED P!callerLocals /\ UNCHANGED P!retireLocals
      BY <1>1, <1>2, <1>3, <1>4, <3>2, WalkersKeep
    <3>5. ~P!LastOut(w) /\ P!HeadAfterLeave(w) = HeadAfterLeave(w)
      BY <1>1, <2>3, LastOne DEF P!LastOut
    <3>6. absPc[t] = "leaveCas"
      BY <1>1, <1>2, <1>3, Image, WalkerImage
    <3> HIDE DEF l, m, w, out
    <3> QED
      BY <1>4, <1>5, <1>6, <2>1, <3>2, <3>4, <3>5, <3>6
      DEF P!LeaveCas, P!client
  <2> QED
    BY <2>2, <2>3
<1>7. CASE head[l.vec] # w
  <2>1. UNCHANGED <<head, held, todo, later>>
    BY <1>7, Zenon DEF LeaveCas, owed
  <2> DEFINE h == head[l.vec]
             p == IF h.ptr # l.smr THEN "leaveRead" ELSE "leaveCas"
  <2>2. /\ SameClient(l, m) /\ SameWalks(l, m) /\ m.list = l.list /\ m.op = l.op
        /\ m.last = h /\ m.pc = p
    BY <1>1, <1>7, LeaveCasDoes DEF Loaded
  <2>3. m.op \in WalkOps /\ m.pc \notin RetireLabels /\ m.pc # "ack"
    BY <1>3, <2>2 DEF RetireLabels
  <2> HIDE DEF p, h
  <2>4. /\ absPc' = [absPc EXCEPT ![t] = p]
        /\ absPc[t] = "leaveCas" /\ absOp' = absOp /\ absWalk' = absWalk
        /\ absThr' = absThr /\ absOuter' = absOuter
    BY <1>1, <1>2, <1>3, <2>2, <2>3, WalkersGo DEF SameWalks
  <2>5. /\ absVec[t] = l.vec /\ absSmr[t] = l.smr /\ absLast[t] = w
        /\ absLast' = [absLast EXCEPT ![t] = h] /\ absList' = absList
        /\ absActive' = absActive /\ absGrace' = absGrace
        /\ UNCHANGED P!callerLocals /\ UNCHANGED P!retireLocals
    BY <1>1, <1>2, <1>3, <1>4, <2>2, <2>3, WalkersKeep
  <2> HIDE DEF l, m, w, out
  <2> QED
    BY <1>4, <1>5, <1>7, <2>1, <2>4, <2>5
    DEF P!LeaveCasFails, P!LoadedHead, P!Goto, P!shared, P!client, P!history,
        P!walkLocals, h, p
<1> QED
  BY <1>6, <1>7

\* The slot is emptied, or found taken again, in both.
LEMMA LeaveClearMaps ==
    ASSUME Base, NEW t \in Threads, LeaveClear(t)
    PROVE  P!LeaveClear(t) \/ P!LeaveClearFails(t)
<1> DEFINE l == loc[t]
           m == loc'[t]
           w == [refs |-> 0, ptr |-> l.last.ptr]
<1>1. /\ TypeOK /\ ControlOK(t) /\ LocalsOK(t) /\ l \in Local
  BY Fields DEF Base, TypeOK, ThreadInv, Local
<1>2. l.pc = "leaveClear" /\ Moves(t) /\ m \in Local
  BY <1>1, LeaveClearDoes DEF Moves
<1>3. l.op \in WalkOps /\ l.pc \notin RetireLabels /\ l.pc # "ack" /\ l.pc \in LeaveLabels
  BY <1>1, <1>2 DEF ControlOK, LeaveLabels, RetireLabels, WalkOps
<1>4. UNCHANGED <<next, refs, held, covers>> /\ status' = status
  BY Zenon DEF LeaveClear, memory, structure
<1>5. absStatus' = absStatus
  BY <1>4, MappedStatus
<1>6. CASE head[l.vec] = w
  <2>1. head' = [head EXCEPT ![l.vec] = Empty] /\ UNCHANGED <<todo, later>>
    BY <1>6, Zenon DEF LeaveClear
  <2>2. /\ SameClient(l, m) /\ SameWalks(l, m) /\ m.list = l.list /\ m.op = l.op
        /\ m.last = l.last /\ m.pc = "leaveAdjust"
    BY <1>1, <1>6, LeaveClearDoes
  <2>3. m.op \in WalkOps /\ m.pc \notin RetireLabels /\ m.pc # "ack"
    BY <1>3, <2>2 DEF RetireLabels
  <2>4. /\ absPc' = [absPc EXCEPT ![t] = "leaveAdjust"]
        /\ absPc[t] = "leaveClear" /\ absOp' = absOp /\ absWalk' = absWalk
        /\ absThr' = absThr /\ absOuter' = absOuter
    BY <1>1, <1>2, <1>3, <2>2, <2>3, WalkersGo DEF SameWalks
  <2>5. /\ absVec[t] = l.vec /\ absLast[t] = l.last /\ absLast' = absLast
        /\ absList' = absList /\ absActive' = absActive /\ absGrace' = absGrace
        /\ UNCHANGED P!callerLocals /\ UNCHANGED P!retireLocals
    BY <1>1, <1>2, <1>3, <1>4, <2>2, <2>3, WalkersKeep
  <2> HIDE DEF l, m
  <2> QED
    BY <1>4, <1>5, <1>6, <2>1, <2>4, <2>5, SameWords
    DEF P!LeaveClear, P!Goto, P!client, P!history, P!walkLocals
<1>7. CASE head[l.vec] # w
  <2>1. Traversed(l, m) /\ Starts(t, todo[t]) /\ head' = head
    BY <1>1, <1>7, LeaveClearDoes
  <2>2. /\ P!LeaveTraverse(t, todo[t])
        /\ m.op \in WalkOps /\ m.pc \notin RetireLabels /\ SameClient(l, m)
        /\ m.list = l.list
    <3>1. SameClient(l, l) /\ SameWalks(l, l)
      BY DEF SameClient, SameWalks
    <3> QED
      BY <1>1, <1>2, <1>3, <2>1, <3>1, TraverseMaps
  <2>3. /\ absVec[t] = l.vec /\ absLast[t] = l.last /\ absList' = absList
        /\ absActive' = absActive /\ absGrace' = absGrace
        /\ UNCHANGED P!callerLocals /\ UNCHANGED P!retireLocals
    BY <1>1, <1>2, <1>3, <1>4, <2>2, WalkersKeep
  <2>4. absPc[t] = "leaveClear"
    BY <1>1, <1>2, <1>3, Image, WalkerImage
  <2> HIDE DEF l, m
  <2> QED
    BY <1>4, <1>5, <1>7, <2>1, <2>2, <2>3, <2>4
    DEF P!LeaveClearFails, P!shared, P!client
<1> QED
  BY <1>6, <1>7

\* The share of the slot is added in both.
LEMMA LeaveAdjustMaps ==
    ASSUME Base, NEW t \in Threads, LeaveAdjust(t)
    PROVE  P!LeaveAdjust(t)
<1> DEFINE l == loc[t]
           m == loc'[t]
           b == loc[t].last.ptr
<1>1. /\ TypeOK /\ ControlOK(t) /\ LocalsOK(t) /\ l \in Local
  BY Fields DEF Base, TypeOK, ThreadInv, Local
<1>2. l.pc = "leaveAdjust" /\ b \in Batches
  BY Addresses DEF LeaveAdjust, At
<1>3. /\ Moves(t) /\ m \in Local /\ m.list = Collected(l.list, b, Addend)
  BY <1>1, <1>2, LeaveAdjustDoes DEF Moves
<1>4. l.op \in WalkOps /\ l.pc \notin RetireLabels /\ l.pc # "ack" /\ l.pc \in LeaveLabels
  BY <1>1, <1>2 DEF ControlOK, LeaveLabels, RetireLabels, WalkOps
<1>5. /\ UNCHANGED <<head, next, held, covers>> /\ status' = status
      /\ Adjust(b, Addend) /\ Starts(t, todo[t])
  BY Zenon DEF LeaveAdjust, memory, structure
<1>6. PICK k \in Local : /\ Traversed(k, m)
                         /\ SameClient(l, k) /\ SameWalks(l, k)
                         /\ k.op = l.op /\ k.last = l.last
  BY <1>1, <1>2, LeaveAdjustDoes
<1>7. /\ P!LeaveTraverse(t, todo[t])
      /\ m.op \in WalkOps /\ m.pc \notin RetireLabels /\ SameClient(l, m)
  BY <1>1, <1>3, <1>4, <1>5, <1>6, TraverseMaps
<1>8. /\ absLast[t] = l.last /\ absList[t] = l.list
      /\ absList' = [absList EXCEPT ![t] = m.list]
      /\ absActive' = absActive /\ absGrace' = absGrace
      /\ UNCHANGED P!callerLocals /\ UNCHANGED P!retireLocals
  BY <1>1, <1>3, <1>4, <1>5, <1>7, WalkersKeep
<1>9. absPc[t] = "leaveAdjust" /\ absStatus' = absStatus
  BY <1>1, <1>2, <1>4, <1>5, Image, WalkerImage, MappedStatus
<1>10. P!AdjustRefs(t, b, P!Addend)
  BY <1>1, <1>2, <1>3, <1>5, <1>8, AdjustMaps, SameWords
<1> QED
  BY <1>5, <1>7, <1>8, <1>9, <1>10 DEF P!LeaveAdjust, P!client


-----------------------------------------------------------------------------
(* The steps of traverse and trim.                                         *)

\* What holds of a thread on a walk.
LEMMA WalkerPlace ==
    ASSUME Base, NEW t \in Threads, loc[t].pc \in {"trimRead", "travRead", "travDrop"}
    PROVE  /\ loc[t].op \in WalkOps /\ loc[t].pc \notin RetireLabels
           /\ loc[t].pc # "ack" /\ TypeOK /\ ControlOK(t) /\ LocalsOK(t) /\ loc[t] \in Local
           /\ P!TypeOK /\ P!ThreadInv /\ P!RefsInv /\ P!HyalineAssumption
<1>1. /\ TypeOK /\ ControlOK(t) /\ LocalsOK(t) /\ loc[t] \in Local
      /\ P!TypeOK /\ P!ThreadInv /\ P!RefsInv /\ P!HyalineAssumption
  BY CoreAssumption DEF Base, TypeOK, ThreadInv, Local, P!CoreInv
<1>2. loc[t].pc \notin RetireLabels /\ loc[t].pc # "ack"
  BY DEF RetireLabels
<1>3. loc[t].op \in WalkOps
  BY <1>1, Fields DEF ControlOK, EnterLabels, DerefLabels, RetireLabels, Ops, WalkOps
<1> QED
  BY <1>1, <1>2, <1>3

\* The image of a thread that has not got to the acknowledgement.
LEMMA WalkerNow ==
    ASSUME NEW t \in Threads, loc[t] \in Local,
           loc[t].op \in WalkOps, loc[t].pc \notin RetireLabels, loc[t].pc # "ack"
    PROVE  /\ absPc[t] = loc[t].pc /\ absOp[t] = loc[t].op /\ absThr[t] = loc[t].thr
           /\ absWalk[t] = Bare(loc[t].walk) /\ absOuter[t] = Bare(loc[t].outer)
           /\ absWalk[t].curr = loc[t].walk.curr /\ absWalk[t].nxt = loc[t].walk.nxt
           /\ absWalk[t].end = loc[t].walk.end /\ absList[t] = loc[t].list
<1> DEFINE l == loc[t]
<1>1. /\ PcOf(l) = l.pc /\ OpOf(l) = l.op /\ ThrOf(l) = l.thr
      /\ WalkOf(l) = Bare(l.walk) /\ OuterOf(l) = Bare(l.outer)
  BY WalkerImage
<1>2. /\ absPc[t] = l.pc /\ absOp[t] = l.op /\ absThr[t] = l.thr
      /\ absWalk[t] = Bare(l.walk) /\ absOuter[t] = Bare(l.outer)
      /\ absList[t] = l.list
  BY <1>1, Image
<1> QED
  BY <1>2, BareIs

\* traverse reads a link in both.
LEMMA TravReadMaps ==
    ASSUME Base, NEW t \in Threads, TravRead(t), Walks(t, todo[t]), UNCHANGED <<head, counter>>
    PROVE  P!TravRead(t)
<1> DEFINE l == loc[t]
           m == loc'[t]
           b == loc[t].walk.nxt
<1>1. l.pc = "travRead"
  BY DEF TravRead, At
<1>2. /\ TypeOK /\ LocalsOK(t) /\ l \in Local
      /\ l.op \in WalkOps /\ l.pc \notin RetireLabels /\ l.pc # "ack"
  BY <1>1, WalkerPlace
<1>3. /\ Moves(t) /\ m \in Local /\ SameClient(l, m) /\ m.list = l.list
      /\ m.last = l.last /\ m.op = l.op /\ m.thr = l.thr /\ m.outer = l.outer
  BY <1>2, TravReadDoes DEF Moves
<1>4. m.pc \in {"ack", "travDrop"} /\ m.pc \notin RetireLabels /\ m.op \in WalkOps
  BY <1>2, <1>3, TravReadDoes DEF RetireLabels
<1>5. /\ UNCHANGED <<head, next, refs, held, covers>> /\ status' = status
  BY DEF TravRead, Walks, memory, structure
<1>6. /\ absVec[t] = l.vec /\ absLast' = absLast /\ absList' = absList
      /\ absActive' = absActive /\ absGrace' = absGrace
      /\ UNCHANGED P!callerLocals /\ UNCHANGED P!retireLocals
  BY <1>2, <1>3, <1>4, <1>5, WalkersKeep
<1>7. /\ absPc[t] = "travRead" /\ absWalk[t] = Bare(l.walk) /\ absStatus' = absStatus
      /\ absWalk[t].nxt = b /\ absWalk[t].end = l.walk.end
  BY <1>1, <1>2, <1>5, WalkerNow, MappedStatus
<1>8. CASE b = NULL
  <2>1. m.pc = "ack"
    BY <1>2, <1>8, TravReadDoes
  <2>2. Returns(t, todo[t])
    BY <2>1 DEF Walks
  <2>3. l.op # "nested" => l.outer = NoWalk
    BY <1>2 DEF LocalsOK
  <2>4. MapsReturn(l, m)
    BY <1>2, <1>3, <2>1, <2>3, EndedImage
  <2>5. P!Return(t) /\ todo' = [todo EXCEPT ![t] = P!TodoAfterReturn(t, todo[t])]
    BY <1>2, <1>3, <2>2, <2>4, ReturnMaps
  <2> HIDE DEF l, m, b
  <2> QED
    BY <1>5, <1>6, <1>7, <1>8, <2>5 DEF P!TravRead, P!shared, P!client
<1>9. CASE b # NULL
  <2>1. /\ m.pc = "travDrop" /\ m.walk.curr = b
        /\ m.walk.nxt = next[b][l.vec] /\ m.walk.end = l.walk.end
    BY <1>2, <1>9, TravReadDoes
  <2>2. todo' = [todo EXCEPT ![t] = todo[t]] /\ later' = later
    BY <2>1 DEF Walks
  <2>3. todo' = todo
    BY <1>2, <2>2 DEF TypeOK
  <2>4. Bare(m.walk) = [curr |-> b, nxt |-> next[b][l.vec], end |-> l.walk.end]
    BY <2>1 DEF Bare
  <2>5. m.pc # "ack"
    BY <2>1
  <2> HIDE DEF b
  <2>6. /\ absPc' = [absPc EXCEPT ![t] = "travDrop"]
        /\ absWalk' = [absWalk EXCEPT ![t] = [curr |-> b, nxt |-> next[b][l.vec],
                                              end |-> l.walk.end]]
        /\ absOp' = absOp /\ absThr' = absThr /\ absOuter' = absOuter
    BY <1>2, <1>3, <1>4, <2>1, <2>4, <2>5, WalkersGo
  <2> HIDE DEF l, m
  <2> QED
    BY <1>5, <1>6, <1>7, <1>9, <2>2, <2>3, <2>6 DEF P!TravRead, P!shared, P!client, P!Goto
<1> QED
  BY <1>8, <1>9

\* The batch that is given back is not one that was collected, and the last
\* reference to it is the one that makes its counter 1 before.
LEMMA DropsOne ==
    ASSUME Base, NEW t \in Threads, loc[t].pc = "travDrop"
    PROVE  LET b == loc[t].walk.curr
               c == Collected(loc[t].list, b, MinusOne)
           IN  /\ b \in Batches /\ b \notin loc[t].list /\ InSeq(b, todo[t])
               /\ refs[b] = NegW(MinusOne) <=> refs[b] = 1
               /\ b \in c <=> refs[b] = 1
               /\ refs[b] = 1 => Cardinality(c) = Cardinality(loc[t].list) + 1
               /\ IsFiniteSet(loc[t].list) /\ Cardinality(loc[t].list) \in Nat
<1> DEFINE l == loc[t]
           b == l.walk.curr
           c == Collected(l.list, b, MinusOne)
<1>1. /\ TypeOK /\ LocalsOK(t) /\ l \in Local
      /\ l.op \in WalkOps /\ l.pc \notin RetireLabels /\ l.pc # "ack"
      /\ P!TypeOK /\ P!ThreadInv /\ P!RefsInv /\ P!HyalineAssumption
  BY WalkerPlace
<1>2. absPc[t] = "travDrop" /\ absWalk[t].curr = b /\ absList[t] = l.list
  BY <1>1, WalkerNow
<1>3. b \in Batches /\ todo[t] # <<>> /\ todo[t] \in Seq(Batches) /\ b = todo[t][1]
  BY <1>1, <1>2, P!DropsTodo
<1>4. Len(todo[t]) \in Nat \ {0}
  BY <1>3
<1>5. P!InSeq(b, todo[t]) /\ InSeq(b, todo[t])
  BY <1>3, <1>4 DEF P!InSeq, InSeq
<1>6. b \notin l.list
  <2>1. t \in P!Owers(b)
    BY <1>5 DEF P!Owers, P!Owes
  <2>2. ~P!Listed(b)
    BY <1>1, <1>3, <2>1 DEF P!RefsInv
  <2> QED
    BY <1>2, <2>2 DEF P!Listed
<1>7. refs[b] = NegW(MinusOne) <=> refs[b] = 1
  <2>1. refs[b] \in 0 .. Mod - 1 /\ Mod \in Nat /\ Mod >= 2
    BY <1>1, <1>3, Roomy, Constants DEF TypeOK, Word
  <2> QED
    BY <2>1 DEF NegW, MinusOne
<1>8. IsFiniteSet(l.list) /\ Cardinality(l.list) \in Nat
  BY <1>1, FS_CardinalityType DEF LocalsOK
<1>9. c = IF refs[b] = 1 THEN l.list \union {b} ELSE l.list
  BY <1>7 DEF Collected
<1>10. Cardinality(l.list \union {b}) = Cardinality(l.list) + 1
  BY <1>6, <1>8, FS_AddElement
<1> HIDE DEF c, b, l
<1>11. b \in c <=> refs[b] = 1
  BY <1>6, <1>9
<1>12. refs[b] = 1 => Cardinality(c) = Cardinality(l.list) + 1
  BY <1>9, <1>10
<1> QED
  BY <1>3, <1>5, <1>6, <1>7, <1>8, <1>11, <1>12 DEF l, b, c

\* traverse drops a reference in both.
LEMMA TravDropMaps ==
    ASSUME Base, NEW t \in Threads, TravDrop(t), Walks(t, Tail(todo[t])),
           UNCHANGED <<head, counter>>
    PROVE  P!TravDrop(t)
<1> DEFINE l == loc[t]
           m == loc'[t]
           b == loc[t].walk.curr
           c == Collected(loc[t].list, b, MinusOne)
           flush == l.op = "trim" /\ l.thr > 0 /\ b \in c /\ Cardinality(c) >= l.thr
<1>1. l.pc = "travDrop"
  BY DEF TravDrop, At
<1>2. /\ TypeOK /\ LocalsOK(t) /\ l \in Local
      /\ l.op \in WalkOps /\ l.pc \notin RetireLabels /\ l.pc # "ack"
  BY <1>1, WalkerPlace
<1>3. /\ b \in Batches /\ (b \in c <=> refs[b] = 1)
      /\ refs[b] = 1 => Cardinality(c) = Cardinality(l.list) + 1
  BY <1>1, DropsOne
<1>4. /\ Moves(t) /\ m \in Local /\ SameClient(l, m) /\ m.list = c
      /\ m.last = l.last /\ m.thr = l.thr
  BY <1>2, <1>3, TravDropDoes DEF Moves
<1>5. /\ UNCHANGED <<head, next, held, covers>> /\ status' = status /\ Adjust(b, MinusOne)
  BY DEF TravDrop, Walks, memory, structure
<1>6. /\ flush => /\ m.op = "nested" /\ m.outer = l.walk /\ m.walk = NoWalk
                  /\ m.pc = "leaveLoad"
      /\ ~flush => m.op = l.op /\ m.outer = l.outer
      /\ ~flush /\ b = l.walk.end => m.pc = "ack"
      /\ ~flush /\ b # l.walk.end => m.pc = "travRead" /\ m.walk = l.walk
  BY <1>2, <1>3, TravDropDoes
<1>7. m.op \in WalkOps /\ m.pc \notin RetireLabels
  BY <1>2, <1>6 DEF WalkOps, RetireLabels
<1>8. /\ absLast' = absLast /\ absList[t] = l.list /\ absList' = [absList EXCEPT ![t] = m.list]
      /\ absActive' = absActive /\ absGrace' = absGrace
      /\ UNCHANGED P!callerLocals /\ UNCHANGED P!retireLocals
  BY <1>2, <1>4, <1>5, <1>7, WalkersKeep
<1>9. /\ absPc[t] = "travDrop" /\ absWalk[t] = Bare(l.walk) /\ absStatus' = absStatus
      /\ absWalk[t].curr = b /\ absWalk[t].end = l.walk.end
      /\ absOp[t] = l.op /\ absThr[t] = l.thr
  BY <1>1, <1>2, <1>5, WalkerNow, MappedStatus
<1>10. P!AdjustRefs(t, b, P!MinusOne)
  BY <1>2, <1>3, <1>4, <1>5, <1>8, AdjustMaps, SameWords
<1>11. P!Flushes(t, b) <=> flush
  <2>1. P!Flushes(t, b) <=> /\ l.op = "trim" /\ l.thr > 0
                            /\ refs[b] = 1 /\ Cardinality(l.list) + 1 >= l.thr
    BY <1>8, <1>9, SameSize DEF P!Flushes
  <2> QED
    BY <1>3, <2>1
<1> HIDE DEF flush, c
<1>12. CASE flush
  <2>1. /\ m.op = "nested" /\ m.outer = l.walk /\ m.walk = NoWalk /\ m.pc = "leaveLoad"
    BY <1>6, <1>12
  <2>2. todo' = [todo EXCEPT ![t] = <<>>] /\ later' = [later EXCEPT ![t] = Tail(todo[t])]
    BY <2>1 DEF Walks
  <2>3. m.pc # "ack" /\ Bare(m.walk) = P!NoWalk /\ Bare(m.outer) = absWalk[t]
    BY <1>9, <2>1, BareNone DEF P!NoWalk, None
  <2>4. /\ absPc' = [absPc EXCEPT ![t] = "leaveLoad"]
        /\ absWalk' = [absWalk EXCEPT ![t] = P!NoWalk]
        /\ absOuter' = [absOuter EXCEPT ![t] = absWalk[t]]
        /\ absOp' = [absOp EXCEPT ![t] = "nested"] /\ absThr' = absThr
    BY <1>2, <1>4, <1>7, <2>1, <2>3, WalkersGo
  <2> HIDE DEF l, m, b
  <2> QED
    BY <1>5, <1>8, <1>9, <1>10, <1>11, <1>12, <2>2, <2>4 DEF P!TravDrop, P!client, P!Goto
<1>13. CASE ~flush /\ b # l.walk.end
  <2>1. m.op = l.op /\ m.outer = l.outer /\ m.pc = "travRead" /\ m.walk = l.walk
    BY <1>6, <1>13
  <2>2. todo' = [todo EXCEPT ![t] = Tail(todo[t])] /\ later' = later
    BY <2>1 DEF Walks
  <2>3. m.pc # "ack"
    BY <2>1
  <2>4. /\ absPc' = [absPc EXCEPT ![t] = "travRead"] /\ absWalk' = absWalk
        /\ absOuter' = absOuter /\ absOp' = absOp /\ absThr' = absThr
    BY <1>2, <1>4, <1>7, <2>1, <2>3, WalkersGo
  <2> HIDE DEF l, m, b
  <2> QED
    BY <1>5, <1>8, <1>9, <1>10, <1>11, <1>13, <2>2, <2>4 DEF P!TravDrop, P!client, P!Goto
<1>14. CASE ~flush /\ b = l.walk.end
  <2>1. m.op = l.op /\ m.outer = l.outer /\ m.pc = "ack"
    BY <1>6, <1>14
  <2>2. Returns(t, Tail(todo[t]))
    BY <2>1 DEF Walks
  <2>3. l.op # "nested" => l.outer = NoWalk
    BY <1>2 DEF LocalsOK
  <2>4. MapsReturn(l, m)
    BY <1>2, <1>4, <2>1, <2>3, EndedImage
  <2>5. P!Return(t) /\ todo' = [todo EXCEPT ![t] = P!TodoAfterReturn(t, Tail(todo[t]))]
    BY <1>2, <1>4, <2>2, <2>4, ReturnMaps
  <2> HIDE DEF l, m, b
  <2> QED
    BY <1>5, <1>8, <1>9, <1>10, <1>11, <1>14, <2>5 DEF P!TravDrop, P!client
<1> QED
  BY <1>12, <1>13, <1>14

\* trim reads the link of its handle in both.
LEMMA TrimReadMaps ==
    ASSUME Base, NEW t \in Threads, TrimRead(t), UNCHANGED <<head, history>>
    PROVE  P!TrimRead(t)
<1> DEFINE l == loc[t]
           m == loc'[t]
           x == next[l.smr][l.vec]
<1>1. l.pc = "trimRead" /\ l.smr \in Batches
  BY Addresses DEF TrimRead, At
<1>2. /\ TypeOK /\ LocalsOK(t) /\ l \in Local
      /\ l.op \in WalkOps /\ l.pc \notin RetireLabels /\ l.pc # "ack"
  BY <1>1, WalkerPlace
<1>3. /\ Moves(t) /\ m \in Local /\ SameClient(l, m) /\ m.list = l.list
      /\ m.last = l.last /\ m.op = l.op /\ m.thr = l.thr /\ m.outer = l.outer
      /\ m.walk.curr = l.walk.curr /\ m.walk.nxt = x /\ m.walk.end = l.walk.end
      /\ m.pc = "travRead"
  BY <1>1, <1>2, TrimReadDoes DEF Moves
<1>4. m.pc # "ack" /\ m.pc \notin RetireLabels /\ m.op \in WalkOps
  BY <1>2, <1>3 DEF RetireLabels
<1>5. /\ UNCHANGED <<head, next, refs, covers, held, todo, later>> /\ status' = status
  BY DEF TrimRead, memory, structure, history, owed
<1>6. /\ absVec[t] = l.vec /\ absSmr[t] = l.smr /\ absLast' = absLast /\ absList' = absList
      /\ absActive' = absActive /\ absGrace' = absGrace
      /\ UNCHANGED P!callerLocals /\ UNCHANGED P!retireLocals
  BY <1>2, <1>3, <1>4, <1>5, WalkersKeep
<1>7. l.walk.curr = NULL
  BY <1>1, <1>2 DEF LocalsOK, NoWalk
<1>8. Bare(m.walk) = [curr |-> NULL, nxt |-> x, end |-> l.walk.end]
  BY <1>3, <1>7 DEF Bare
<1> HIDE DEF x
<1>9. /\ absPc[t] = "trimRead" /\ absWalk[t] = Bare(l.walk)
      /\ absPc' = [absPc EXCEPT ![t] = "travRead"]
      /\ absWalk' = [absWalk EXCEPT ![t] = [curr |-> NULL, nxt |-> x, end |-> l.walk.end]]
      /\ absOp' = absOp /\ absThr' = absThr /\ absOuter' = absOuter
  BY <1>1, <1>2, <1>3, <1>4, <1>8, WalkersGo
<1>10. absWalk[t].end = l.walk.end /\ absStatus' = absStatus
  BY <1>5, <1>9, BareIs, MappedStatus
<1> HIDE DEF l, m
<1> QED
  BY <1>5, <1>6, <1>9, <1>10
  DEF P!TrimRead, P!shared, P!client, P!Goto, P!history, x


\* What keeps a thread's image keeps the variables of Hyaline.
LEMMA MappedSame ==
    ASSUME NEW t \in Threads, Others(t)
    PROVE
        /\ PcOf(loc'[t]) = PcOf(loc[t]) => absPc' = absPc
        /\ OpOf(loc'[t]) = OpOf(loc[t]) => absOp' = absOp
        /\ VecOf(loc'[t]) = VecOf(loc[t]) => absVec' = absVec
        /\ SmrOf(loc'[t]) = SmrOf(loc[t]) => absSmr' = absSmr
        /\ LastOf(loc'[t]) = LastOf(loc[t]) => absLast' = absLast
        /\ WalkOf(loc'[t]) = WalkOf(loc[t]) => absWalk' = absWalk
        /\ OuterOf(loc'[t]) = OuterOf(loc[t]) => absOuter' = absOuter
        /\ ThrOf(loc'[t]) = ThrOf(loc[t]) => absThr' = absThr
        /\ ListOf(loc'[t]) = ListOf(loc[t]) => absList' = absList
        /\ BatchOf(loc'[t]) = BatchOf(loc[t]) => absBatch' = absBatch
        /\ SlotOf(loc'[t]) = SlotOf(loc[t]) => absSlot' = absSlot
        /\ AdjsOf(loc'[t]) = AdjsOf(loc[t]) => absAdjs' = absAdjs
        /\ DoAdjsOf(loc'[t]) = DoAdjsOf(loc[t]) => absDoAdjs' = absDoAdjs
        /\ SkippedOf(loc'[t]) = SkippedOf(loc[t]) => absSkipped' = absSkipped
BY Mapped DEF Follows

\* trim begins in both, whatever its threshold.
LEMMA TrimMaps ==
    ASSUME Base, NEW t \in Threads, NEW th \in TrimThresholds, Trim(t, th), Keeps(t),
           UNCHANGED <<head, counter>>
    PROVE  P!Trim(t)
<1> DEFINE l == loc[t]
           m == loc'[t]
           x == head[loc[t].vec].ptr
<1>1. /\ TypeOK /\ ControlOK(t) /\ LocalsOK(t) /\ l \in Local
  BY Fields DEF Base, TypeOK, ThreadInv, Local
<1>2. /\ l.pc = "idle" /\ l.inside /\ Moves(t) /\ m \in Local /\ m.inside = TRUE
      /\ m.vec = l.vec /\ m.list = l.list /\ m.outer = l.outer /\ m.last = l.last
      /\ SameRetire(l, m)
  BY <1>1, TrimDoes DEF Moves
<1>3. l.op = "none" /\ l.pc # "ack" /\ l.pc \notin RetireLabels /\ l.pc # "retireAdjust"
  BY <1>1, <1>2 DEF ControlOK, RetireLabels
<1>4. UNCHANGED <<next, refs, later, covers>> /\ status' = status
  BY DEF Trim, Keeps, memory, structure
<1>5. absStatus' = absStatus
  BY <1>4, MappedStatus
<1>6. /\ VecOf(l) = l.vec /\ SmrOf(l) = l.smr /\ BatchOf(l) = NULL
      /\ SlotOf(l) = 0 /\ AdjsOf(l) = 0 /\ DoAdjsOf(l) = FALSE /\ SkippedOf(l) = {}
      /\ LastOf(l) = l.last /\ ListOf(l) = l.list
      /\ PcOf(l) = "idle" /\ OpOf(l) = "none" /\ ThrOf(l) = l.thr
      /\ WalkOf(l) = Bare(l.walk) /\ OuterOf(l) = Bare(l.outer)
  BY <1>1, <1>2, <1>3, IdleImage
<1>7. /\ absVec[t] = l.vec /\ absSmr[t] = l.smr /\ absPc[t] = "idle" /\ t \in absActive
  BY <1>2, <1>6, Image
<1>8. CASE x = l.smr
  <2>1. /\ m.op = l.op /\ m.pc = "idle" /\ m.smr = l.smr /\ SameWalks(l, m)
    BY <1>1, <1>8, TrimDoes
  <2>2. SameImage(l, m)
    <3>1. m.pc \notin RetireLabels /\ m.pc # "ack"
      BY <2>1 DEF RetireLabels
    <3> HIDE DEF l, m
    <3> QED
      BY <1>1, <1>2, <1>3, <2>1, <3>1, HiddenIdle
  <2>3. UNCHANGED <<head, next, refs, history>>
    BY <1>4, <1>8 DEF Keeps, history, owed
  <2>4. UNCHANGED P!vars
    BY <1>1, <1>2, <1>3, <1>5, <2>1, <2>2, <2>3, Hidden
  <2> HIDE DEF l, m, x
  <2>5. P!TrimNothing(t)
    BY <1>7, <1>8, <2>4, ReleasedIs
    DEF P!TrimNothing, P!vars, P!shared, P!history, P!callerLocals, P!walkLocals,
        P!retireLocals, x, l
  <2> QED
    BY <2>5 DEF P!Trim
<1>9. CASE x # l.smr
  <2>1. /\ m.op = "trim" /\ m.pc = "trimRead" /\ m.smr = x /\ m.thr = th
        /\ m.walk.curr = l.walk.curr /\ m.walk.nxt = l.walk.nxt /\ m.walk.end = l.smr
    BY <1>1, <1>9, TrimDoes
  <2>2. l.walk.curr = NULL /\ l.walk.nxt = NULL
    BY <1>1, <1>3 DEF LocalsOK, NoWalk
  <2>3. Bare(m.walk) = [curr |-> NULL, nxt |-> NULL, end |-> l.smr]
    BY <2>1, <2>2 DEF Bare
  <2>4. m.op \in WalkOps /\ m.pc \notin RetireLabels /\ m.pc # "ack" /\ m.pc # "retireAdjust"
    BY <2>1 DEF WalkOps, RetireLabels
  <2>5. todo' = [todo EXCEPT ![t] = held[t]] /\ held' = [held EXCEPT ![t] = <<>>]
    BY <1>9 DEF Keeps
  <2> HIDE DEF l, m, x
  <2>6. /\ VecOf(m) = m.vec /\ SmrOf(m) = x /\ BatchOf(m) = NULL
        /\ SlotOf(m) = 0 /\ AdjsOf(m) = 0 /\ DoAdjsOf(m) = FALSE /\ SkippedOf(m) = {}
        /\ LastOf(m) = m.last /\ ListOf(m) = m.list
        /\ PcOf(m) = "trimRead" /\ OpOf(m) = "trim" /\ ThrOf(m) = th
        /\ WalkOf(m) = [curr |-> NULL, nxt |-> NULL, end |-> l.smr]
        /\ OuterOf(m) = Bare(m.outer)
    BY <1>2, <2>1, <2>3, <2>4, WalkerImage
  <2>7. /\ absPc' = [absPc EXCEPT ![t] = "trimRead"] /\ absOp' = [absOp EXCEPT ![t] = "trim"]
        /\ absSmr' = [absSmr EXCEPT ![t] = x] /\ absThr' = [absThr EXCEPT ![t] = th]
        /\ absWalk' = [absWalk EXCEPT ![t] = [curr |-> NULL, nxt |-> NULL, end |-> l.smr]]
    BY <1>2, <2>6, Mapped DEF Moves, Follows, l, m
  <2>8. /\ absVec' = absVec /\ absLast' = absLast /\ absOuter' = absOuter
        /\ absList' = absList
    <3>1. /\ VecOf(m) = VecOf(l) /\ LastOf(m) = LastOf(l) /\ OuterOf(m) = OuterOf(l)
          /\ ListOf(m) = ListOf(l)
      BY <1>2, <1>6, <2>6
    <3> QED
      BY <1>2, <3>1, MappedSame DEF Moves, l, m
  <2>9. /\ absBatch' = absBatch /\ absSlot' = absSlot /\ absAdjs' = absAdjs
        /\ absDoAdjs' = absDoAdjs /\ absSkipped' = absSkipped
    <3>1. BatchOf(m) = BatchOf(l) /\ SlotOf(m) = SlotOf(l) /\ AdjsOf(m) = AdjsOf(l)
      BY <1>6, <2>6
    <3>2. DoAdjsOf(m) = DoAdjsOf(l)
      BY <1>6, <2>6
    <3>3. SkippedOf(m) = SkippedOf(l)
      BY <1>6, <2>6
    <3>4. absBatch' = absBatch /\ absSlot' = absSlot /\ absAdjs' = absAdjs
      BY <1>2, <3>1, MappedSame DEF Moves, l, m
    <3>5. absDoAdjs' = absDoAdjs
      BY <1>2, <3>2, MappedSame DEF Moves, l, m
    <3>6. absSkipped' = absSkipped
      BY <1>2, <3>3, MappedSame DEF Moves, l, m
    <3> QED
      BY <3>4, <3>5, <3>6
  <2>10. absActive' = absActive
    BY <1>2, MappedHere DEF Moves, l, m
  <2>11. absCovers' = absCovers
    BY <1>1, <1>2, <1>3, <1>4, <2>4, MappedCovers DEF Moves, TypeOK, l, m
  <2>12. P!TrimBegin(t, th)
    BY <1>4, <1>5, <1>7, <1>9, <2>5, <2>7, <2>8, <2>9, <2>10, <2>11, ReleasedIs
    DEF P!TrimBegin, P!Goto, P!shared, P!retireLocals, x, l
  <2> QED
    BY <2>12 DEF P!Trim
<1> QED
  BY <1>8, <1>9

-----------------------------------------------------------------------------
(* The steps of retire.                                                    *)

\* retire begins in both.
LEMMA RetireMaps ==
    ASSUME Base, NEW t \in Threads, NEW e \in 0 .. global, Retire(t, e),
           UNCHANGED <<head, counter, history>>
    PROVE  P!RetireUnseen(t, root)
<1> DEFINE l == loc[t]
           m == loc'[t]
<1>1. /\ TypeOK /\ ControlOK(t) /\ LocalsOK(t) /\ l \in Local
  BY Fields DEF Base, TypeOK, ThreadInv, Local
<1>2. /\ l.pc = "idle" /\ l.inside /\ Moves(t) /\ m \in Local /\ root \in Batches
      /\ SameClient(l, m) /\ SameWalks(l, m)
      /\ m.pc = "retireAccess" /\ m.op = "retire" /\ m.last = l.last /\ m.list = l.list
      /\ m.batch = root /\ m.slot = l.slot /\ m.adjs = l.adjs /\ m.doAdjs = l.doAdjs
      /\ m.into = l.into
  BY <1>1, RetireDoes DEF Moves
<1>3. l.op = "none" /\ l.pc # "ack" /\ l.pc \notin RetireLabels /\ l.pc # "retireAdjust"
  BY <1>1, <1>2 DEF ControlOK, RetireLabels
<1>4. /\ UNCHANGED <<next, held, todo, later, covers>>
      /\ status' = [status EXCEPT ![root] = "retired"]
      /\ refs' = [refs EXCEPT ![root] = 0]
  BY DEF Retire, history, owed
<1>5. status[root] = "linked" /\ status \in [Batches -> {"freed", "new", "linked", "retired"}]
  BY <1>2, Constants DEF Base, TypeOK, ObjectInv
<1>6. absStatus[root] = "live" /\ absStatus' = [absStatus EXCEPT ![root] = "retired"]
  BY <1>2, <1>4, <1>5 DEF absStatus
<1>7. /\ VecOf(l) = l.vec /\ SmrOf(l) = l.smr /\ BatchOf(l) = NULL
      /\ SlotOf(l) = 0 /\ AdjsOf(l) = 0 /\ DoAdjsOf(l) = FALSE /\ SkippedOf(l) = {}
      /\ LastOf(l) = l.last /\ ListOf(l) = l.list
      /\ PcOf(l) = "idle" /\ OpOf(l) = "none" /\ ThrOf(l) = l.thr
      /\ WalkOf(l) = Bare(l.walk) /\ OuterOf(l) = Bare(l.outer)
  BY <1>1, <1>2, <1>3, IdleImage
<1>8. m.pc \in RetireLabels /\ m.pc # "retireAdjust"
  BY <1>2 DEF RetireLabels
<1>9. l.slot = 0 /\ l.adjs = 0 /\ l.doAdjs = FALSE /\ l.into = {}
  BY <1>1, <1>3, Fields DEF LocalsOK
<1>10. (0 .. m.slot - 1) \ m.into = {}
  BY <1>2, <1>9
<1> HIDE DEF l, m
<1>11. /\ VecOf(m) = m.vec /\ SmrOf(m) = m.smr /\ BatchOf(m) = root
       /\ SlotOf(m) = 0 /\ AdjsOf(m) = 0 /\ DoAdjsOf(m) = FALSE /\ SkippedOf(m) = {}
       /\ LastOf(m) = m.last /\ ListOf(m) = m.list
       /\ PcOf(m) = "retireLoad" /\ OpOf(m) = "retire" /\ ThrOf(m) = m.thr
       /\ WalkOf(m) = Bare(m.walk) /\ OuterOf(m) = Bare(m.outer)
  BY <1>2, <1>8, <1>9, <1>10, RetirerImage
<1>12. /\ absPc[t] = "idle" /\ absPc' = [absPc EXCEPT ![t] = "retireLoad"]
       /\ absOp' = [absOp EXCEPT ![t] = "retire"]
       /\ absBatch' = [absBatch EXCEPT ![t] = root]
  BY <1>2, <1>7, <1>11, Mapped DEF Moves, Follows, l, m
<1>13. /\ absVec' = absVec /\ absSmr' = absSmr /\ absLast' = absLast /\ absList' = absList
       /\ absThr' = absThr /\ absWalk' = absWalk /\ absOuter' = absOuter
  <2>1. /\ VecOf(m) = VecOf(l) /\ SmrOf(m) = SmrOf(l) /\ LastOf(m) = LastOf(l)
        /\ ListOf(m) = ListOf(l) /\ ThrOf(m) = ThrOf(l) /\ WalkOf(m) = WalkOf(l)
        /\ OuterOf(m) = OuterOf(l)
    BY <1>2, <1>7, <1>11 DEF SameClient, SameWalks
  <2> QED
    BY <1>2, <2>1, MappedSame DEF Moves, l, m
<1>14. /\ absSlot' = absSlot /\ absAdjs' = absAdjs
       /\ absDoAdjs' = absDoAdjs /\ absSkipped' = absSkipped
  <2>1. /\ SlotOf(m) = SlotOf(l) /\ AdjsOf(m) = AdjsOf(l)
        /\ DoAdjsOf(m) = DoAdjsOf(l) /\ SkippedOf(m) = SkippedOf(l)
    BY <1>7, <1>11
  <2> QED
    BY <1>2, <2>1, MappedSame DEF Moves, l, m
<1>15. absActive' = absActive
  BY <1>2, MappedHere DEF Moves, SameClient, l, m
<1>16. absCovers' = absCovers
  BY <1>1, <1>2, <1>3, <1>4, <1>8, MappedCovers DEF Moves, TypeOK, l, m
<1> QED
  BY <1>4, <1>6, <1>12, <1>13, <1>14, <1>15, <1>16, MappedStatus
  DEF P!RetireUnseen, P!Goto, P!history, P!callerLocals, P!walkLocals, P!countLocals

\* A retirement with the steps that it takes.
LEMMA RetirerNow ==
    ASSUME Base, NEW t \in Threads, loc[t].pc \in RetireLabels
    PROVE  /\ TypeOK /\ ControlOK(t) /\ LocalsOK(t) /\ RetireOK(t)
           /\ loc[t] \in Local /\ loc[t].op = "retire"
           /\ absBatch[t] = loc[t].batch /\ absSlot[t] = loc[t].slot
           /\ absAdjs[t] = loc[t].adjs /\ absDoAdjs[t] = loc[t].doAdjs
           /\ absSkipped[t] = IF loc[t].pc = "retireFinish" THEN Slots \ loc[t].into
                              ELSE (0 .. loc[t].slot - 1) \ loc[t].into
           /\ absLast[t] = loc[t].last /\ absList[t] = loc[t].list
           /\ absPc[t] = IF loc[t].pc = "retireAccess" THEN "retireLoad"
                         ELSE IF loc[t].pc = "retireCount" THEN "retireNext" ELSE loc[t].pc
<1>1. /\ TypeOK /\ ControlOK(t) /\ LocalsOK(t) /\ RetireOK(t)
      /\ loc[t] \in Local /\ loc[t].op = "retire"
  BY DEF Base, TypeOK, ThreadInv, ControlOK, Local
<1> QED
  BY <1>1, Image, RetirerImage

\* A step of retire leaves the caller's locals and the walk's alone.
LEMMA RetirerKeeps ==
    ASSUME Base, NEW t \in Threads, loc[t].pc \in RetireLabels, Moves(t),
           SameClient(loc[t], loc'[t]), SameWalks(loc[t], loc'[t]), loc'[t].op = "retire",
           loc'[t].pc \in RetireLabels \union {"free"}
    PROVE  /\ absOp' = absOp /\ absActive' = absActive /\ absGrace' = absGrace
           /\ UNCHANGED P!callerLocals /\ UNCHANGED P!walkLocals
           /\ status' = status => absStatus' = absStatus
           /\ loc'[t].list = loc[t].list => absList' = absList
           /\ absPc' = [absPc EXCEPT ![t] = PcOf(loc'[t])]
           /\ absLast' = [absLast EXCEPT ![t] = loc'[t].last]
           /\ loc'[t].last = loc[t].last => absLast' = absLast
<1> DEFINE l == loc[t]
           m == loc'[t]
<1>1. l \in Local /\ l.op = "retire" /\ m \in Local
  BY RetirerNow DEF Moves
<1>2. ~Out(l) /\ ~Out(m) /\ l.pc # "ack" /\ m.pc # "ack"
  BY <1>1 DEF Out, RetireLabels
<1>3. OpOf(m) = OpOf(l) /\ ThrOf(m) = ThrOf(l)
  BY <1>1, <1>2 DEF OpOf, ThrOf, SameWalks
<1>4. VecOf(m) = VecOf(l) /\ SmrOf(m) = SmrOf(l)
  BY <1>1, <1>2 DEF VecOf, SmrOf, SameClient
<1>5. WalkOf(m) = WalkOf(l) /\ OuterOf(m) = OuterOf(l)
  BY <1>2 DEF WalkOf, OuterOf, SameWalks
<1>6. /\ absOp' = absOp /\ absThr' = absThr /\ absVec' = absVec /\ absSmr' = absSmr
      /\ absWalk' = absWalk /\ absOuter' = absOuter
  BY <1>3, <1>4, <1>5, MappedSame DEF Moves
<1>7. absActive' = absActive
  BY MappedHere DEF Moves, SameClient
<1>8. /\ absPc' = [absPc EXCEPT ![t] = PcOf(m)]
      /\ absLast' = [absLast EXCEPT ![t] = LastOf(m)]
  BY Mapped DEF Moves, Follows
<1>9. /\ m.list = l.list => absList' = absList
      /\ m.last = l.last => absLast' = absLast
  BY MappedSame DEF Moves, ListOf, LastOf
<1> QED
  BY <1>6, <1>7, <1>8, <1>9, MappedStatus DEF P!callerLocals, P!walkLocals, LastOf

\* The slot that t is at is passed by.
LEMMA PassMaps ==
    ASSUME Base, NEW t \in Threads, Moves(t), Passed(loc[t], loc'[t]),
           loc[t].pc \in {"retireAccess", "retireLoad", "retireCas"}
    PROVE  P!PassBy(t) /\ loc'[t].pc \in RetireLabels /\ loc'[t].pc # "retireAdjust"
<1> DEFINE l == loc[t]
           m == loc'[t]
<1>1. l.pc \in RetireLabels /\ l.pc # "retireFinish"
  BY DEF RetireLabels
<1>2. /\ l \in Local /\ m \in Local /\ l.op = "retire" /\ RetireOK(t)
      /\ absBatch[t] = l.batch /\ absSlot[t] = l.slot /\ absAdjs[t] = l.adjs
      /\ absSkipped[t] = (0 .. l.slot - 1) \ l.into
  BY <1>1, RetirerNow DEF Moves
<1>3. /\ SameClient(l, m) /\ SameWalks(l, m) /\ m.op = "retire" /\ m.batch = l.batch
      /\ m.into = l.into /\ m.last = Empty /\ m.adjs = AddW(l.adjs, Addend)
      /\ m.doAdjs = TRUE /\ m.list = l.list
      /\ \/ l.slot + 1 < NumSlots /\ m.slot = l.slot + 1 /\ m.pc = "retireAccess"
         \/ l.slot + 1 = NumSlots /\ m.slot = l.slot /\ m.pc = "retireFinish"
  BY <1>2 DEF Passed, Advanced
<1>4. /\ m.pc \in RetireLabels /\ m.pc # "retireAdjust"
      /\ l.slot \in 0 .. NumSlots - 1 /\ NumSlots \in Nat \ {0} /\ Slots = 0 .. NumSlots - 1
      /\ l.into \subseteq 0 .. l.slot /\ l.slot \notin l.into
  BY <1>2, <1>3, Fields, Constants DEF RetireLabels, RetireOK
<1>5. Follows(absAdjs, absAdjs', t, AdjsOf(l), AdjsOf(m))
  BY Mapped DEF Moves
<1>6. Follows(absDoAdjs, absDoAdjs', t, DoAdjsOf(l), DoAdjsOf(m))
  BY Mapped DEF Moves
<1>7. Follows(absSkipped, absSkipped', t, SkippedOf(l), SkippedOf(m))
  BY Mapped DEF Moves
<1>8. Follows(absSlot, absSlot', t, SlotOf(l), SlotOf(m))
  BY Mapped DEF Moves
<1>9. /\ absPc' = [absPc EXCEPT ![t] = PcOf(m)]
      /\ absLast' = [absLast EXCEPT ![t] = m.last]
  BY <1>1, <1>3, <1>4, RetirerKeeps
<1>10. /\ AdjsOf(m) = m.adjs /\ DoAdjsOf(m) = m.doAdjs /\ SlotOf(m) = m.slot
       /\ PcOf(m) = IF m.pc = "retireAccess" THEN "retireLoad"
                    ELSE IF m.pc = "retireCount" THEN "retireNext" ELSE m.pc
       /\ SkippedOf(m) = IF m.pc = "retireFinish" THEN Slots \ m.into
                         ELSE (0 .. m.slot - 1) \ m.into
       /\ SlotOf(l) = l.slot
  BY <1>1, <1>2, <1>3, <1>4, RetirerImage
<1>11. SkippedOf(m) = absSkipped[t] \union {l.slot}
  BY <1>2, <1>3, <1>4, <1>10
<1>12. /\ absAdjs' = [absAdjs EXCEPT ![t] = AddW(l.adjs, Addend)]
       /\ absDoAdjs' = [absDoAdjs EXCEPT ![t] = TRUE]
       /\ absSkipped' = [absSkipped EXCEPT ![t] = absSkipped[t] \union {l.slot}]
  BY <1>3, <1>5, <1>6, <1>7, <1>10, <1>11 DEF Follows
<1>13. ASSUME l.slot + 1 < NumSlots PROVE P!PassBy(t)
  <2>1. m.pc = "retireAccess" /\ m.slot = l.slot + 1
    BY <1>3, <1>4, <1>13
  <2>2. absPc' = [absPc EXCEPT ![t] = "retireLoad"]
    BY <1>9, <1>10, <2>1
  <2>3. absSlot' = [absSlot EXCEPT ![t] = l.slot + 1]
    BY <1>8, <1>10, <2>1 DEF Follows
  <2>4. absLast' = [absLast EXCEPT ![t] = Empty]
    BY <1>3, <1>9
  <2> HIDE DEF l, m
  <2>5. P!NextSlot(t, TRUE)
    BY <1>2, <1>13, <2>2, <2>3 DEF P!NextSlot, P!Goto
  <2> QED
    BY <1>2, <1>12, <2>4, <2>5, SameWords DEF P!PassBy
<1>14. ASSUME l.slot + 1 = NumSlots PROVE P!PassBy(t)
  <2>1. m.pc = "retireFinish" /\ m.slot = l.slot
    BY <1>3, <1>4, <1>14
  <2>2. absPc' = [absPc EXCEPT ![t] = "retireFinish"]
    BY <1>9, <1>10, <2>1
  <2>3. absSlot' = absSlot
    BY <1>8, <1>10, <2>1 DEF Follows
  <2>4. absLast' = [absLast EXCEPT ![t] = Empty]
    BY <1>3, <1>9
  <2> HIDE DEF l, m
  <2>5. P!NextSlot(t, TRUE)
    BY <1>2, <1>4, <1>14, <2>2, <2>3 DEF P!NextSlot, P!Goto
  <2> QED
    BY <1>2, <1>12, <2>4, <2>5, SameWords DEF P!PassBy
<1> QED
  BY <1>3, <1>4, <1>13, <1>14

\* What of a retirement changes when it stays at a slot.
LEMMA StaysAtSlot ==
    ASSUME Base, NEW t \in Threads, loc[t].pc \in RetireLabels \ {"retireFinish"}, Moves(t),
           loc'[t].op = "retire", loc'[t].pc \in RetireLabels \ {"retireFinish"},
           loc'[t].batch = loc[t].batch, loc'[t].slot = loc[t].slot
    PROVE  /\ absBatch' = absBatch /\ absSlot' = absSlot
           /\ loc'[t].adjs = loc[t].adjs /\ loc'[t].doAdjs = loc[t].doAdjs =>
                absAdjs' = absAdjs /\ absDoAdjs' = absDoAdjs
           /\ loc'[t].into \ {loc[t].slot} = loc[t].into \ {loc[t].slot} =>
                absSkipped' = absSkipped
<1> DEFINE l == loc[t]
           m == loc'[t]
<1>1. l \in Local /\ l.op = "retire" /\ m \in Local
  BY RetirerNow DEF Moves
<1>2. Live(l) /\ Live(m)
  BY <1>1 DEF Live, RetireLabels
<1>3. /\ BatchOf(m) = BatchOf(l) /\ SlotOf(m) = SlotOf(l)
  BY <1>2 DEF BatchOf, SlotOf
<1>4. /\ m.adjs = l.adjs => AdjsOf(m) = AdjsOf(l)
      /\ m.doAdjs = l.doAdjs => DoAdjsOf(m) = DoAdjsOf(l)
  BY <1>2 DEF AdjsOf, DoAdjsOf
<1>5. ASSUME m.into \ {l.slot} = l.into \ {l.slot} PROVE SkippedOf(m) = SkippedOf(l)
  <2>1. l.slot \in Nat
    BY <1>1, Fields, Constants
  <2>2. (0 .. l.slot - 1) \ m.into = (0 .. l.slot - 1) \ l.into
    <3>1. l.slot \notin 0 .. l.slot - 1
      BY <2>1
    <3> QED
      BY <1>5, <3>1
  <2> QED
    BY <2>2 DEF SkippedOf
<1> QED
  BY <1>3, <1>4, <1>5, MappedSame DEF Moves

\* A slot passed by for its epoch is passed by in Hyaline.
LEMMA RetireAccessMaps ==
    ASSUME Base, NEW t \in Threads, RetireAccess(t)
    PROVE  UNCHANGED P!vars \/ P!PassByEpoch(t)
<1> DEFINE l == loc[t]
           m == loc'[t]
<1>1. /\ TypeOK /\ Moves(t) /\ l.pc = "retireAccess"
      /\ access[l.slot] >= l.min =>
           /\ SameClient(l, m) /\ SameWalks(l, m) /\ SameDeref(l, m) /\ SameRetire(l, m)
           /\ m.list = l.list /\ m.op = l.op /\ m.last = l.last /\ m.pc = "retireLoad"
      /\ ~(access[l.slot] >= l.min) => Passed(l, m)
  BY RetireAccessDoes DEF Base
<1>2. l.pc \in RetireLabels \ {"retireFinish"}
  BY <1>1 DEF RetireLabels
<1>3. /\ UNCHANGED <<head, next, refs, history>> /\ status' = status
      /\ UNCHANGED <<held, todo, later, covers>>
  BY Zenon DEF RetireAccess, memory, structure, history, owed
<1>4. l.op = "retire"
  BY <1>2, RetirerNow
<1>5. CASE access[l.slot] >= l.min
  <2>1. m.pc \in RetireLabels \ {"retireFinish"} /\ m.op = "retire"
    BY <1>1, <1>4, <1>5 DEF RetireLabels
  <2>2. /\ absOp' = absOp /\ absActive' = absActive /\ absGrace' = absGrace
        /\ UNCHANGED P!callerLocals /\ UNCHANGED P!walkLocals /\ absStatus' = absStatus
        /\ absList' = absList /\ absLast' = absLast
    BY <1>1, <1>2, <1>3, <1>5, <2>1, RetirerKeeps
  <2>3. PcOf(m) = PcOf(l)
    BY <1>1, <1>4, <1>5, <2>1 DEF PcOf, RetireLabels
  <2>4. absPc' = absPc
    BY <1>1, <2>3, MappedSame DEF Moves
  <2>5. /\ absBatch' = absBatch /\ absSlot' = absSlot /\ absAdjs' = absAdjs
        /\ absDoAdjs' = absDoAdjs /\ absSkipped' = absSkipped
    BY <1>1, <1>2, <1>5, <2>1, StaysAtSlot DEF SameRetire
  <2>6. absCovers' = absCovers
    BY <1>1, <1>3, <1>5, MappedCovers DEF Moves, TypeOK
  <2> QED
    BY <1>3, <2>2, <2>4, <2>5, <2>6 DEF P!vars, P!callerLocals, P!walkLocals
<1>6. CASE ~(access[l.slot] >= l.min)
  <2>1. P!PassBy(t) /\ m.pc \in RetireLabels /\ m.pc # "retireAdjust"
    BY <1>1, <1>6, PassMaps
  <2>2. /\ SameClient(l, m) /\ SameWalks(l, m) /\ m.list = l.list /\ m.op = "retire"
        /\ m.batch = l.batch
    BY <1>1, <1>4, <1>6 DEF Passed, Advanced
  <2>3. /\ absOp' = absOp /\ absActive' = absActive /\ absGrace' = absGrace
        /\ UNCHANGED P!callerLocals /\ UNCHANGED P!walkLocals /\ absStatus' = absStatus
        /\ absList' = absList
    BY <1>1, <1>2, <1>3, <2>1, <2>2, RetirerKeeps
  <2>4. absCovers' = absCovers
    BY <1>1, <1>3, <2>1, MappedCovers DEF Moves, TypeOK
  <2>5. absBatch' = absBatch
    <3>1. Live(l) /\ Live(m)
      BY <1>2, <1>4, <2>1, <2>2 DEF Live, RetireLabels
    <3>2. BatchOf(m) = BatchOf(l)
      BY <2>2, <3>1 DEF BatchOf
    <3> QED
      BY <1>1, <3>2, MappedSame DEF Moves
  <2>6. absPc[t] = "retireLoad"
    BY <1>1, <1>2, RetirerNow
  <2> QED
    BY <1>3, <2>1, <2>3, <2>4, <2>5, <2>6
    DEF P!PassByEpoch, P!shared, P!client, P!history
<1> QED
  BY <1>5, <1>6


\* The head word w of the slot has been loaded.
LEMMA TryMaps ==
    ASSUME Base, NEW t \in Threads, NEW w \in HeadWord, Moves(t),
           Tried(loc[t], loc'[t], w), loc[t].pc \in {"retireLoad", "retireCas"},
           status' = status, covers' = covers
    PROVE  /\ P!TrySlot(t, w) /\ absOp' = absOp /\ absActive' = absActive
           /\ absGrace' = absGrace /\ absStatus' = absStatus
           /\ UNCHANGED P!callerLocals /\ UNCHANGED P!walkLocals
           /\ absList' = absList /\ absBatch' = absBatch /\ absCovers' = absCovers
<1> DEFINE l == loc[t]
           m == loc'[t]
<1>1. l.pc \in RetireLabels \ {"retireFinish"} /\ l.pc # "retireAdjust"
  BY DEF RetireLabels
<1>2. TypeOK /\ l.op = "retire"
  BY <1>1, RetirerNow
<1>3. CASE w.refs = 0
  <2>1. Passed(l, m)
    BY <1>3 DEF Tried
  <2>2. P!PassBy(t) /\ m.pc \in RetireLabels /\ m.pc # "retireAdjust"
    BY <2>1, PassMaps
  <2>3. /\ SameClient(l, m) /\ SameWalks(l, m) /\ m.list = l.list /\ m.op = "retire"
        /\ m.batch = l.batch
    BY <1>2, <2>1 DEF Passed, Advanced
  <2>4. /\ absOp' = absOp /\ absActive' = absActive /\ absGrace' = absGrace
        /\ UNCHANGED P!callerLocals /\ UNCHANGED P!walkLocals /\ absStatus' = absStatus
        /\ absList' = absList
    BY <1>1, <2>2, <2>3, RetirerKeeps
  <2>5. absCovers' = absCovers
    BY <1>1, <1>2, <2>2, MappedCovers DEF Moves, TypeOK
  <2>6. absBatch' = absBatch
    <3>1. Live(l) /\ Live(m)
      BY <1>1, <1>2, <2>2, <2>3 DEF Live, RetireLabels
    <3>2. BatchOf(m) = BatchOf(l)
      BY <2>3, <3>1 DEF BatchOf
    <3> QED
      BY <3>2, MappedSame DEF Moves
  <2> QED
    BY <1>3, <2>2, <2>4, <2>5, <2>6 DEF P!TrySlot
<1>4. CASE w.refs # 0
  <2>1. /\ SameClient(l, m) /\ SameWalks(l, m) /\ SameRetire(l, m) /\ m.list = l.list
        /\ m.op = "retire" /\ m.last = w /\ m.pc = "retireCas"
    BY <1>2, <1>4 DEF Tried
  <2>2. m.pc \in RetireLabels \ {"retireFinish"}
    BY <2>1 DEF RetireLabels
  <2>3. PcOf(m) = "retireCas"
    BY <2>1 DEF PcOf
  <2>4. /\ absOp' = absOp /\ absActive' = absActive /\ absGrace' = absGrace
        /\ UNCHANGED P!callerLocals /\ UNCHANGED P!walkLocals /\ absStatus' = absStatus
        /\ absList' = absList /\ absPc' = [absPc EXCEPT ![t] = PcOf(m)]
        /\ absLast' = [absLast EXCEPT ![t] = m.last]
    BY <1>1, <2>1, <2>2, RetirerKeeps
  <2>5. /\ absBatch' = absBatch /\ absSlot' = absSlot /\ absAdjs' = absAdjs
        /\ absDoAdjs' = absDoAdjs /\ absSkipped' = absSkipped
    BY <1>1, <2>1, <2>2, StaysAtSlot DEF SameRetire
  <2>6. absCovers' = absCovers
    BY <1>1, <1>2, <2>1, MappedCovers DEF Moves, TypeOK
  <2>7. /\ absPc' = [absPc EXCEPT ![t] = "retireCas"]
        /\ absLast' = [absLast EXCEPT ![t] = w]
    BY <2>1, <2>3, <2>4
  <2> QED
    BY <1>4, <2>4, <2>5, <2>6, <2>7 DEF P!TrySlot, P!Goto, P!countLocals
<1> QED
  BY <1>3, <1>4

\* retire loads the head in both.
LEMMA RetireLoadMaps ==
    ASSUME Base, NEW t \in Threads, RetireLoad(t)
    PROVE  P!RetireLoad(t)
<1>1. TypeOK /\ Moves(t) /\ loc[t].pc = "retireLoad"
      /\ Tried(loc[t], loc'[t], head[loc[t].slot])
  BY RetireLoadDoes DEF Base
<1>2. loc[t].pc \in RetireLabels
  BY <1>1 DEF RetireLabels
<1>3. absSlot[t] = loc[t].slot /\ absPc[t] = "retireLoad" /\ loc[t] \in Local
  BY <1>1, <1>2, RetirerNow
<1>4. head[loc[t].slot] \in HeadWord
  BY <1>1, <1>3, Fields DEF TypeOK
<1>5. /\ UNCHANGED <<head, next, refs, held, todo, later, covers>> /\ status' = status
  BY Zenon DEF RetireLoad, memory, structure, history, owed
<1>6. /\ P!TrySlot(t, head[loc[t].slot]) /\ absOp' = absOp /\ absActive' = absActive
      /\ absGrace' = absGrace /\ absStatus' = absStatus
      /\ UNCHANGED P!callerLocals /\ UNCHANGED P!walkLocals
      /\ absList' = absList /\ absBatch' = absBatch /\ absCovers' = absCovers
  BY <1>1, <1>4, <1>5, TryMaps
<1> QED
  BY <1>3, <1>5, <1>6 DEF P!RetireLoad, P!shared, P!client, P!history

\* The threads in the slots are those of Hyaline.
LEMMA SameInside ==
    ASSUME Base
    PROVE  /\ \A t \in Threads : P!In(t) <=> In(t)
           /\ \A t \in Threads : In(t) => absVec[t] = loc[t].vec
           /\ \A s : P!Inside(s) = Inside(s)
<1>1. ASSUME NEW t \in Threads
      PROVE  (P!In(t) <=> In(t)) /\ (In(t) => absVec[t] = loc[t].vec)
  <2>1. ControlOK(t)
    BY DEF Base, ThreadInv
  <2>2. absPc[t] = PcOf(loc[t]) /\ absVec[t] = VecOf(loc[t]) /\ (t \in absActive <=> loc[t].inside)
    BY Image
  <2>3. PcOf(loc[t]) \in {"leaveRead", "leaveCas"} <=> loc[t].pc \in {"leaveRead", "leaveCas"}
    BY <2>1 DEF PcOf, ControlOK, LeaveLabels
  <2>4. In(t) => ~Out(loc[t])
    BY <2>1 DEF In, Out, ControlOK, LeaveLabels
  <2> QED
    BY <2>2, <2>3, <2>4 DEF In, P!In, VecOf
<1>2. ASSUME NEW s PROVE P!Inside(s) = Inside(s)
  BY <1>1 DEF P!Inside, Inside
<1> QED
  BY <1>1, <1>2

\* The batch is put in the slot, or the compare-and-swap fails, in both.
LEMMA RetireCasMaps ==
    ASSUME Base, NEW t \in Threads, RetireCas(t)
    PROVE  P!Insert(t) \/ P!InsertFails(t)
<1> DEFINE l == loc[t]
           m == loc'[t]
           s == loc[t].slot
           prev == loc[t].last.ptr
           p == IF prev # NULL THEN "retireAdjust" ELSE "retireCount"
<1>1. /\ TypeOK /\ Moves(t) /\ l.pc = "retireCas"
      /\ head[s] = l.last =>
           /\ SameClient(l, m) /\ SameWalks(l, m) /\ m.list = l.list
           /\ m.op = l.op /\ m.last = l.last /\ m.batch = l.batch
           /\ m.slot = l.slot /\ m.adjs = l.adjs /\ m.doAdjs = l.doAdjs
           /\ m.into = l.into \union {l.slot} /\ m.pc = p
      /\ head[s] # l.last => Tried(l, m, head[s])
  BY RetireCasDoes DEF Base
<1>2. l.pc \in RetireLabels \ {"retireFinish"}
  BY <1>1 DEF RetireLabels
<1>3. /\ absSlot[t] = s /\ absPc[t] = "retireCas" /\ l \in Local /\ l.op = "retire"
      /\ absBatch[t] = l.batch /\ absLast[t] = l.last
  BY <1>1, <1>2, RetirerNow
<1>4. /\ UNCHANGED <<refs, todo, later>> /\ status' = status
      /\ \/ /\ head[s] = l.last
            /\ head' = [head EXCEPT ![s].ptr = l.batch]
            /\ next' = [next EXCEPT ![l.batch][s] = prev]
            /\ held' = [u \in Threads |-> IF u \in Inside(s) /\ prev # NULL
                                          THEN <<prev>> \o held[u] ELSE held[u]]
            /\ covers' = [covers EXCEPT ![t] = Inside(s)]
         \/ head[s] # l.last /\ UNCHANGED <<head, next, held, covers>>
  BY Zenon DEF RetireCas, structure
<1>5. head[s] \in HeadWord /\ s \in Slots /\ l.batch \in Batches /\ prev \in Ptr
  BY <1>1, <1>2, <1>3, Fields, Addresses DEF TypeOK, HeadWord
<1>6. CASE head[s] # l.last
  <2>1. UNCHANGED <<head, next, held, covers>>
    BY <1>4, <1>6
  <2>2. /\ P!TrySlot(t, head[s]) /\ absOp' = absOp /\ absActive' = absActive
        /\ absGrace' = absGrace /\ absStatus' = absStatus
        /\ UNCHANGED P!callerLocals /\ UNCHANGED P!walkLocals
        /\ absList' = absList /\ absBatch' = absBatch /\ absCovers' = absCovers
    BY <1>1, <1>4, <1>5, <1>6, <2>1, TryMaps
  <2> QED
    BY <1>3, <1>4, <1>6, <2>1, <2>2 DEF P!InsertFails, P!shared, P!client, P!history
<1>7. CASE head[s] = l.last
  <2>1. /\ m.pc \in RetireLabels \ {"retireFinish"} /\ m.op = "retire" /\ m.pc = p
        /\ SameClient(l, m) /\ SameWalks(l, m) /\ m.list = l.list /\ m.last = l.last
        /\ m.batch = l.batch /\ m.slot = l.slot /\ m.adjs = l.adjs /\ m.doAdjs = l.doAdjs
        /\ m.into = l.into \union {l.slot}
    BY <1>1, <1>3, <1>7 DEF RetireLabels
  <2>2. /\ absOp' = absOp /\ absActive' = absActive /\ absGrace' = absGrace
        /\ UNCHANGED P!callerLocals /\ UNCHANGED P!walkLocals /\ absStatus' = absStatus
        /\ absList' = absList /\ absPc' = [absPc EXCEPT ![t] = PcOf(m)]
        /\ absLast' = absLast
    BY <1>1, <1>2, <1>4, <2>1, RetirerKeeps
  <2>3. m.into \ {l.slot} = l.into \ {l.slot}
    BY <2>1
  <2>4. /\ absBatch' = absBatch /\ absSlot' = absSlot /\ absAdjs' = absAdjs
        /\ absDoAdjs' = absDoAdjs /\ absSkipped' = absSkipped
    BY <1>1, <1>2, <2>1, <2>3, StaysAtSlot
  <2>5. /\ head' = [head EXCEPT ![s] = [refs |-> l.last.refs, ptr |-> l.batch]]
        /\ next' = [next EXCEPT ![l.batch] = [next[l.batch] EXCEPT ![s] = prev]]
        /\ held' = [u \in Threads |-> IF u \in Inside(s) /\ prev # NULL
                                      THEN <<prev>> \o held[u] ELSE held[u]]
        /\ covers' = [covers EXCEPT ![t] = Inside(s)]
    <3>1. [head[s] EXCEPT !.ptr = l.batch] = [refs |-> l.last.refs, ptr |-> l.batch]
      BY <1>5, <1>7 DEF HeadWord
    <3>2. /\ head' = [head EXCEPT ![s].ptr = l.batch]
          /\ next' = [next EXCEPT ![l.batch][s] = prev]
          /\ held' = [u \in Threads |-> IF u \in Inside(s) /\ prev # NULL
                                        THEN <<prev>> \o held[u] ELSE held[u]]
          /\ covers' = [covers EXCEPT ![t] = Inside(s)]
      BY <1>4, <1>7
    <3> QED
      BY <3>1, <3>2, Zenon
  <2>6. P!Inside(s) = Inside(s) /\ held \in [Threads -> Seq(Batches)]
    BY <1>1, SameInside DEF TypeOK
  <2>7. covers' \in [Threads -> SUBSET Threads] /\ \A u \in Threads : u # t => covers'[u] = covers[u]
    <3>1. Inside(s) \in SUBSET Threads /\ covers \in [Threads -> SUBSET Threads]
      BY <1>1 DEF Inside, TypeOK
    <3> HIDE DEF s
    <3> QED
      BY <2>5, <3>1
  <2>8. absCovers' = [absCovers EXCEPT ![t] =
                        IF m.pc = "retireAdjust" THEN covers'[t] ELSE {}]
        /\ (m.pc # "retireAdjust" => absCovers' = absCovers)
    BY <1>1, <2>7, MappedCovers DEF Moves, TypeOK
  <2>9. covers'[t] = Inside(s)
    BY <1>1, <2>5 DEF TypeOK
  <2> HIDE DEF l, m, s
  <2>10. CASE prev = NULL
    <3>1. m.pc = "retireCount" /\ PcOf(m) = "retireNext"
      BY <2>1, <2>10 DEF PcOf
    <3>2. absPc' = [absPc EXCEPT ![t] = "retireNext"] /\ absCovers' = absCovers
      BY <2>2, <2>8, <3>1
    <3>3. held' = held
      BY <2>5, <2>6, <2>10
    <3> QED
      BY <1>3, <1>4, <1>7, <2>2, <2>4, <2>5, <2>10, <3>2, <3>3
      DEF P!Insert, P!Goto, P!client, P!countLocals, l
  <2>11. CASE prev # NULL
    <3>1. m.pc = "retireAdjust" /\ PcOf(m) = "retireAdjust"
      BY <2>1, <2>11 DEF PcOf
    <3>2. /\ absPc' = [absPc EXCEPT ![t] = "retireAdjust"]
          /\ absCovers' = [absCovers EXCEPT ![t] = Inside(s)]
      BY <2>2, <2>8, <2>9, <3>1
    <3>3. held' = [u \in Threads |-> IF u \in P!Inside(absSlot[t])
                                     THEN <<absLast[t].ptr>> \o held[u] ELSE held[u]]
      <4>1. absLast[t].ptr = prev /\ P!Inside(absSlot[t]) = Inside(s)
        BY <1>3, <2>6 DEF l
      <4> QED
        BY <2>5, <2>11, <4>1
    <3>4. absLast[t].ptr # NULL /\ absCovers' = [absCovers EXCEPT ![t] = P!Inside(absSlot[t])]
      BY <1>3, <2>6, <2>11, <3>2 DEF l
    <3>5. /\ head' = [head EXCEPT ![absSlot[t]] =
                        [refs |-> absLast[t].refs, ptr |-> absBatch[t]]]
          /\ next' = [next EXCEPT ![absBatch[t]] =
                        [next[absBatch[t]] EXCEPT ![absSlot[t]] = absLast[t].ptr]]
      BY <1>3, <2>5 DEF l
    <3>6. absPc[t] = "retireCas" /\ head[absSlot[t]] = absLast[t]
      BY <1>3, <1>7
    <3> QED
      BY <1>4, <2>2, <2>4, <3>2, <3>3, <3>4, <3>5, <3>6
      DEF P!Insert, P!Goto, P!client, P!countLocals
  <2> QED
    BY <2>10, <2>11
<1> QED
  BY <1>6, <1>7


\* The references of the slot are added in both.
LEMMA RetireAdjustMaps ==
    ASSUME Base, NEW t \in Threads, RetireAdjust(t)
    PROVE  P!RetireAdjust(t)
<1> DEFINE l == loc[t]
           m == loc'[t]
           b == loc[t].last.ptr
           share == AddW(Addend, loc[t].last.refs)
<1>1. TypeOK /\ l.pc = "retireAdjust" /\ b \in Batches
  BY Addresses DEF RetireAdjust, At, Base
<1>2. /\ Moves(t) /\ m.pc = "retireCount" /\ m.op = l.op /\ m.last = l.last
      /\ m.list = Collected(l.list, b, share)
      /\ SameClient(l, m) /\ SameWalks(l, m) /\ SameRetire(l, m)
  BY <1>1, RetireAdjustDoes
<1>3. /\ l.pc \in RetireLabels \ {"retireFinish"} /\ m.pc \in RetireLabels \ {"retireFinish"}
      /\ PcOf(m) = "retireNext"
  <2>1. m.op = "retire"
    BY <1>1, <1>2, RetirerNow DEF RetireLabels
  <2> QED
    BY <1>1, <1>2, <2>1 DEF RetireLabels, PcOf
<1>4. /\ l \in Local /\ l.op = "retire" /\ absLast[t] = l.last /\ absList[t] = l.list
      /\ absPc[t] = "retireAdjust"
  BY <1>1, <1>3, RetirerNow
<1>5. /\ UNCHANGED <<head, next, held, todo, later, covers>> /\ status' = status
      /\ Adjust(b, share)
  BY Zenon DEF RetireAdjust, structure, history, owed
<1>6. /\ absOp' = absOp /\ absActive' = absActive /\ absGrace' = absGrace
      /\ UNCHANGED P!callerLocals /\ UNCHANGED P!walkLocals /\ absStatus' = absStatus
      /\ absPc' = [absPc EXCEPT ![t] = "retireNext"] /\ absLast' = absLast
  BY <1>2, <1>3, <1>4, <1>5, RetirerKeeps
<1>7. /\ absBatch' = absBatch /\ absSlot' = absSlot /\ absAdjs' = absAdjs
      /\ absDoAdjs' = absDoAdjs /\ absSkipped' = absSkipped
  BY <1>2, <1>3, <1>4, StaysAtSlot DEF SameRetire
<1>8. absCovers' = [absCovers EXCEPT ![t] = {}]
  BY <1>1, <1>2, <1>5, MappedCovers DEF Moves, TypeOK
<1>9. absList' = [absList EXCEPT ![t] = m.list]
  BY <1>2, Mapped DEF Moves, Follows, ListOf
<1>10. P!AdjustRefs(t, b, share)
  <2> HIDE DEF share, b
  <2> QED
    BY <1>1, <1>2, <1>4, <1>5, <1>9, AdjustMaps
<1>11. P!AdjustRefs(t, absLast[t].ptr, P!AddW(P!Addend, absLast[t].refs))
  <2>1. absLast[t].ptr = b /\ P!AddW(P!Addend, absLast[t].refs) = share
    BY <1>4, SameWords
  <2> HIDE DEF share, b
  <2> QED
    BY <1>10, <2>1
<1> HIDE DEF l, m, b, share
<1> QED
  BY <1>4, <1>5, <1>6, <1>7, <1>8, <1>11
  DEF P!RetireAdjust, P!Goto, P!client, P!history, P!countLocals

\* The step that counts nodes to acknowledge goes on to the next slot in Hyaline.
LEMMA RetireCountMaps ==
    ASSUME Base, NEW t \in Threads, RetireCount(t)
    PROVE  P!RetireNext(t)
<1> DEFINE l == loc[t]
           m == loc'[t]
<1>1. /\ TypeOK /\ Moves(t) /\ l.pc = "retireCount" /\ Advanced(l, m, l.doAdjs)
      /\ m.adjs = l.adjs /\ m.doAdjs = l.doAdjs
  BY RetireCountDoes DEF Base
<1>2. l.pc \in RetireLabels \ {"retireFinish"}
  BY <1>1 DEF RetireLabels
<1>3. /\ RetireOK(t) /\ l \in Local /\ m \in Local /\ l.op = "retire"
      /\ absBatch[t] = l.batch /\ absSlot[t] = l.slot /\ absDoAdjs[t] = l.doAdjs
      /\ absSkipped[t] = (0 .. l.slot - 1) \ l.into /\ absPc[t] = "retireNext"
  BY <1>1, <1>2, RetirerNow DEF Moves
<1>4. /\ SameClient(l, m) /\ SameWalks(l, m) /\ m.list = l.list /\ m.op = "retire"
      /\ m.batch = l.batch /\ m.into = l.into /\ m.last = Empty
      /\ \/ l.slot + 1 < NumSlots /\ m.slot = l.slot + 1 /\ m.pc = "retireAccess"
         \/ /\ l.slot + 1 = NumSlots /\ m.slot = l.slot
            /\ m.pc = IF l.doAdjs THEN "retireFinish" ELSE "free"
  BY <1>1, <1>3 DEF Advanced
<1>5. /\ l.slot \in 0 .. NumSlots - 1 /\ NumSlots \in Nat \ {0} /\ Slots = 0 .. NumSlots - 1
      /\ l.into \subseteq 0 .. l.slot /\ l.slot \in l.into /\ l.doAdjs \in BOOLEAN
  BY <1>1, <1>3, Fields, Constants DEF RetireOK
<1>6. m.pc \in RetireLabels \union {"free"} /\ m.pc # "retireAdjust"
  BY <1>4 DEF RetireLabels
<1>7. /\ UNCHANGED <<head, next, refs, held, todo, later>> /\ status' = status
      /\ covers' = [covers EXCEPT ![t] = {}]
  BY Zenon DEF RetireCount, memory, structure, owed
<1>8. /\ absOp' = absOp /\ absActive' = absActive /\ absGrace' = absGrace
      /\ UNCHANGED P!callerLocals /\ UNCHANGED P!walkLocals /\ absStatus' = absStatus
      /\ absList' = absList /\ absPc' = [absPc EXCEPT ![t] = PcOf(m)]
      /\ absLast' = [absLast EXCEPT ![t] = Empty]
  BY <1>1, <1>2, <1>4, <1>6, <1>7, RetirerKeeps
<1>9. absCovers' = absCovers
  <2>1. covers' \in [Threads -> SUBSET Threads] /\ covers \in [Threads -> SUBSET Threads]
    BY <1>1, <1>7 DEF TypeOK
  <2> QED
    BY <1>1, <1>6, <1>7, <2>1, MappedCovers DEF Moves
<1>10. Live(l) /\ Live(m)
  BY <1>1, <1>3, <1>4 DEF Live
<1>11. absBatch' = absBatch /\ absAdjs' = absAdjs /\ absDoAdjs' = absDoAdjs
  <2>1. BatchOf(m) = BatchOf(l) /\ AdjsOf(m) = AdjsOf(l) /\ DoAdjsOf(m) = DoAdjsOf(l)
    BY <1>1, <1>4, <1>10 DEF BatchOf, AdjsOf, DoAdjsOf
  <2> QED
    BY <1>1, <2>1, MappedSame DEF Moves
<1>12. SlotOf(l) = l.slot /\ SlotOf(m) = m.slot
  BY <1>10 DEF SlotOf
<1>13. SkippedOf(l) = (0 .. l.slot - 1) \ l.into
  BY <1>1 DEF SkippedOf, RetireLabels
<1>14. CASE l.slot + 1 < NumSlots
  <2>1. m.slot = l.slot + 1 /\ m.pc = "retireAccess"
    BY <1>4, <1>5, <1>14
  <2>2. PcOf(m) = "retireLoad"
    BY <1>4, <2>1 DEF PcOf
  <2>3. SkippedOf(m) = (0 .. m.slot - 1) \ m.into
    BY <2>1 DEF SkippedOf, RetireLabels
  <2>4. SkippedOf(m) = SkippedOf(l)
    BY <1>4, <1>5, <1>13, <2>1, <2>3
  <2>5. absSkipped' = absSkipped
    BY <1>1, <2>4, MappedSame DEF Moves
  <2>6. absSlot' = [absSlot EXCEPT ![t] = l.slot + 1]
    BY <1>1, <1>12, <2>1, Mapped DEF Moves, Follows
  <2>7. P!NextSlot(t, absDoAdjs[t])
    BY <1>3, <1>8, <1>14, <2>2, <2>6 DEF P!NextSlot, P!Goto
  <2> HIDE DEF l, m
  <2> QED
    BY <1>3, <1>7, <1>8, <1>9, <1>11, <2>5, <2>7, SameWords
    DEF P!RetireNext, P!shared, P!client, P!history, P!countLocals
<1>15. CASE l.slot + 1 = NumSlots
  <2>1. m.slot = l.slot /\ m.pc = IF l.doAdjs THEN "retireFinish" ELSE "free"
    BY <1>4, <1>5, <1>15
  <2>2. PcOf(m) = m.pc
    BY <1>4, <2>1 DEF PcOf
  <2>3. SkippedOf(m) = SkippedOf(l)
    <3>1. CASE l.doAdjs
      <4>1. SkippedOf(m) = Slots \ m.into
        BY <2>1, <3>1 DEF SkippedOf
      <4> QED
        BY <1>4, <1>5, <1>13, <1>15, <4>1
    <3>2. CASE ~l.doAdjs
      <4>1. SkippedOf(m) = {}
        BY <2>1, <3>2 DEF SkippedOf, RetireLabels
      <4>2. absSkipped[t] = {}
        BY <1>3, <3>2 DEF Base, P!CoreInv, P!ThreadInv, P!ThreadOK, P!RetireOK
      <4> QED
        BY <1>3, <1>13, <4>1, <4>2
    <3> QED
      BY <3>1, <3>2
  <2>5. absSkipped' = absSkipped
    BY <1>1, <2>3, MappedSame DEF Moves
  <2>6. absSlot' = absSlot
    BY <1>1, <1>12, <2>1, MappedSame DEF Moves
  <2>7. P!NextSlot(t, absDoAdjs[t])
    BY <1>3, <1>5, <1>8, <1>15, <2>1, <2>2, <2>6 DEF P!NextSlot, P!Goto
  <2> HIDE DEF l, m
  <2> QED
    BY <1>3, <1>7, <1>8, <1>9, <1>11, <2>5, <2>7, SameWords
    DEF P!RetireNext, P!shared, P!client, P!history, P!countLocals
<1> QED
  BY <1>4, <1>14, <1>15

\* The shares of the slots passed by are added in both.
LEMMA RetireFinishMaps ==
    ASSUME Base, NEW t \in Threads, RetireFinish(t)
    PROVE  P!RetireFinish(t)
<1> DEFINE l == loc[t]
           m == loc'[t]
           b == loc[t].batch
           v == loc[t].adjs
<1>1. TypeOK /\ l.pc = "retireFinish" /\ b \in Batches /\ l.pc \in RetireLabels
  BY Addresses DEF RetireFinish, At, Base, RetireLabels
<1>2. /\ Moves(t) /\ m.pc = "free" /\ m.op = l.op /\ m.last = l.last
      /\ m.list = Collected(l.list, b, v)
      /\ SameClient(l, m) /\ SameWalks(l, m) /\ SameRetire(l, m)
  BY <1>1, RetireFinishDoes
<1>3. /\ l \in Local /\ l.op = "retire" /\ absList[t] = l.list /\ RetireOK(t)
      /\ absPc[t] = "retireFinish" /\ absBatch[t] = b /\ absAdjs[t] = v
  BY <1>1, RetirerNow
<1>4. /\ UNCHANGED <<head, next, held, todo, later, covers>> /\ status' = status
      /\ Adjust(b, v)
  BY Zenon DEF RetireFinish, structure, history, owed
<1>5. m.doAdjs /\ m.pc \in RetireLabels \union {"free"} /\ PcOf(m) = "free"
  BY <1>1, <1>2, <1>3 DEF SameRetire, RetireOK, PcOf
<1>6. /\ absOp' = absOp /\ absActive' = absActive /\ absGrace' = absGrace
      /\ UNCHANGED P!callerLocals /\ UNCHANGED P!walkLocals /\ absStatus' = absStatus
      /\ absPc' = [absPc EXCEPT ![t] = "free"] /\ absLast' = absLast
  BY <1>1, <1>2, <1>3, <1>4, <1>5, RetirerKeeps
<1>7. /\ BatchOf(m) = NULL /\ SlotOf(m) = 0 /\ AdjsOf(m) = 0 /\ DoAdjsOf(m) = FALSE
      /\ SkippedOf(m) = {}
  BY <1>2, <1>5 DEF BatchOf, SlotOf, AdjsOf, DoAdjsOf, SkippedOf, Live, RetireLabels
<1>8. /\ absBatch' = [absBatch EXCEPT ![t] = NULL] /\ absSlot' = [absSlot EXCEPT ![t] = 0]
      /\ absAdjs' = [absAdjs EXCEPT ![t] = 0]
  BY <1>2, <1>7, Mapped DEF Moves, Follows
<1>9. /\ absDoAdjs' = [absDoAdjs EXCEPT ![t] = FALSE]
      /\ absSkipped' = [absSkipped EXCEPT ![t] = {}]
  BY <1>2, <1>7, Mapped DEF Moves, Follows
<1>10. absCovers' = absCovers
  BY <1>1, <1>2, <1>4, MappedCovers DEF Moves, TypeOK
<1>11. absList' = [absList EXCEPT ![t] = m.list]
  BY <1>2, Mapped DEF Moves, Follows, ListOf
<1>12. P!AdjustRefs(t, b, v)
  <2> HIDE DEF v, b
  <2> QED
    BY <1>1, <1>2, <1>3, <1>4, <1>11, AdjustMaps
<1> HIDE DEF l, m, b, v
<1> QED
  BY <1>3, <1>4, <1>6, <1>8, <1>9, <1>10, <1>12
  DEF P!RetireFinish, P!RetireReset, P!Goto, P!client, P!history

-----------------------------------------------------------------------------
(* The end of a call.                                                      *)

\* A batch is freed in both.
LEMMA FreeMaps ==
    ASSUME Base, NEW t \in Threads, NEW b \in Batches, Free(t, b),
           UNCHANGED <<head, counter, history>>
    PROVE  P!Free(t, b)
<1> DEFINE l == loc[t]
           m == loc'[t]
<1>1. /\ TypeOK /\ Moves(t) /\ l.pc = "free" /\ b \in l.list /\ m.pc = "free"
      /\ m.op = l.op /\ m.last = l.last /\ m.list = l.list \ {b}
      /\ SameClient(l, m) /\ SameWalks(l, m) /\ SameRetire(l, m)
  BY FreeDoes DEF Base
<1>2. ControlOK(t) /\ l.op \notin {"none", "enter", "deref"}
  BY <1>1 DEF Base, ThreadInv, ControlOK, EnterLabels, DerefLabels
<1>3. /\ refs' = refs /\ status' = [status EXCEPT ![b] = "freed"]
      /\ next' = [next EXCEPT ![b] = [s \in Slots |-> NULL]]
      /\ UNCHANGED <<held, todo, later, covers>>
  BY DEF Free, history, owed
<1>4. PcOf(l) = "free" /\ PcOf(m) = "free" /\ OpOf(m) = OpOf(l) /\ LastOf(m) = LastOf(l)
  BY <1>1, <1>2 DEF PcOf, OpOf, LastOf
<1>5. /\ VecOf(m) = VecOf(l) /\ SmrOf(m) = SmrOf(l) /\ WalkOf(m) = WalkOf(l)
      /\ OuterOf(m) = OuterOf(l) /\ ThrOf(m) = ThrOf(l)
  BY <1>1 DEF VecOf, SmrOf, WalkOf, OuterOf, ThrOf, Out, SameClient, SameWalks
<1>6. /\ BatchOf(m) = BatchOf(l) /\ SlotOf(m) = SlotOf(l) /\ AdjsOf(m) = AdjsOf(l)
      /\ DoAdjsOf(m) = DoAdjsOf(l)
  BY <1>1 DEF BatchOf, SlotOf, AdjsOf, DoAdjsOf, Live, SameRetire
<1>7. SkippedOf(m) = SkippedOf(l)
  BY <1>1 DEF SkippedOf, RetireLabels
<1>8. /\ absPc' = absPc /\ absOp' = absOp /\ absLast' = absLast /\ absPc[t] = "free"
      /\ absList[t] = l.list
  BY <1>1, <1>4, MappedSame, Image DEF Moves
<1>9. /\ absVec' = absVec /\ absSmr' = absSmr /\ absWalk' = absWalk
      /\ absOuter' = absOuter /\ absThr' = absThr
  BY <1>1, <1>5, MappedSame DEF Moves
<1>10. /\ absBatch' = absBatch /\ absSlot' = absSlot /\ absAdjs' = absAdjs
       /\ absDoAdjs' = absDoAdjs
  BY <1>1, <1>6, MappedSame DEF Moves
<1>11. absSkipped' = absSkipped
  BY <1>1, <1>7, MappedSame DEF Moves
<1>12. absActive' = absActive /\ absGrace' = absGrace
  BY <1>1, MappedHere, MappedStatus DEF Moves, SameClient
<1>13. absCovers' = absCovers
  BY <1>1, <1>3, MappedCovers DEF Moves, TypeOK
<1>14. absList' = [absList EXCEPT ![t] = l.list \ {b}]
  BY <1>1, Mapped DEF Moves, Follows, ListOf
<1>15. absStatus' = [absStatus EXCEPT ![b] = "freed"]
  BY <1>1, <1>3 DEF absStatus, TypeOK
<1>16. next' = [next EXCEPT ![b] = [s \in P!Slots |-> NULL]]
  BY <1>3, SameWords
<1> HIDE DEF l, m
<1> QED
  BY <1>1, <1>3, <1>8, <1>9, <1>10, <1>11, <1>12, <1>13, <1>14, <1>15, <1>16
  DEF P!Free, P!history, P!callerLocals, P!walkLocals, P!retireLocals

\* A call returns in both.
LEMMA EndCallMaps ==
    ASSUME Base, NEW t \in Threads, EndCall(t, Empty),
           UNCHANGED <<head, counter, history>>
    PROVE  P!EndCall(t) \/ P!EndFlushed(t)
<1> DEFINE l == loc[t]
           m == loc'[t]
<1>1. /\ TypeOK /\ Moves(t) /\ l.pc = "free" /\ l.list = {} /\ m.list = {}
      /\ m.inside = l.inside /\ m.vec = l.vec
      /\ m.smr = IF l.op = "trimLeft" \/ l.inside THEN l.smr ELSE NULL
      /\ m.op = "none" /\ m.walk = NoWalk /\ m.outer = NoWalk
      /\ m.thr = 0 /\ m.last = Empty
      /\ m.pc = IF l.op = "trimLeft" THEN "reenter" ELSE "idle"
  BY EndCallDoes DEF Base
<1>2. /\ ControlOK(t) /\ LocalsOK(t) /\ l \in Local /\ m \in Local
  BY <1>1 DEF Base, ThreadInv, Moves, TypeOK, Local
<1>3. /\ l.op \notin {"none", "enter", "deref"} /\ l.op # "nested" /\ l.outer = NoWalk
      /\ l.op = "trimLeft" => ~l.inside
  BY <1>1, <1>2 DEF ControlOK, LocalsOK, EnterLabels, DerefLabels, LeaveLabels
<1>4. UNCHANGED <<next, refs, held, todo, later, covers>> /\ status' = status
  BY DEF EndCall, memory, structure, history, owed
<1>5. /\ PcOf(l) = "free" /\ OpOf(l) = l.op /\ VecOf(l) = l.vec /\ SmrOf(l) = l.smr
      /\ OuterOf(l) = Bare(NoWalk) /\ ListOf(l) = {}
  BY <1>1, <1>3 DEF PcOf, OpOf, VecOf, SmrOf, Out, OuterOf, ListOf
<1>6. m.pc # "ack" /\ m.pc \notin RetireLabels /\ m.op \in {"none", "enter"}
  BY <1>1 DEF RetireLabels
<1> HIDE DEF l, m
<1>7. /\ VecOf(m) = (IF ~m.inside THEN 0 ELSE m.vec)
      /\ SmrOf(m) = (IF ~m.inside THEN NULL ELSE m.smr) /\ BatchOf(m) = NULL
      /\ SlotOf(m) = 0 /\ AdjsOf(m) = 0 /\ DoAdjsOf(m) = FALSE /\ SkippedOf(m) = {}
      /\ LastOf(m) = m.last /\ ListOf(m) = m.list
      /\ PcOf(m) = "idle" /\ OpOf(m) = "none" /\ ThrOf(m) = m.thr
      /\ WalkOf(m) = Bare(m.walk) /\ OuterOf(m) = Bare(m.outer)
  BY <1>2, <1>6, IdleImage
<1>8. /\ absPc[t] = "free" /\ absOp[t] = l.op /\ absList[t] = {}
      /\ absVec[t] = l.vec /\ absSmr[t] = l.smr /\ (t \in absActive <=> l.inside)
  BY <1>1, <1>5, Image DEF l
<1>9. /\ absPc' = [absPc EXCEPT ![t] = "idle"] /\ absOp' = [absOp EXCEPT ![t] = "none"]
      /\ absLast' = [absLast EXCEPT ![t] = Empty] /\ absThr' = [absThr EXCEPT ![t] = 0]
  BY <1>1, <1>7, Mapped DEF Moves, Follows, l, m
<1>10. absWalk' = [absWalk EXCEPT ![t] = None]
  BY <1>1, <1>7, Mapped, BareNone DEF Moves, Follows, l, m
<1>11. /\ absBatch' = [absBatch EXCEPT ![t] = NULL] /\ absSlot' = [absSlot EXCEPT ![t] = 0]
       /\ absAdjs' = [absAdjs EXCEPT ![t] = 0]
  BY <1>1, <1>7, Mapped DEF Moves, Follows, l, m
<1>12. /\ absDoAdjs' = [absDoAdjs EXCEPT ![t] = FALSE]
       /\ absSkipped' = [absSkipped EXCEPT ![t] = {}]
  BY <1>1, <1>7, Mapped DEF Moves, Follows, l, m
<1>13. absOuter' = absOuter /\ absList' = absList
  <2>1. OuterOf(m) = OuterOf(l) /\ ListOf(m) = ListOf(l)
    BY <1>1, <1>5, <1>7
  <2> QED
    BY <1>1, <2>1, MappedSame DEF Moves, l, m
<1>14. absActive' = absActive /\ absGrace' = absGrace /\ absStatus' = absStatus
  BY <1>1, <1>4, MappedHere, MappedStatus DEF Moves, l, m
<1>15. absCovers' = absCovers
  BY <1>1, <1>4, <1>6, MappedCovers DEF Moves, TypeOK, l, m
<1>16. /\ absVec' = [absVec EXCEPT ![t] = IF l.inside THEN l.vec ELSE 0]
       /\ absSmr' = [absSmr EXCEPT ![t] = IF l.inside THEN l.smr ELSE NULL]
  <2>1. VecOf(m) = IF l.inside THEN l.vec ELSE 0
    BY <1>1, <1>7
  <2>2. SmrOf(m) = IF l.inside THEN l.smr ELSE NULL
    BY <1>1, <1>3, <1>7
  <2> QED
    BY <1>1, <2>1, <2>2, Mapped DEF Moves, Follows, l, m
<1>17. P!NoWalk = None /\ P!Empty = Empty
  BY SameWords DEF P!NoWalk, None
<1>18. P!RetireReset(t)
  BY <1>11, <1>12, <1>15 DEF P!RetireReset
<1>19. CASE l.op = "trimLeft"
  <2>1. /\ absVec' = [absVec EXCEPT ![t] = 0] /\ absSmr' = [absSmr EXCEPT ![t] = NULL]
    BY <1>3, <1>16, <1>19
  <2> QED
    BY <1>4, <1>8, <1>9, <1>10, <1>13, <1>14, <1>17, <1>18, <1>19, <2>1
    DEF P!EndFlushed, P!Goto, P!shared, P!client, P!history
<1>20. CASE l.op # "trimLeft"
  <2>1. /\ absVec' = [absVec EXCEPT ![t] = IF t \in absActive \/ absOp[t] = "trimLeft"
                                           THEN absVec[t] ELSE 0]
        /\ absSmr' = [absSmr EXCEPT ![t] = IF t \in absActive \/ absOp[t] = "trimLeft"
                                           THEN absSmr[t] ELSE NULL]
        /\ absPc' = [absPc EXCEPT ![t] = IF absOp[t] = "trimLeft" THEN "reenter"
                                         ELSE "idle"]
    BY <1>8, <1>9, <1>16, <1>20
  <2> QED
    BY <1>4, <1>8, <1>9, <1>10, <1>13, <1>14, <1>17, <1>18, <2>1
    DEF P!EndCall, P!Goto, P!shared, P!client, P!history
<1> QED
  BY <1>19, <1>20


-----------------------------------------------------------------------------
(* Every step is a step of Hyaline's slots, or nothing to them.            *)

\* The steps, with what the common ones leave unchanged.
LEMMA StepIs ==
    ASSUME NEW t \in Threads, Step(t)
    PROVE  \/ TravRead(t) /\ Walks(t, todo[t]) /\ UNCHANGED <<head, counter>>
           \/ TravDrop(t) /\ Walks(t, Tail(todo[t])) /\ UNCHANGED <<head, counter>>
           \/ (DerefLoad(t) \/ DerefEpoch(t)) /\ UNCHANGED <<head, counter, history>>
           \/ TrimRead(t) /\ UNCHANGED <<head, counter, history>>
           \/ EndCall(t, Empty) /\ UNCHANGED <<head, counter, history>>
           \/ (\E b \in Batches : Free(t, b)) /\ UNCHANGED <<head, counter, history>>
           \/ EnterAdd(t) \/ DerefAccess(t) \/ LeaveRead(t) \/ LeaveCas(t)
           \/ LeaveClear(t) \/ LeaveAdjust(t) \/ Ack(t) \/ RetireAccess(t)
           \/ RetireLoad(t) \/ RetireCas(t) \/ RetireAdjust(t) \/ RetireCount(t)
           \/ RetireFinish(t)
<1>1. ASSUME CommonStep(t, Empty), UNCHANGED <<head, counter>>,
             \/ At(t, "travRead") /\ Walks(t, todo[t])
             \/ At(t, "travDrop") /\ Walks(t, Tail(todo[t]))
             \/ loc[t].pc \notin {"travRead", "travDrop"} /\ UNCHANGED history
      PROVE  \/ TravRead(t) /\ Walks(t, todo[t])
             \/ TravDrop(t) /\ Walks(t, Tail(todo[t]))
             \/ DerefLoad(t) /\ UNCHANGED history
             \/ DerefEpoch(t) /\ UNCHANGED history
             \/ TrimRead(t) /\ UNCHANGED history
             \/ EndCall(t, Empty) /\ UNCHANGED history
             \/ (\E b \in Batches : Free(t, b)) /\ UNCHANGED history
  <2>1. TravRead(t) => At(t, "travRead")
    BY Zenon DEF TravRead
  <2>2. TravDrop(t) => At(t, "travDrop")
    BY Zenon DEF TravDrop
  <2>3. /\ DerefLoad(t) => At(t, "derefLoad")
        /\ DerefEpoch(t) => At(t, "derefEpoch")
    BY Zenon DEF DerefLoad, DerefEpoch
  <2>4. TrimRead(t) => At(t, "trimRead")
    BY Zenon DEF TrimRead
  <2>5. EndCall(t, Empty) => At(t, "free")
    BY Zenon DEF EndCall
  <2>6. (\E b \in Batches : Free(t, b)) => At(t, "free")
    BY Zenon DEF Free
  <2> QED
    BY <1>1, <2>1, <2>2, <2>3, <2>4, <2>5, <2>6 DEF CommonStep, At
<1> QED
  BY <1>1, Zenon DEF Step

\* A call of the client is a step of Hyaline, or of none of its variables.
LEMMA CallMaps ==
    ASSUME Base, NEW t \in Threads, EnterLook(t) \/ LeaveLoad(t) \/ Call(t)
    PROVE  P!AnyCall(t) \/ P!AnyStep(t) \/ UNCHANGED P!vars
<1>1. CASE EnterLook(t)
  BY <1>1, EnterLookHidden
<1>2. CASE LeaveLoad(t)
  BY <1>2, LeaveLoadMaps DEF P!AnyCall, P!AnyStep, P!Call, P!Step
<1>3. CASE Deref(t) /\ UNCHANGED <<head, counter, history>>
  BY <1>3, DerefHidden
<1>4. CASE (\E th \in TrimThresholds : Trim(t, th)) /\ Keeps(t) /\ UNCHANGED <<head, counter>>
  BY <1>4, TrimMaps DEF P!AnyCall, P!Call
<1>5. CASE (\E e \in 0 .. global : Retire(t, e)) /\ UNCHANGED <<head, counter, history>>
  <2>1. P!RetireUnseen(t, root)
    BY <1>5, RetireMaps
  <2>2. root \in Batches
    BY <1>5 DEF Base, TypeOK, Ptr, Retire
  <2> QED
    BY <2>1, <2>2 DEF P!AnyCall
<1> QED
  BY <1>1, <1>2, <1>3, <1>4, <1>5 DEF Call

\* So is any other step of a thread,
LEMMA StepMaps ==
    ASSUME Base, NEW t \in Threads, Step(t)
    PROVE  P!AnyStep(t) \/ P!AnyCall(t) \/ UNCHANGED P!vars
<1>1. CASE EnterAdd(t)
  <2>1. loc[t].slot \in Slots
    BY Fields DEF Base, TypeOK, Local
  <2>2. P!Enter(t, loc[t].slot) /\ P!Slots = Slots
    BY <1>1, EnterMaps, SameWords
  <2> QED
    BY <2>1, <2>2 DEF P!AnyCall, P!Call
<1>2. CASE DerefAccess(t)
  <2>1. UNCHANGED <<head, history>>
    BY <1>2, Zenon DEF DerefAccess
  <2> QED
    BY <1>2, <2>1, DerefHidden
<1>3. CASE LeaveRead(t)
  BY <1>3, LeaveReadMaps DEF P!AnyStep, P!Step
<1>4. CASE LeaveCas(t)
  BY <1>4, LeaveCasMaps DEF P!AnyStep, P!Step
<1>5. CASE LeaveClear(t)
  BY <1>5, LeaveClearMaps DEF P!AnyStep, P!Step
<1>6. CASE LeaveAdjust(t)
  BY <1>6, LeaveAdjustMaps DEF P!AnyStep, P!Step
<1>7. CASE Ack(t)
  BY <1>7, AckHidden
<1>8. CASE RetireAccess(t)
  BY <1>8, RetireAccessMaps DEF P!AnyStep
<1>9. CASE RetireLoad(t)
  BY <1>9, RetireLoadMaps DEF P!AnyStep, P!Step
<1>10. CASE RetireCas(t)
  BY <1>10, RetireCasMaps DEF P!AnyStep, P!Step
<1>11. CASE RetireAdjust(t)
  BY <1>11, RetireAdjustMaps DEF P!AnyStep, P!Step
<1>12. CASE RetireCount(t)
  BY <1>12, RetireCountMaps DEF P!AnyStep, P!Step
<1>13. CASE RetireFinish(t)
  BY <1>13, RetireFinishMaps DEF P!AnyStep, P!Step
<1>14. CASE TravRead(t) /\ Walks(t, todo[t]) /\ UNCHANGED <<head, counter>>
  BY <1>14, TravReadMaps DEF P!AnyStep, P!Step
<1>15. CASE TravDrop(t) /\ Walks(t, Tail(todo[t])) /\ UNCHANGED <<head, counter>>
  BY <1>15, TravDropMaps DEF P!AnyStep, P!Step
<1>16. CASE /\ DerefLoad(t) \/ DerefEpoch(t)
            /\ UNCHANGED <<head, counter, history>>
  BY <1>16, DerefHidden
<1>17. CASE TrimRead(t) /\ UNCHANGED <<head, counter, history>>
  BY <1>17, TrimReadMaps DEF P!AnyStep, P!Step
<1>18. CASE EndCall(t, Empty) /\ UNCHANGED <<head, counter, history>>
  BY <1>18, EndCallMaps DEF P!AnyStep, P!Step
<1>19. CASE (\E b \in Batches : Free(t, b)) /\ UNCHANGED <<head, counter, history>>
  BY <1>19, FreeMaps DEF P!AnyStep, P!Step
<1> QED
  BY <1>1, <1>2, <1>3, <1>4, <1>5, <1>6, <1>7, <1>8, <1>9, <1>10, <1>11, <1>12,
     <1>13, <1>14, <1>15, <1>16, <1>17, <1>18, <1>19, StepIs, Zenon

\* and any step at all.
LEMMA CoreMaps == Base /\ [Next]_vars => [P!AnyNext]_(P!vars)
<1> SUFFICES ASSUME Base, [Next]_vars PROVE [P!AnyNext]_(P!vars)
  OBVIOUS
<1>1. CASE Structure /\ UNCHANGED <<head, counter, history>>
  <2>1. PICK b \in Batches : Alloc(b) \/ Link(b)
    BY <1>1, Zenon DEF Structure
  <2>2. UNCHANGED <<head, history>>
    BY <1>1
  <2>3. P!Alloc(b) \/ UNCHANGED P!vars
    BY <2>1, <2>2, AllocMaps, LinkHidden
  <2> QED
    BY <2>3 DEF P!AnyNext
<1>2. ASSUME NEW t \in Threads, EnterLook(t) \/ LeaveLoad(t) \/ Call(t) \/ Step(t)
      PROVE  [P!AnyNext]_(P!vars)
  <2>1. P!AnyStep(t) \/ P!AnyCall(t) \/ UNCHANGED P!vars
    BY <1>2, CallMaps, StepMaps
  <2> QED
    BY <2>1 DEF P!AnyNext
<1>3. CASE UNCHANGED vars
  <2>1. /\ loc' = loc /\ UNCHANGED <<head, next, refs, held, todo, later, covers>>
        /\ status' = status
    BY <1>3 DEF vars
  <2> QED
    BY <2>1
    DEF P!vars, absPc, absOp, absVec, absSmr, absLast, absWalk, absOuter, absThr, absList,
        absBatch, absSlot, absAdjs, absDoAdjs, absSkipped, absCovers, absActive,
        absStatus, absGrace
<1> QED
  BY <1>1, <1>2, <1>3, Zenon DEF Next

\* The invariant of Hyaline holds after every step.
LEMMA CoreNext == Base /\ [Next]_vars => P!CoreInv'
BY CoreMaps, CoreAssumption, P!CoreStep DEF Base

\* Initially Hyaline is in one of its initial states.
LEMMA CoreStarts == Init => P!AnyInit
<1> SUFFICES ASSUME Init PROVE P!AnyInit
  OBVIOUS
<1>1. \A t \in Threads : \E s \in Slots : loc[t] = [Between(Empty) EXCEPT !.vec = s]
  BY DEF Init
<1>2. ASSUME NEW t \in Threads
      PROVE  /\ PcOf(loc[t]) = "idle" /\ OpOf(loc[t]) = "none" /\ VecOf(loc[t]) = 0
             /\ SmrOf(loc[t]) = NULL /\ loc[t].last = Empty /\ WalkOf(loc[t]) = None
             /\ OuterOf(loc[t]) = None /\ ThrOf(loc[t]) = 0 /\ loc[t].list = {}
             /\ BatchOf(loc[t]) = NULL /\ SlotOf(loc[t]) = 0 /\ AdjsOf(loc[t]) = 0
             /\ DoAdjsOf(loc[t]) = FALSE /\ SkippedOf(loc[t]) = {}
             /\ ~loc[t].inside /\ loc[t].pc = "idle"
  <2>1. PICK s \in Slots : loc[t] = [Between(Empty) EXCEPT !.vec = s]
    BY <1>1
  <2> DEFINE l == loc[t]
  <2>2. /\ l \in Local /\ l.op = "none" /\ l.pc = "idle" /\ ~l.inside /\ l.last = Empty
        /\ l.walk = NoWalk /\ l.outer = NoWalk /\ l.thr = 0 /\ l.list = {}
    <3>1. /\ Between(Empty) \in Local /\ Between(Empty).op = "none"
          /\ Between(Empty).pc = "idle" /\ Between(Empty).inside = FALSE
          /\ Between(Empty).last = Empty /\ Between(Empty).walk = NoWalk
          /\ Between(Empty).outer = NoWalk /\ Between(Empty).thr = 0
          /\ Between(Empty).list = {}
      BY BetweenType DEF Between
    <3> QED
      BY <2>1, <3>1 DEF Local, Locals
  <2>3. l.pc # "ack" /\ l.pc \notin RetireLabels /\ l.op \in {"none", "enter"}
    BY <2>2 DEF RetireLabels
  <2> HIDE DEF l
  <2>4. /\ VecOf(l) = (IF ~l.inside THEN 0 ELSE l.vec)
        /\ SmrOf(l) = (IF ~l.inside THEN NULL ELSE l.smr) /\ BatchOf(l) = NULL
        /\ SlotOf(l) = 0 /\ AdjsOf(l) = 0 /\ DoAdjsOf(l) = FALSE /\ SkippedOf(l) = {}
        /\ LastOf(l) = l.last /\ ListOf(l) = l.list
        /\ PcOf(l) = "idle" /\ OpOf(l) = "none" /\ ThrOf(l) = l.thr
        /\ WalkOf(l) = Bare(l.walk) /\ OuterOf(l) = Bare(l.outer)
    BY <2>2, <2>3, IdleImage
  <2> QED
    BY <2>2, <2>4, BareNone DEF l
<1>3. /\ head = [s \in P!Slots |-> P!Empty] /\ next = [b \in Batches |-> [s \in P!Slots |-> NULL]]
      /\ refs = [b \in Batches |-> 0] /\ held = [t \in Threads |-> <<>>]
      /\ todo = [t \in Threads |-> <<>>] /\ later = [t \in Threads |-> <<>>]
  BY SameWords DEF Init
<1>4. /\ absPc = [t \in Threads |-> "idle"] /\ absOp = [t \in Threads |-> "none"]
      /\ absVec = [t \in Threads |-> 0] /\ absSmr = [t \in Threads |-> NULL]
      /\ absThr = [t \in Threads |-> 0]
  BY <1>2 DEF absPc, absOp, absVec, absSmr, absThr
<1>5. /\ absLast = [t \in Threads |-> Empty] /\ absWalk = [t \in Threads |-> None]
      /\ absOuter = [t \in Threads |-> None] /\ absList = [t \in Threads |-> {}]
  BY <1>2 DEF absLast, absWalk, absOuter, absList, LastOf, ListOf
<1>6. /\ absBatch = [t \in Threads |-> NULL] /\ absSlot = [t \in Threads |-> 0]
      /\ absAdjs = [t \in Threads |-> 0] /\ absDoAdjs = [t \in Threads |-> FALSE]
      /\ absSkipped = [t \in Threads |-> {}]
  BY <1>2 DEF absBatch, absSlot, absAdjs, absDoAdjs, absSkipped
<1>7. absCovers = [t \in Threads |-> {}] /\ absActive = {} /\ absGrace = [b \in Batches |-> {}]
  BY <1>2 DEF absCovers, absActive, absGrace
<1>8. absStatus \in [Batches -> {"live", "freed"}]
  <2>1. \A b \in Batches : status[b] = "freed"
    BY DEF Init
  <2> QED
    BY <2>1 DEF absStatus
<1>9. P!NoWalk = None /\ P!Empty = Empty
  BY SameWords DEF P!NoWalk, None
<1> QED
  BY <1>3, <1>4, <1>5, <1>6, <1>7, <1>8, <1>9 DEF P!AnyInit, P!Blank

-----------------------------------------------------------------------------
(* The steps keep the types.                                               *)

\* What t does.
Acts(t) == EnterLook(t) \/ LeaveLoad(t) \/ Call(t) \/ Step(t)

\* The steps of a thread, with the ghosts each assigns.
LEMMA ActsIs ==
    ASSUME NEW t \in Threads, Acts(t)
    PROVE  \/ EnterLook(t) \/ LeaveLoad(t)
           \/ Deref(t) /\ UNCHANGED <<head, counter, history>>
           \/ (\E th \in TrimThresholds : Trim(t, th)) /\ Keeps(t) /\ UNCHANGED <<head, counter>>
           \/ (\E e \in 0 .. global : Retire(t, e)) /\ UNCHANGED <<head, counter, history>>
           \/ TravRead(t) /\ Walks(t, todo[t]) /\ UNCHANGED <<head, counter>>
           \/ TravDrop(t) /\ Walks(t, Tail(todo[t])) /\ UNCHANGED <<head, counter>>
           \/ (DerefLoad(t) \/ DerefEpoch(t)) /\ UNCHANGED <<head, counter, history>>
           \/ TrimRead(t) /\ UNCHANGED <<head, counter, history>>
           \/ EndCall(t, Empty) /\ UNCHANGED <<head, counter, history>>
           \/ (\E b \in Batches : Free(t, b)) /\ UNCHANGED <<head, counter, history>>
           \/ EnterAdd(t) \/ DerefAccess(t) \/ LeaveRead(t) \/ LeaveCas(t)
           \/ LeaveClear(t) \/ LeaveAdjust(t) \/ Ack(t) \/ RetireAccess(t)
           \/ RetireLoad(t) \/ RetireCas(t) \/ RetireAdjust(t) \/ RetireCount(t)
           \/ RetireFinish(t)
BY StepIs DEF Acts, Call

\* The history of a return, of a walk and of trim.
LEMMA OwedTypes ==
    ASSUME TypeOK, NEW t \in Threads, NEW rest \in Seq(Batches)
    PROVE  /\ Returns(t, rest) \/ Starts(t, rest) =>
                todo' \in [Threads -> Seq(Batches)] /\ later' \in [Threads -> Seq(Batches)]
           /\ Walks(t, rest) =>
                /\ todo' \in [Threads -> Seq(Batches)] /\ later' \in [Threads -> Seq(Batches)]
                /\ held' = held /\ covers' = covers
           /\ Keeps(t) =>
                /\ todo' \in [Threads -> Seq(Batches)] /\ held' \in [Threads -> Seq(Batches)]
                /\ later' = later /\ covers' = covers
<1>1. /\ held \in [Threads -> Seq(Batches)] /\ todo \in [Threads -> Seq(Batches)]
      /\ later \in [Threads -> Seq(Batches)] /\ <<>> \in Seq(Batches)
  BY DEF TypeOK
<1>2. ASSUME Returns(t, rest)
      PROVE  todo' \in [Threads -> Seq(Batches)] /\ later' \in [Threads -> Seq(Batches)]
  BY <1>1, <1>2 DEF Returns
<1>3. ASSUME Starts(t, rest)
      PROVE  todo' \in [Threads -> Seq(Batches)] /\ later' \in [Threads -> Seq(Batches)]
  BY <1>1, <1>2, <1>3 DEF Starts
<1>4. ASSUME Walks(t, rest)
      PROVE  /\ todo' \in [Threads -> Seq(Batches)] /\ later' \in [Threads -> Seq(Batches)]
             /\ held' = held /\ covers' = covers
  BY <1>1, <1>2, <1>4 DEF Walks
<1>5. ASSUME Keeps(t)
      PROVE  /\ todo' \in [Threads -> Seq(Batches)] /\ held' \in [Threads -> Seq(Batches)]
             /\ later' = later /\ covers' = covers
  BY <1>1, <1>5 DEF Keeps
<1> QED
  BY <1>2, <1>3, <1>4, <1>5

\* An addition to a counter keeps its type.
LEMMA AdjustTypes ==
    ASSUME TypeOK, NEW b \in Batches, NEW v \in Word, Adjust(b, v)
    PROVE  refs' \in [Batches -> Word]
BY WordClosed, HyalineSAssumption DEF TypeOK, Adjust

\* What most steps do not assign.
LEMMA SameTypes ==
    ASSUME TypeOK
    PROVE  /\ UNCHANGED epochs => global' \in Epoch /\ access' \in [Slots -> Epoch]
           /\ UNCHANGED head => head' \in [Slots -> HeadWord]
           /\ UNCHANGED counter => counter' \in [Slots -> Int]
           /\ UNCHANGED next => next' \in [Batches -> [Slots -> Ptr]]
           /\ UNCHANGED refs => refs' \in [Batches -> Word]
           /\ UNCHANGED birth => birth' \in [Batches -> Epoch]
           /\ UNCHANGED structure =>
                /\ root' \in Ptr
                /\ status' \in [Batches -> {"freed", "new", "linked", "retired"}]
           /\ UNCHANGED held => held' \in [Threads -> Seq(Batches)]
           /\ UNCHANGED todo => todo' \in [Threads -> Seq(Batches)]
           /\ UNCHANGED later => later' \in [Threads -> Seq(Batches)]
           /\ UNCHANGED covers => covers' \in [Threads -> SUBSET Threads]
BY DEF TypeOK, epochs, structure

\* The steps that assign none of the shared words but the locals.
LEMMA LocalTypes ==
    ASSUME TypeOK, NEW t \in Threads, Moves(t),
           UNCHANGED <<epochs, head, memory, structure, counter, history>>
    PROVE  TypeOK'
BY SameTypes DEF TypeOK, Moves, Local, epochs, memory, structure, history, owed

\* The steps that only read keep the types.
LEMMA TypeReads ==
    ASSUME Base, NEW t \in Threads,
           \/ EnterLook(t) \/ LeaveLoad(t) \/ LeaveRead(t) \/ RetireAccess(t) \/ RetireLoad(t)
           \/ /\ Deref(t) \/ DerefLoad(t) \/ DerefEpoch(t) \/ TrimRead(t) \/ EndCall(t, Empty)
              /\ UNCHANGED <<head, counter, history>>
    PROVE  TypeOK'
<1>1. TypeOK
  BY DEF Base
<1>2. UNCHANGED <<epochs, head, memory, structure, counter, history>>
  BY DEF EnterLook, LeaveLoad, LeaveRead, RetireAccess, RetireLoad, Deref, DerefLoad,
         DerefEpoch, TrimRead, EndCall
<1>3. Moves(t)
  <2>1. /\ LeaveRead(t) => loc[t].last.ptr \in Batches
        /\ TrimRead(t) => loc[t].smr \in Batches
    BY Addresses DEF LeaveRead, TrimRead, At
  <2>2. EnterLook(t) \/ LeaveLoad(t) \/ LeaveRead(t) => Moves(t)
    BY <1>1, <2>1, EnterLookDoes, LeaveLoadDoes, LeaveReadDoes
  <2>3. RetireAccess(t) \/ RetireLoad(t) => Moves(t)
    BY <1>1, RetireAccessDoes, RetireLoadDoes
  <2>4. Deref(t) \/ DerefLoad(t) \/ DerefEpoch(t) => Moves(t)
    BY <1>1, DerefDoes, DerefLoadDoes, DerefEpochDoes
  <2>5. TrimRead(t) \/ EndCall(t, Empty) => Moves(t)
    BY <1>1, <2>1, TrimReadDoes, EndCallDoes
  <2> QED
    BY <2>2, <2>3, <2>4, <2>5
<1> QED
  BY <1>1, <1>2, <1>3, LocalTypes

\* The steps of a walk keep the types.
LEMMA TypeWalks ==
    ASSUME Base, NEW t \in Threads,
           \/ (\E th \in TrimThresholds : Trim(t, th)) /\ Keeps(t)
           \/ TravRead(t) /\ Walks(t, todo[t])
           \/ TravDrop(t) /\ Walks(t, Tail(todo[t])),
           UNCHANGED <<head, counter>>
    PROVE  TypeOK'
<1>1. TypeOK
  BY DEF Base
<1>2. CASE (\E th \in TrimThresholds : Trim(t, th)) /\ Keeps(t)
  <2>1. PICK th \in TrimThresholds : Trim(t, th)
    BY <1>2
  <2>2. Moves(t)
    BY <1>1, <2>1, TrimDoes
  <2>3. /\ UNCHANGED <<epochs, memory, structure>> /\ todo[t] \in Seq(Batches)
    BY <1>1, <2>1 DEF Trim, TypeOK
  <2> QED
    BY <1>1, <1>2, <2>2, <2>3, OwedTypes, SameTypes
    DEF TypeOK, Moves, Local, epochs, memory, structure
<1>3. CASE TravRead(t) /\ Walks(t, todo[t])
  <2>1. Moves(t) /\ UNCHANGED <<epochs, memory, structure>> /\ todo[t] \in Seq(Batches)
    BY <1>1, <1>3, TravReadDoes DEF TravRead, TypeOK
  <2> QED
    BY <1>1, <1>3, <2>1, OwedTypes, SameTypes
    DEF TypeOK, Moves, Local, epochs, memory, structure
<1>4. CASE TravDrop(t) /\ Walks(t, Tail(todo[t]))
  <2>1. loc[t].walk.curr \in Batches /\ loc[t].pc = "travDrop"
    BY <1>4, Addresses DEF TravDrop, At
  <2>2. Moves(t) /\ UNCHANGED <<epochs, next, birth, structure>>
    BY <1>1, <1>4, <2>1, TravDropDoes DEF TravDrop
  <2>3. Tail(todo[t]) \in Seq(Batches)
    BY <1>1, <2>1, DropsOne, TailFacts DEF TypeOK, InSeq
  <2>4. refs' \in [Batches -> Word]
    <3>1. Adjust(loc[t].walk.curr, MinusOne)
      BY <1>4 DEF TravDrop
    <3>2. MinusOne \in Word
      BY Constants, WordClosed
    <3> QED
      BY <1>1, <2>1, <3>1, <3>2, AdjustTypes
  <2> QED
    BY <1>1, <1>4, <2>2, <2>3, <2>4, OwedTypes, SameTypes
    DEF TypeOK, Moves, Local, epochs, structure
<1> QED
  BY <1>2, <1>3, <1>4

\* The steps of enter and leave keep the types.
LEMMA TypeLeaves ==
    ASSUME Base, NEW t \in Threads,
           LeaveCas(t) \/ LeaveClear(t) \/ LeaveAdjust(t) \/ Ack(t) \/ EnterAdd(t)
    PROVE  TypeOK'
<1>1. TypeOK /\ held[t] \in Seq(Batches) /\ todo[t] \in Seq(Batches) /\ loc[t] \in Local
      /\ loc[t].vec \in Slots /\ loc[t].slot \in Slots /\ loc[t].last \in HeadWord
      /\ loc[t].walk.counter \in Nat
  BY Fields, WalkFields DEF Base, TypeOK, Local
<1>2. CASE LeaveCas(t)
  <2>1. Moves(t)
    BY <1>1, <1>2, LeaveCasDoes
  <2>2. HeadAfterLeave(loc[t].last) \in HeadWord
    <3>1. loc[t].last.refs \in Word /\ loc[t].last.ptr \in Ptr
      BY <1>1 DEF HeadWord
    <3>2. AddW(loc[t].last.refs, MinusOne) \in Word
      BY <3>1, Constants, WordClosed
    <3> QED
      BY <1>1, <3>2, Constants DEF HeadAfterLeave, HeadWord
  <2>3. /\ UNCHANGED <<epochs, memory, structure, counter, covers>>
        /\ head' \in [Slots -> HeadWord]
    <3>1. /\ UNCHANGED <<epochs, memory, structure, counter, covers>>
          /\ \/ head' = [head EXCEPT ![loc[t].vec] = HeadAfterLeave(loc[t].last)]
             \/ head' = head
      BY <1>2 DEF LeaveCas
    <3>2. head \in [Slots -> HeadWord]
      BY <1>1 DEF TypeOK
    <3> QED
      BY <1>1, <2>2, <3>1, <3>2
  <2>4. /\ held' \in [Threads -> Seq(Batches)] /\ todo' \in [Threads -> Seq(Batches)]
        /\ later' \in [Threads -> Seq(Batches)]
    <3>1. /\ held' = [held EXCEPT ![t] = <<>>] \/ held' = held
          /\ \/ todo' = [todo EXCEPT ![t] = held[t]] /\ later' = later
             \/ Starts(t, held[t])
             \/ todo' = todo /\ later' = later
      BY <1>2 DEF LeaveCas, owed
    <3>2. /\ held \in [Threads -> Seq(Batches)] /\ todo \in [Threads -> Seq(Batches)]
          /\ later \in [Threads -> Seq(Batches)] /\ <<>> \in Seq(Batches)
      BY <1>1 DEF TypeOK
    <3>3. CASE Starts(t, held[t])
      BY <1>1, <3>1, <3>2, <3>3, OwedTypes
    <3>4. CASE ~Starts(t, held[t])
      BY <1>1, <3>1, <3>2, <3>4
    <3> QED
      BY <3>3, <3>4
  <2> QED
    BY <1>1, <2>1, <2>3, <2>4, SameTypes DEF TypeOK, Moves, Local, epochs, memory, structure
<1>3. CASE LeaveClear(t)
  <2>1. Moves(t)
    BY <1>1, <1>3, LeaveClearDoes
  <2>2. /\ UNCHANGED <<epochs, memory, structure, counter, held, covers>>
        /\ head' \in [Slots -> HeadWord]
    <3>1. /\ UNCHANGED <<epochs, memory, structure, counter, held, covers>>
          /\ head' = [head EXCEPT ![loc[t].vec] = Empty] \/ head' = head
      BY <1>3 DEF LeaveClear
    <3>2. head \in [Slots -> HeadWord]
      BY <1>1 DEF TypeOK
    <3> QED
      BY <1>1, <3>1, <3>2, Constants
  <2>3. todo' \in [Threads -> Seq(Batches)] /\ later' \in [Threads -> Seq(Batches)]
    <3>1. UNCHANGED <<todo, later>> \/ Starts(t, todo[t])
      BY <1>3 DEF LeaveClear
    <3> QED
      BY <1>1, <3>1, OwedTypes DEF TypeOK
  <2> QED
    BY <1>1, <2>1, <2>2, <2>3, SameTypes DEF TypeOK, Moves, Local, epochs, memory, structure
<1>4. CASE LeaveAdjust(t)
  <2>1. loc[t].last.ptr \in Batches
    BY <1>4, Addresses DEF LeaveAdjust, At
  <2>2. Moves(t) /\ Starts(t, todo[t]) /\ Adjust(loc[t].last.ptr, Addend)
        /\ UNCHANGED <<epochs, head, next, birth, structure, counter, held, covers>>
    BY <1>1, <1>4, <2>1, LeaveAdjustDoes DEF LeaveAdjust
  <2>3. refs' \in [Batches -> Word]
    BY <1>1, <2>1, <2>2, AdjustTypes, Constants
  <2> QED
    BY <1>1, <2>2, <2>3, OwedTypes, SameTypes DEF TypeOK, Moves, Local, epochs, structure
<1>5. CASE Ack(t)
  <2>1. Goes(t, Return(loc[t]))
    BY <1>5 DEF Ack
  <2>2. Moves(t)
    BY <1>1, <2>1, ReturnIs, GoesTo
  <2>3. counter' \in [Slots -> Int] /\ UNCHANGED <<epochs, head, memory, structure, history>>
    BY <1>1, <1>5 DEF Ack, TypeOK
  <2> QED
    BY <1>1, <2>2, <2>3, SameTypes
    DEF TypeOK, Moves, Local, epochs, memory, structure, history, owed
<1>6. CASE EnterAdd(t)
  <2>1. Moves(t)
    BY <1>1, <1>6, EnterAddDoes
  <2>2. AddW(head[loc[t].slot].refs, 1) \in Word
    <3>1. head[loc[t].slot].refs \in Word /\ Mod \in Nat \ {0}
      BY <1>1, Constants DEF TypeOK, HeadWord
    <3> QED
      BY <3>1 DEF AddW, Word
  <2>3. /\ head' \in [Slots -> HeadWord]
        /\ UNCHANGED <<epochs, memory, structure, counter, history>>
    BY <1>1, <1>6, <2>2 DEF EnterAdd, TypeOK, HeadWord
  <2> QED
    BY <1>1, <2>1, <2>3, SameTypes
    DEF TypeOK, Moves, Local, epochs, memory, structure, history, owed
<1> QED
  BY <1>2, <1>3, <1>4, <1>5, <1>6

\* The steps of retire and deref that write keep the types.
LEMMA TypeRetires ==
    ASSUME Base, NEW t \in Threads,
           RetireCas(t) \/ RetireAdjust(t) \/ RetireCount(t) \/ RetireFinish(t) \/ DerefAccess(t)
    PROVE  TypeOK'
<1>1. TypeOK /\ loc[t] \in Local
      /\ loc[t].vec \in Slots /\ loc[t].slot \in Slots /\ loc[t].last \in HeadWord
      /\ loc[t].last.ptr \in Ptr /\ loc[t].last.refs \in Word /\ loc[t].adjs \in Word
      /\ loc[t].glob \in Epoch
  BY Fields DEF Base, TypeOK, Local, HeadWord
<1>2. CASE RetireCas(t)
  <2>1. Moves(t)
    BY <1>1, <1>2, RetireCasDoes
  <2>2. loc[t].batch \in Batches
    BY <1>2, Addresses DEF RetireCas, At, RetireLabels
  <2>3. /\ UNCHANGED <<epochs, refs, birth, structure, counter, todo, later>>
        /\ \/ /\ head' = [head EXCEPT ![loc[t].slot].ptr = loc[t].batch]
              /\ next' = [next EXCEPT ![loc[t].batch][loc[t].slot] = loc[t].last.ptr]
              /\ held' = [u \in Threads |->
                            IF u \in Inside(loc[t].slot) /\ loc[t].last.ptr # NULL
                            THEN <<loc[t].last.ptr>> \o held[u] ELSE held[u]]
              /\ covers' = [covers EXCEPT ![t] = Inside(loc[t].slot)]
           \/ UNCHANGED <<head, next, held, covers>>
    BY <1>2 DEF RetireCas
  <2>4. head' \in [Slots -> HeadWord]
    <3>1. head \in [Slots -> HeadWord] /\ loc[t].batch \in Ptr
      BY <1>1, <2>2 DEF TypeOK, Ptr
    <3>2. [head[loc[t].slot] EXCEPT !.ptr = loc[t].batch] \in HeadWord
      BY <1>1, <3>1 DEF HeadWord
    <3>3. head' = [head EXCEPT ![loc[t].slot] = [head[loc[t].slot] EXCEPT !.ptr = loc[t].batch]]
          \/ head' = head
      BY <1>1, <2>3, <3>1
    <3> QED
      BY <1>1, <3>1, <3>2, <3>3
  <2>5. next' \in [Batches -> [Slots -> Ptr]] /\ covers' \in [Threads -> SUBSET Threads]
    <3>1. next \in [Batches -> [Slots -> Ptr]] /\ covers \in [Threads -> SUBSET Threads]
          /\ Inside(loc[t].slot) \in SUBSET Threads
      BY <1>1 DEF TypeOK, Inside
    <3>2. \/ next' = [next EXCEPT ![loc[t].batch] =
                             [next[loc[t].batch] EXCEPT ![loc[t].slot] = loc[t].last.ptr]]
          \/ next' = next
      BY <2>3
    <3>3. [next[loc[t].batch] EXCEPT ![loc[t].slot] = loc[t].last.ptr] \in [Slots -> Ptr]
      BY <1>1, <2>2, <3>1
    <3>4. next' \in [Batches -> [Slots -> Ptr]]
      BY <2>2, <3>1, <3>2, <3>3
    <3>5. covers' \in [Threads -> SUBSET Threads]
      BY <2>3, <3>1
    <3> QED
      BY <3>4, <3>5
  <2>6. held' \in [Threads -> Seq(Batches)]
    <3>1. \A u \in Threads : held[u] \in Seq(Batches)
      BY <1>1 DEF TypeOK
    <3>2. \A u \in Threads :
            loc[t].last.ptr # NULL => <<loc[t].last.ptr>> \o held[u] \in Seq(Batches)
      BY <1>1, <3>1 DEF Ptr
    <3>3. UNCHANGED held => held' \in [Threads -> Seq(Batches)]
      BY <1>1 DEF TypeOK
    <3> QED
      BY <2>3, <3>1, <3>2, <3>3
  <2> QED
    BY <1>1, <2>1, <2>3, <2>4, <2>5, <2>6, SameTypes
    DEF TypeOK, Moves, Local, epochs, structure
<1>3. CASE RetireAdjust(t)
  <2>1. loc[t].last.ptr \in Batches
    BY <1>3, Addresses DEF RetireAdjust, At
  <2>2. Moves(t) /\ Adjust(loc[t].last.ptr, AddW(Addend, loc[t].last.refs))
        /\ UNCHANGED <<epochs, head, next, birth, structure, counter, history>>
    BY <1>1, <1>3, <2>1, RetireAdjustDoes DEF RetireAdjust
  <2>3. refs' \in [Batches -> Word]
    <3>1. AddW(Addend, loc[t].last.refs) \in Word
      BY <1>1, Constants, WordClosed
    <3> QED
      BY <1>1, <2>1, <2>2, <3>1, AdjustTypes
  <2> QED
    BY <1>1, <2>2, <2>3, SameTypes DEF TypeOK, Moves, Local, epochs, structure, history, owed
<1>4. CASE RetireCount(t)
  <2>1. Moves(t)
    BY <1>1, <1>4, RetireCountDoes
  <2>2. UNCHANGED <<epochs, head, memory, structure, owed>>
        /\ counter' \in [Slots -> Int] /\ covers' \in [Threads -> SUBSET Threads]
    <3>1. /\ UNCHANGED <<epochs, head, memory, structure, owed>>
          /\ counter' = [counter EXCEPT ![loc[t].slot] = @ + loc[t].last.refs]
          /\ covers' = [covers EXCEPT ![t] = {}]
      BY <1>4 DEF RetireCount
    <3>2. counter[loc[t].slot] + loc[t].last.refs \in Int
      BY <1>1, Constants DEF TypeOK, Word
    <3> QED
      BY <1>1, <3>1, <3>2 DEF TypeOK
  <2> QED
    BY <1>1, <2>1, <2>2, SameTypes DEF TypeOK, Moves, Local, epochs, memory, structure, owed
<1>5. CASE RetireFinish(t)
  <2>1. loc[t].batch \in Batches
    BY <1>5, Addresses DEF RetireFinish, At, RetireLabels
  <2>2. Moves(t) /\ Adjust(loc[t].batch, loc[t].adjs)
        /\ UNCHANGED <<epochs, head, next, birth, structure, counter, history>>
    BY <1>1, <1>5, <2>1, RetireFinishDoes DEF RetireFinish
  <2>3. refs' \in [Batches -> Word]
    BY <1>1, <2>1, <2>2, AdjustTypes
  <2> QED
    BY <1>1, <2>2, <2>3, SameTypes DEF TypeOK, Moves, Local, epochs, structure, history, owed
<1>6. CASE DerefAccess(t)
  <2>1. Moves(t)
    BY <1>1, <1>6, DerefAccessDoes
  <2>2. UNCHANGED <<global, head, memory, structure, counter, history>>
        /\ access' \in [Slots -> Epoch]
    BY <1>1, <1>6 DEF DerefAccess, TypeOK
  <2> QED
    BY <1>1, <2>1, <2>2, SameTypes
    DEF TypeOK, Moves, Local, memory, structure, history, owed
<1> QED
  BY <1>2, <1>3, <1>4, <1>5, <1>6

\* retire's beginning and the freeing of a batch keep the types.
LEMMA TypeClient ==
    ASSUME Base, NEW t \in Threads,
           (\E e \in 0 .. global : Retire(t, e)) \/ (\E b \in Batches : Free(t, b)),
           UNCHANGED <<head, counter, history>>
    PROVE  TypeOK'
<1>1. TypeOK
  BY DEF Base
<1>2. CASE \E e \in 0 .. global : Retire(t, e)
  <2>1. PICK e \in 0 .. global : Retire(t, e)
    BY <1>2
  <2>2. Moves(t) /\ root \in Batches
    BY <1>1, <2>1, RetireDoes
  <2>3. /\ UNCHANGED <<epochs, next, birth>> /\ root' \in Ptr
        /\ status' \in [Batches -> {"freed", "new", "linked", "retired"}]
        /\ refs' \in [Batches -> Word]
    BY <1>1, <2>1, <2>2, Constants DEF Retire, TypeOK, Ptr
  <2> QED
    BY <1>1, <2>2, <2>3, SameTypes DEF TypeOK, Moves, Local, epochs, history, owed
<1>3. CASE \E b \in Batches : Free(t, b)
  <2>1. PICK b \in Batches : Free(t, b)
    BY <1>3
  <2>2. Moves(t)
    BY <1>1, <2>1, FreeDoes
  <2>3. /\ UNCHANGED <<epochs, refs, root>>
        /\ status' \in [Batches -> {"freed", "new", "linked", "retired"}]
        /\ next' \in [Batches -> [Slots -> Ptr]] /\ birth' \in [Batches -> Epoch]
    BY <1>1, <2>1, Constants DEF Free, TypeOK, Ptr
  <2> QED
    BY <1>1, <2>2, <2>3, SameTypes DEF TypeOK, Moves, Local, epochs, history, owed
<1> QED
  BY <1>2, <1>3

\* The steps of the structure keep the types.
LEMMA TypeStructure ==
    ASSUME TypeOK, Structure, UNCHANGED <<head, counter, history>>
    PROVE  TypeOK'
<1>1. PICK b \in Batches : Alloc(b) \/ Link(b)
  BY DEF Structure
<1>2. CASE Alloc(b)
  <2>1. /\ UNCHANGED <<access, next, refs, root, loc>> /\ global' \in Epoch
        /\ birth' \in [Batches -> Epoch]
        /\ status' \in [Batches -> {"freed", "new", "linked", "retired"}]
    <3>1. global' \in Epoch
      BY <1>2, Constants DEF Alloc, TypeOK, Epoch
    <3> QED
      BY <1>2, <3>1 DEF Alloc, TypeOK
  <2> QED
    BY <2>1, SameTypes DEF TypeOK, history, owed
<1>3. CASE Link(b)
  <2>1. /\ UNCHANGED <<epochs, memory, loc>> /\ root' \in Ptr
        /\ status' \in [Batches -> {"freed", "new", "linked", "retired"}]
    BY <1>3 DEF Link, TypeOK, Ptr
  <2> QED
    BY <2>1, SameTypes DEF TypeOK, epochs, memory, history, owed
<1> QED
  BY <1>1, <1>2, <1>3

\* Every step keeps the types.
LEMMA TypeActs ==
    ASSUME Base, NEW t \in Threads, Acts(t)
    PROVE  TypeOK'
BY ActsIs, TypeReads, TypeWalks, TypeLeaves, TypeRetires, TypeClient

-----------------------------------------------------------------------------
(* The retirements under way.                                              *)

\* The slots a retirement has still to come to, and has passed by, are those
\* of its image.
LEMMA SameAhead ==
    ASSUME Base, NEW t \in Threads
    PROVE  P!Ahead(t) = Ahead(t) /\ absSkipped[t] = Skipped(t)
<1>1. absSkipped[t] = Skipped(t)
  BY DEF absSkipped, SkippedOf, Skipped
<1>2. CASE loc[t].pc \in RetireLabels
  <2>1. /\ absSlot[t] = loc[t].slot
        /\ absPc[t] = IF loc[t].pc = "retireAccess" THEN "retireLoad"
                      ELSE IF loc[t].pc = "retireCount" THEN "retireNext" ELSE loc[t].pc
    BY <1>2, RetirerNow
  <2>2. CASE loc[t].pc \in {"retireAccess", "retireLoad", "retireCas"}
    <3>1. absPc[t] \in {"retireLoad", "retireCas"}
      BY <2>1, <2>2
    <3> QED
      BY <1>1, <2>1, <2>2, <3>1 DEF P!Ahead, Ahead
  <2>3. CASE loc[t].pc \in {"retireAdjust", "retireCount"}
    <3>1. absPc[t] \in {"retireAdjust", "retireNext"}
      BY <2>1, <2>3
    <3> QED
      BY <1>1, <2>1, <2>3, <3>1 DEF P!Ahead, Ahead
  <2>4. CASE loc[t].pc = "retireFinish"
    <3>1. absPc[t] = "retireFinish"
      BY <2>1, <2>4
    <3> QED
      BY <1>1, <2>4, <3>1 DEF P!Ahead, Ahead
  <2> QED
    BY <1>2, <2>2, <2>3, <2>4 DEF RetireLabels
<1>3. CASE loc[t].pc \notin RetireLabels
  <2>1. absPc[t] \notin {"retireLoad", "retireCas", "retireAdjust", "retireNext"}
    <3>1. loc[t] \in Local
      BY DEF Base, TypeOK, Local
    <3>2. loc[t].pc \in Labels
      BY <3>1, Fields
    <3> QED
      BY <1>3, <3>2 DEF absPc, PcOf, RetireLabels, Labels
  <2>2. Ahead(t) = {}
    BY <1>3 DEF Ahead, RetireLabels
  <2>3. P!Ahead(t) = {}
    BY <2>1 DEF P!Ahead
  <2> QED
    BY <1>1, <2>2, <2>3
<1> QED
  BY <1>2, <1>3

\* Only a retirer has slots ahead.
LEMMA AheadIsSlots ==
    ASSUME Base, NEW t \in Threads
    PROVE  /\ Ahead(t) \subseteq Slots /\ Skipped(t) \subseteq Slots
           /\ Ahead(t) # {} => loc[t].pc \in RetireLabels /\ loc[t].op = "retire"
           /\ loc[t].slot \in 0 .. NumSlots - 1
<1>1. /\ loc[t] \in Local /\ ControlOK(t)
  BY DEF Base, TypeOK, Local, ThreadInv
<1>2. loc[t].slot \in 0 .. NumSlots - 1 /\ NumSlots \in Nat /\ Slots = 0 .. NumSlots - 1
  BY <1>1, Fields, Constants
<1> QED
  BY <1>1, <1>2 DEF Ahead, Skipped, ControlOK, RetireLabels

\* A batch that t holds in its slot, or that is its head, or that a retirement
\* is to bring to some slot, or has passed by one, waits to be freed.
LEMMA WaitsFor ==
    ASSUME Base, NEW b \in Batches,
           \/ \E t \in Threads : Within(t, b)
           \/ \E t \in Threads : Retiring(t, b) /\ Ahead(t) \union Skipped(t) # {}
    PROVE  /\ P!Open(b) # {} \/ P!Owers(b) # {}
           /\ status[b] = "retired" /\ \A u \in Threads : b \notin loc[u].list
<1>1. P!Open(b) # {} \/ P!Owers(b) # {}
  <2>1. ASSUME NEW t \in Threads, InSeq(b, held[t]) PROVE P!Owers(b) # {}
    <3>1. P!InSeq(b, held[t])
      BY <2>1 DEF P!InSeq, InSeq
    <3> QED
      BY <2>1, <3>1 DEF P!Owers, P!Owes
  <2>2. ASSUME NEW t \in Threads, head[loc[t].vec].ptr = b PROVE P!Open(b) # {}
    <3>1. loc[t].vec \in P!Slots
      BY Fields, SameWords DEF Base, TypeOK, Local
    <3> QED
      BY <2>2, <3>1 DEF P!Open
  <2>3. ASSUME NEW t \in Threads, Retiring(t, b), NEW s \in Ahead(t) \union Skipped(t)
        PROVE  P!Open(b) # {}
    <3>1. absBatch[t] = b /\ s \in P!Slots /\ s \in P!Ahead(t) \union absSkipped[t]
      BY <2>3, RetirerNow, SameAhead, AheadIsSlots, SameWords DEF Retiring
    <3> QED
      BY <3>1 DEF P!Open, P!Keeps
  <2> QED
    BY <2>1, <2>2, <2>3 DEF Within
<1>2. /\ absStatus[b] = "retired" /\ ~P!Listed(b)
  <2>1. P!RefsInv
    BY DEF Base, P!CoreInv
  <2> QED
    BY <1>1, <2>1 DEF P!RefsInv
<1>3. status[b] = "retired"
  BY <1>2 DEF absStatus
<1>4. \A u \in Threads : b \notin loc[u].list
  BY <1>2 DEF P!Listed, absList, ListOf
<1> QED
  BY <1>1, <1>3, <1>4

\* So a batch that is being retired is neither freed nor about to be.
LEMMA RetirerWaits ==
    ASSUME Base, RetirerInv, NEW t \in Threads, loc[t].pc \in RetireLabels
    PROVE  /\ loc[t].batch \in Batches /\ status[loc[t].batch] = "retired"
           /\ \A u \in Threads : loc[t].batch \notin loc[u].list
<1>1. loc[t].batch \in Batches
  BY Addresses
<1>2. CASE Skipped(t) # {}
  BY <1>1, <1>2, WaitsFor DEF Retiring
<1>3. CASE Skipped(t) = {}
  BY <1>1, <1>3, WaitsFor DEF RetirerInv, Retiring
<1> QED
  BY <1>1, <1>2, <1>3

-----------------------------------------------------------------------------
(* The locals.                                                             *)

\* What a step of t leaves of the rest.
LEMMA Frames ==
    ASSUME Base, RetirerInv, NEW t \in Threads, Acts(t)
    PROVE  /\ Moves(t) /\ global' = global
           /\ access' \in [Slots -> Epoch] /\ \A s \in Slots : access[s] <= access'[s]
           /\ \A u \in Threads : u # t => covers'[u] = covers[u]
           /\ ~RetireCas(t) /\ ~RetireCount(t) => covers' = covers
           /\ \A u \in Threads : loc[u].pc \in RetireLabels =>
                birth'[loc[u].batch] = birth[loc[u].batch]
<1>0. ~DerefAccess(t) => global' = global /\ access' = access
  <2>1. EnterLook(t) \/ LeaveLoad(t) \/ Deref(t) \/ (\E th \in TrimThresholds : Trim(t, th))
        \/ (\E e \in 0 .. global : Retire(t, e)) \/ (\E b \in Batches : Free(t, b))
        => global' = global /\ access' = access
    BY DEF EnterLook, LeaveLoad, Deref, Trim, Retire, Free, epochs
  <2>2. TravRead(t) \/ TravDrop(t) \/ DerefLoad(t) \/ DerefEpoch(t) \/ TrimRead(t)
        \/ EndCall(t, Empty) => global' = global /\ access' = access
    BY DEF TravRead, TravDrop, DerefLoad, DerefEpoch, TrimRead, EndCall, epochs
  <2>3. EnterAdd(t) \/ LeaveRead(t) \/ LeaveCas(t) \/ LeaveClear(t) \/ LeaveAdjust(t)
        \/ Ack(t) \/ RetireAccess(t) \/ RetireLoad(t) \/ RetireCas(t) \/ RetireAdjust(t)
        \/ RetireCount(t) \/ RetireFinish(t) => global' = global /\ access' = access
    BY DEF EnterAdd, LeaveRead, LeaveCas, LeaveClear, LeaveAdjust, Ack, RetireAccess,
       RetireLoad, RetireCas, RetireAdjust, RetireCount, RetireFinish, epochs
  <2> QED
    BY <2>1, <2>2, <2>3, ActsIs
<1>1. TypeOK /\ TypeOK' /\ EpochOK(t)
  BY TypeActs DEF Base, ThreadInv
<1>2. Moves(t) /\ global' = global
  <2>1. /\ LeaveRead(t) => loc[t].last.ptr \in Batches
        /\ TrimRead(t) => loc[t].smr \in Batches
        /\ LeaveAdjust(t) \/ RetireAdjust(t) => loc[t].last.ptr \in Batches
        /\ TravDrop(t) => loc[t].walk.curr \in Batches
        /\ RetireFinish(t) => loc[t].batch \in Batches
    BY Addresses DEF LeaveRead, TrimRead, LeaveAdjust, RetireAdjust, TravDrop, RetireFinish,
                     At, RetireLabels
  <2>2. Moves(t)
    <3>1. Ack(t) => Moves(t)
      BY <1>1, ReturnIs, GoesTo DEF Ack, TypeOK, Local
    <3>2. (\E th \in TrimThresholds : Trim(t, th)) => Moves(t)
      BY <1>1, TrimDoes
    <3>3. (\E e \in 0 .. global : Retire(t, e)) => Moves(t)
      BY <1>1, RetireDoes
    <3>4. (\E b \in Batches : Free(t, b)) => Moves(t)
      BY <1>1, FreeDoes
    <3>5. TravDrop(t) => Moves(t)
      BY <1>1, <2>1, TravDropDoes
    <3>6. EnterLook(t) \/ LeaveLoad(t) \/ EnterAdd(t) \/ EndCall(t, Empty) => Moves(t)
      BY <1>1, EnterLookDoes, LeaveLoadDoes, EnterAddDoes, EndCallDoes
    <3>8. Deref(t) \/ DerefLoad(t) \/ DerefEpoch(t) \/ DerefAccess(t) => Moves(t)
      BY <1>1, DerefDoes, DerefLoadDoes, DerefEpochDoes, DerefAccessDoes
    <3>9. TravRead(t) \/ TrimRead(t) \/ LeaveRead(t) => Moves(t)
      BY <1>1, <2>1, TravReadDoes, TrimReadDoes, LeaveReadDoes
    <3>10. LeaveCas(t) \/ LeaveClear(t) \/ LeaveAdjust(t) => Moves(t)
      BY <1>1, <2>1, LeaveCasDoes, LeaveClearDoes, LeaveAdjustDoes
    <3>7. ASSUME \/ RetireAccess(t) \/ RetireLoad(t) \/ RetireCas(t) \/ RetireAdjust(t)
                 \/ RetireCount(t) \/ RetireFinish(t)
          PROVE  Moves(t)
      BY <3>7, <1>1, <2>1, RetireAccessDoes, RetireLoadDoes, RetireCasDoes, RetireAdjustDoes,
         RetireCountDoes, RetireFinishDoes
    <3> QED
      BY <3>1, <3>2, <3>3, <3>4, <3>5, <3>6, <3>7, <3>8, <3>9, <3>10, ActsIs
  <2>3. global' = global
    <3>1. CASE DerefAccess(t)
      BY <3>1 DEF DerefAccess
    <3>2. CASE ~DerefAccess(t)
      BY <1>0, <3>2
    <3> QED
      BY <3>1, <3>2
  <2> QED
    BY <2>2, <2>3
<1>3. access' \in [Slots -> Epoch] /\ \A s \in Slots : access[s] <= access'[s]
  <2>1. access \in [Slots -> Epoch] /\ \A s \in Slots : access[s] <= access[s]
    <3>1. access \in [Slots -> Epoch] /\ Epoch = 0 .. MaxEpoch
      BY <1>1 DEF TypeOK, Epoch
    <3>2. \A x \in 0 .. MaxEpoch : x <= x
      BY HyalineSAssumption
    <3> QED
      BY <3>1, <3>2
  <2>2. CASE DerefAccess(t)
    <3>1. loc[t].pc = "derefAccess" /\ loc[t].acc < loc[t].glob /\ loc[t].vec \in Slots
          /\ loc[t].glob \in Epoch /\ loc[t].acc \in Epoch
      BY <1>1, <2>2, Fields DEF DerefAccess, At, EpochOK, TypeOK, Local
    <3>2. \/ /\ access[loc[t].vec] = loc[t].acc
             /\ access' = [access EXCEPT ![loc[t].vec] = loc[t].glob]
          \/ access' = access
      BY <2>2 DEF DerefAccess
    <3>3. CASE access' = access
      BY <2>1, <3>3
    <3>4. CASE /\ access[loc[t].vec] = loc[t].acc
               /\ access' = [access EXCEPT ![loc[t].vec] = loc[t].glob]
      <4>1. loc[t].acc <= loc[t].glob
        BY <3>1, Constants DEF Epoch
      <4>2. \A s \in Slots : access'[s] = IF s = loc[t].vec THEN loc[t].glob ELSE access[s]
        BY <2>1, <3>1, <3>4
      <4>3. access' \in [Slots -> Epoch]
        BY <2>1, <3>1, <3>4
      <4> QED
        BY <2>1, <3>4, <4>1, <4>2, <4>3
    <3> QED
      BY <3>2, <3>3, <3>4
  <2>3. CASE ~DerefAccess(t)
    <3>1. access' = access
      BY <1>0, <2>3
    <3> QED
      BY <2>1, <3>1
  <2> QED
    BY <2>2, <2>3
<1>4. ASSUME ~RetireCas(t), ~RetireCount(t) PROVE covers' = covers
  BY <1>4, ActsIs DEF EnterLook, LeaveLoad, Keeps, Walks, history, EnterAdd, DerefAccess,
     LeaveRead, LeaveCas, LeaveClear, LeaveAdjust, Ack, RetireAccess, RetireLoad,
     RetireAdjust, RetireFinish
<1>5. ASSUME NEW u \in Threads, u # t PROVE covers'[u] = covers[u]
  <2>1. covers \in [Threads -> SUBSET Threads]
    BY <1>1 DEF TypeOK
  <2>2. RetireCas(t) \/ RetireCount(t) =>
          covers' = covers \/ \E S : covers' = [covers EXCEPT ![t] = S]
    BY DEF RetireCas, RetireCount
  <2> QED
    BY <1>4, <1>5, <2>1, <2>2
<1>6. ASSUME NEW u \in Threads, loc[u].pc \in RetireLabels
      PROVE  birth'[loc[u].batch] = birth[loc[u].batch]
  <2>1. CASE \E b \in Batches : Free(t, b)
    <3>1. PICK b \in Batches : Free(t, b)
      BY <2>1
    <3>2. b \in loc[t].list /\ birth' = [birth EXCEPT ![b] = 0]
      BY <3>1 DEF Free
    <3>3. loc[u].batch # b
      BY <1>6, <3>2, RetirerWaits
    <3> QED
      BY <1>1, <3>2, <3>3 DEF TypeOK
  <2>2. CASE ~\E b \in Batches : Free(t, b)
    <3>1. birth' = birth
      BY <2>2, ActsIs DEF EnterLook, LeaveLoad, Deref, Trim, Retire, TravRead, TravDrop,
         DerefLoad, DerefEpoch, TrimRead, EndCall, EnterAdd, DerefAccess, LeaveRead, LeaveCas,
         LeaveClear, LeaveAdjust, Ack, RetireAccess, RetireLoad, RetireCas, RetireAdjust,
         RetireCount, RetireFinish, memory
    <3> QED
      BY <3>1
  <2> QED
    BY <2>1, <2>2
<1> QED
  BY <1>2, <1>3, <1>4, <1>5, <1>6

\* The locals of the other threads mean what they did.
LEMMA ThreadOthers ==
    ASSUME Base, RetirerInv, NEW t \in Threads, Acts(t), NEW u \in Threads, u # t
    PROVE  ControlOK(u)' /\ LocalsOK(u)' /\ RetireOK(u)' /\ EpochOK(u)'
<1>1. ControlOK(u) /\ LocalsOK(u) /\ RetireOK(u) /\ EpochOK(u) /\ TypeOK
  BY DEF Base, ThreadInv
<1>2. loc'[u] = loc[u] /\ covers'[u] = covers[u] /\ global' = global
      /\ (loc[u].pc \in RetireLabels => birth'[loc[u].batch] = birth[loc[u].batch])
      /\ access' \in [Slots -> Epoch] /\ \A s \in Slots : access[s] <= access'[s]
  BY Frames DEF Moves, Others
<1>3. ControlOK(u)' /\ LocalsOK(u)'
  BY <1>1, <1>2 DEF ControlOK, LocalsOK
<1>4. RetireOK(u)'
  BY <1>1, <1>2 DEF RetireOK
<1>5. EpochOK(u)'
  <2>1. loc[u].vec \in Slots /\ loc[u].acc \in Epoch /\ access[loc[u].vec] \in Epoch
        /\ access'[loc[u].vec] \in Epoch /\ access[loc[u].vec] <= access'[loc[u].vec]
    BY <1>1, <1>2, Fields DEF TypeOK, Local
  <2> QED
    BY <1>1, <1>2, <2>1, Constants DEF EpochOK, Epoch
<1> QED
  BY <1>3, <1>4, <1>5

\* A thread that is in neither deref nor retire.
LEMMA ThreadPlain ==
    ASSUME Base, NEW t \in Threads, Moves(t), covers' = covers,
           loc[t].pc \notin {"retireAdjust", "retireCount"},
           loc'[t].pc \notin RetireLabels \union DerefLabels, loc'[t].into = {}
    PROVE  RetireOK(t)' /\ EpochOK(t)'
<1>1. RetireOK(t)
  BY DEF Base, ThreadInv
<1> QED
  BY <1>1 DEF RetireOK, EpochOK, RetireLabels, DerefLabels

\* What is said of the acting thread in the next state.
NextOK(t) == ControlOK(t)' /\ LocalsOK(t)' /\ RetireOK(t)' /\ EpochOK(t)'

\* What the invariant says of a thread.
LEMMA ThreadNow ==
    ASSUME Base, NEW t \in Threads
    PROVE  /\ TypeOK /\ ControlOK(t) /\ LocalsOK(t) /\ RetireOK(t) /\ EpochOK(t)
           /\ loc[t] \in Local
BY DEF Base, ThreadInv, TypeOK, Local

\* A list of batches to free stays finite.
LEMMA ListsFinite ==
    ASSUME NEW S, IsFiniteSet(S), NEW b, NEW v
    PROVE  IsFiniteSet(Collected(S, b, v)) /\ IsFiniteSet(S \ {b})
BY FS_AddElement, FS_RemoveElement DEF Collected

\* A thread that starts or ends a call.
LEMMA ThreadEnters ==
    ASSUME Base, NEW t \in Threads, covers' = covers,
           \/ EnterLook(t) \/ EnterAdd(t) \/ EndCall(t, Empty)
           \/ \E b \in Batches : Free(t, b)
    PROVE  NextOK(t)
<1>1. TypeOK /\ ControlOK(t) /\ LocalsOK(t) /\ RetireOK(t) /\ EpochOK(t)
  BY ThreadNow
<1>2. CASE EnterLook(t)
  <2>1. /\ Moves(t) /\ loc[t].op \in {"none", "enter"} /\ ~loc[t].inside
        /\ loc'[t].last = loc[t].last /\ loc'[t].list = loc[t].list
        /\ SameClient(loc[t], loc'[t]) /\ SameWalks(loc[t], loc'[t])
        /\ loc'[t].adjs = loc[t].adjs /\ loc'[t].doAdjs = loc[t].doAdjs
        /\ loc'[t].into = loc[t].into /\ loc'[t].op = "enter"
        /\ loc'[t].pc \in EnterLabels
        /\ loc'[t].pc = "enterLook" => loc'[t].slot # loc'[t].vec
        /\ loc[t].pc \in {"idle", "reenter", "enterLook"}
    BY <1>1, <1>2, EnterLookDoes DEF ControlOK, EnterLabels, SameClient
  <2>2. ControlOK(t)'
    BY <1>1, <2>1 DEF ControlOK, SameClient, EnterLabels, DerefLabels, LeaveLabels, RetireLabels
  <2>3. LocalsOK(t)'
    BY <1>1, <2>1 DEF LocalsOK, SameWalks, EnterLabels, LeaveLabels
  <2>4. RetireOK(t)' /\ EpochOK(t)'
    BY <1>1, <2>1, ThreadPlain DEF LocalsOK, EnterLabels, DerefLabels, RetireLabels
  <2> QED
    BY <2>2, <2>3, <2>4 DEF NextOK
<1>3. CASE EnterAdd(t)
  <2>1. /\ Moves(t) /\ loc[t].pc = "enterAdd" /\ loc'[t].pc = "idle"
        /\ loc'[t].inside /\ loc'[t].op = "none" /\ loc'[t].holds = {}
        /\ loc'[t].walk = NoWalk
        /\ loc'[t].outer = NoWalk /\ loc'[t].thr = 0 /\ loc'[t].list = {}
        /\ loc'[t].slot = 0 /\ loc'[t].last = Empty /\ loc'[t].adjs = 0
        /\ loc'[t].doAdjs = FALSE /\ loc'[t].into = {}
    BY <1>1, <1>3, EnterAddDoes
  <2>2. ControlOK(t)'
    BY <2>1 DEF ControlOK, EnterLabels, DerefLabels, LeaveLabels, RetireLabels
  <2>3. LocalsOK(t)'
    BY <2>1, FS_EmptySet DEF LocalsOK, LeaveLabels
  <2>4. RetireOK(t)' /\ EpochOK(t)'
    BY <2>1, ThreadPlain DEF DerefLabels, RetireLabels
  <2> QED
    BY <2>2, <2>3, <2>4 DEF NextOK
<1>4. CASE EndCall(t, Empty)
  <2>1. /\ Moves(t) /\ loc[t].pc = "free" /\ loc'[t].list = {}
        /\ loc'[t].inside = loc[t].inside /\ loc'[t].holds = loc[t].holds
        /\ loc'[t].op = "none" /\ loc'[t].walk = NoWalk /\ loc'[t].outer = NoWalk
        /\ loc'[t].thr = 0 /\ loc'[t].slot = 0 /\ loc'[t].last = Empty
        /\ loc'[t].adjs = 0 /\ loc'[t].doAdjs = FALSE /\ loc'[t].into = {}
        /\ loc'[t].pc = IF loc[t].op = "trimLeft" THEN "reenter" ELSE "idle"
    BY <1>1, <1>4, EndCallDoes
  <2>2. ControlOK(t)'
    BY <1>1, <2>1 DEF ControlOK, EnterLabels, DerefLabels, LeaveLabels, RetireLabels
  <2>3. LocalsOK(t)'
    BY <2>1, FS_EmptySet DEF LocalsOK, LeaveLabels
  <2>4. RetireOK(t)' /\ EpochOK(t)'
    BY <2>1, ThreadPlain DEF DerefLabels, RetireLabels
  <2> QED
    BY <2>2, <2>3, <2>4 DEF NextOK
<1>5. CASE \E b \in Batches : Free(t, b)
  <2>1. PICK b \in Batches : Free(t, b)
    BY <1>5
  <2>2. /\ Moves(t) /\ loc[t].pc = "free" /\ loc'[t].pc = "free" /\ loc'[t].op = loc[t].op
        /\ loc'[t].last = loc[t].last /\ loc'[t].list = loc[t].list \ {b}
        /\ SameClient(loc[t], loc'[t]) /\ SameWalks(loc[t], loc'[t])
        /\ SameRetire(loc[t], loc'[t])
    BY <1>1, <2>1, FreeDoes
  <2>3. ControlOK(t)'
    BY <1>1, <2>2 DEF ControlOK, SameClient, EnterLabels, DerefLabels, LeaveLabels, RetireLabels
  <2>4. LocalsOK(t)'
    <3>1. IsFiniteSet(loc'[t].list)
      BY <1>1, <2>2, ListsFinite DEF LocalsOK
    <3>2. loc[t].op # "none" /\ loc[t].op # "enter" /\ loc[t].op # "deref"
      BY <1>1, <2>2 DEF ControlOK, EnterLabels, DerefLabels
    <3> QED
      BY <1>1, <2>2, <3>1, <3>2 DEF LocalsOK, SameWalks, SameRetire, LeaveLabels
  <2>5. RetireOK(t)' /\ EpochOK(t)'
    BY <1>1, <2>2 DEF RetireOK, EpochOK, SameRetire, DerefLabels, RetireLabels
  <2> QED
    BY <2>3, <2>4, <2>5 DEF NextOK
<1> QED
  BY <1>2, <1>3, <1>4, <1>5

\* A thread in deref.
LEMMA ThreadDerefs ==
    ASSUME Base, ObjectInv, NEW t \in Threads, covers' = covers, global' = global,
           \/ (Deref(t) \/ DerefLoad(t) \/ DerefEpoch(t)) /\ access' = access
           \/ DerefAccess(t)
    PROVE  NextOK(t)
<1>1. /\ TypeOK /\ ControlOK(t) /\ LocalsOK(t) /\ RetireOK(t) /\ EpochOK(t)
      /\ loc[t] \in Local
  BY ThreadNow
<1>2. /\ loc[t].vec \in Slots /\ loc[t].acc \in Epoch /\ loc[t].glob \in Epoch
      /\ access \in [Slots -> Epoch] /\ global \in Epoch
      /\ Epoch = 0 .. MaxEpoch /\ MaxEpoch \in Nat
      /\ access[loc[t].vec] <= global
  BY <1>1, Fields, Constants DEF TypeOK, Epoch, ObjectInv
<1>3. ASSUME Moves(t), loc'[t].pc \in DerefLabels \union {"idle"},
             loc'[t].op = (IF loc'[t].pc = "idle" THEN "none" ELSE "deref"),
             loc[t].op \in {"none", "deref"}, loc[t].inside, loc[t].pc # "reenter",
             loc'[t].inside = loc[t].inside, loc'[t].vec = loc[t].vec,
             loc'[t].last = loc[t].last, loc'[t].list = loc[t].list,
             SameWalks(loc[t], loc'[t]), SameRetire(loc[t], loc'[t]),
             EpochOK(t)'
      PROVE  NextOK(t)
  <2>1. ControlOK(t)'
    BY <1>1, <1>3 DEF ControlOK, EnterLabels, DerefLabels, LeaveLabels, RetireLabels
  <2>2. LocalsOK(t)'
    BY <1>1, <1>3 DEF LocalsOK, SameWalks, SameRetire, DerefLabels, LeaveLabels
  <2>3. RetireOK(t)'
    <3>1. loc[t].pc \notin RetireLabels
      BY <1>1, <1>3 DEF ControlOK
    <3> QED
      BY <1>1, <1>3, <3>1 DEF RetireOK, SameRetire, DerefLabels, RetireLabels
  <2> QED
    BY <1>3, <2>1, <2>2, <2>3 DEF NextOK
<1>4. CASE Deref(t) /\ access' = access
  <2>1. /\ Moves(t) /\ loc[t].pc = "idle" /\ loc[t].inside
        /\ loc'[t].pc = "derefLoad" /\ loc'[t].op = "deref"
        /\ loc'[t].last = loc[t].last /\ loc'[t].list = loc[t].list
        /\ SameClient(loc[t], loc'[t]) /\ SameWalks(loc[t], loc'[t])
        /\ loc'[t].acc = access[loc[t].vec] /\ SameRetire(loc[t], loc'[t])
    BY <1>1, <1>4, DerefDoes
  <2>2. EpochOK(t)'
    BY <1>2, <1>4, <2>1 DEF EpochOK, SameClient
  <2>3. loc[t].op = "none"
    BY <1>1, <2>1 DEF ControlOK
  <2> QED
    BY <1>3, <2>1, <2>2, <2>3 DEF SameClient, DerefLabels
<1>5. CASE DerefLoad(t) /\ access' = access
  <2>1. /\ Moves(t) /\ loc[t].pc = "derefLoad" /\ loc'[t].pc = "derefEpoch"
        /\ loc'[t].op = loc[t].op /\ loc'[t].last = loc[t].last
        /\ loc'[t].list = loc[t].list /\ SameClient(loc[t], loc'[t])
        /\ SameWalks(loc[t], loc'[t]) /\ loc'[t].acc = loc[t].acc
        /\ SameRetire(loc[t], loc'[t])
    BY <1>1, <1>5, DerefLoadDoes
  <2>2. EpochOK(t)'
    BY <1>1, <1>2, <1>5, <2>1 DEF EpochOK, SameClient, DerefLabels
  <2>3. loc[t].op = "deref" /\ loc[t].inside
    BY <1>1, <2>1 DEF ControlOK, DerefLabels
  <2> QED
    BY <1>3, <2>1, <2>2, <2>3 DEF SameClient, DerefLabels
<1>6. CASE DerefEpoch(t) /\ access' = access
  <2>1. /\ Moves(t) /\ loc[t].pc = "derefEpoch" /\ loc'[t].last = loc[t].last
        /\ loc'[t].list = loc[t].list /\ loc'[t].inside = loc[t].inside
        /\ loc'[t].vec = loc[t].vec
        /\ SameWalks(loc[t], loc'[t]) /\ SameRetire(loc[t], loc'[t])
        /\ loc[t].acc = global => loc'[t].pc = "idle" /\ loc'[t].op = "none"
        /\ loc[t].acc # global =>
             /\ loc'[t].pc = "derefAccess" /\ loc'[t].op = loc[t].op
             /\ loc'[t].acc = loc[t].acc /\ loc'[t].glob = global
    BY <1>1, <1>6, DerefEpochDoes
  <2>2. EpochOK(t)'
    BY <1>1, <1>2, <1>6, <2>1 DEF EpochOK, DerefLabels
  <2>3. loc[t].op = "deref" /\ loc[t].inside
    BY <1>1, <2>1 DEF ControlOK, DerefLabels
  <2> QED
    BY <1>3, <2>1, <2>2, <2>3 DEF DerefLabels
<1>7. CASE DerefAccess(t)
  <2>1. /\ Moves(t) /\ loc[t].pc = "derefAccess" /\ loc'[t].op = loc[t].op
        /\ loc'[t].last = loc[t].last /\ loc'[t].list = loc[t].list
        /\ SameClient(loc[t], loc'[t]) /\ SameWalks(loc[t], loc'[t])
        /\ SameRetire(loc[t], loc'[t])
        /\ access[loc[t].vec] = loc[t].acc =>
             loc'[t].pc = "derefLoad" /\ loc'[t].acc = loc[t].glob
        /\ (access[loc[t].vec] # loc[t].acc /\ access[loc[t].vec] >= loc[t].glob) =>
             loc'[t].pc = "derefLoad" /\ loc'[t].acc = access[loc[t].vec]
        /\ (access[loc[t].vec] # loc[t].acc /\ ~(access[loc[t].vec] >= loc[t].glob)) =>
             /\ loc'[t].pc = "derefAccess" /\ loc'[t].acc = access[loc[t].vec]
             /\ loc'[t].glob = loc[t].glob
    BY <1>1, <1>7, DerefAccessDoes
  <2>2. access' = IF access[loc[t].vec] = loc[t].acc
                  THEN [access EXCEPT ![loc[t].vec] = loc[t].glob] ELSE access
    BY <1>7 DEF DerefAccess
  <2>3. EpochOK(t)'
    BY <1>1, <1>2, <2>1, <2>2 DEF EpochOK, SameClient, DerefLabels
  <2>4. loc[t].op = "deref" /\ loc[t].inside
    BY <1>1, <2>1 DEF ControlOK, DerefLabels
  <2>5. loc'[t].pc \in DerefLabels
    BY <2>1 DEF DerefLabels
  <2> QED
    BY <1>3, <2>1, <2>3, <2>4, <2>5 DEF SameClient, DerefLabels
<1> QED
  BY <1>4, <1>5, <1>6, <1>7

\* A thread that leaves or walks, from the locals l to those of the next state.
LEMMA ThreadGoes ==
    ASSUME Base, NEW t \in Threads, Moves(t), covers' = covers,
           loc[t].op \in {"none", "leave", "nested", "trim", "trimLeft"},
           SameRetire(loc[t], loc'[t]), loc'[t].pc \notin RetireLabels \union DerefLabels,
           ControlOK(t)', LocalsOK(t)'
    PROVE  NextOK(t)
<1>1. LocalsOK(t) /\ ControlOK(t)
  BY ThreadNow
<1>2. loc[t].pc \notin {"retireAdjust", "retireCount"} /\ loc'[t].into = {}
  BY <1>1 DEF LocalsOK, ControlOK, SameRetire, RetireLabels
<1> QED
  BY <1>2, ThreadPlain DEF NextOK

\* traverse or __leave returns.
LEMMA ThreadReturns ==
    ASSUME Base, NEW t \in Threads, Moves(t), covers' = covers,
           NEW l \in Local, Returned(l, loc'[t]), l.op = loc[t].op,
           SameClient(loc[t], l), l.outer = loc[t].outer, l.thr = loc[t].thr,
           SameRetire(loc[t], l), IsFiniteSet(l.list),
           loc[t].op \in WalkOps,
           loc[t].pc \notin {"leaveLoad", "trimRead"}
    PROVE  NextOK(t)
<1>1. ControlOK(t) /\ LocalsOK(t)
  BY ThreadNow
<1>2. /\ SameClient(loc[t], loc'[t]) /\ SameRetire(loc[t], loc'[t])
      /\ IsFiniteSet(loc'[t].list)
      /\ loc[t].op = "nested" =>
           /\ loc'[t].op = "trimLeft" /\ loc'[t].thr = 0 /\ loc'[t].outer = NoWalk
           /\ loc'[t].pc \in {"ack", "travRead"} /\ ~loc[t].inside
      /\ loc[t].op # "nested" =>
           /\ loc'[t].op = loc[t].op /\ loc'[t].thr = loc[t].thr
           /\ loc'[t].walk = NoWalk /\ loc'[t].outer = loc[t].outer /\ loc'[t].pc = "free"
  BY <1>1 DEF Returned, SameClient, SameRetire, ControlOK
<1>3. ControlOK(t)'
  BY <1>1, <1>2 DEF ControlOK, SameClient, WalkOps, EnterLabels, DerefLabels, LeaveLabels,
                    RetireLabels
<1>4. LocalsOK(t)'
  BY <1>1, <1>2 DEF LocalsOK, SameRetire, WalkOps, LeaveLabels
<1>5. loc'[t].pc \notin RetireLabels \union DerefLabels
  BY <1>2 DEF RetireLabels, DerefLabels
<1> QED
  BY <1>2, <1>3, <1>4, <1>5, ThreadGoes DEF WalkOps

\* The tail of __leave.
LEMMA ThreadTraverses ==
    ASSUME Base, NEW t \in Threads, Moves(t), covers' = covers,
           NEW l \in Local, Traversed(l, loc'[t]), l.op = loc[t].op, l.last = loc[t].last,
           SameClient(loc[t], l), SameWalks(loc[t], l), SameRetire(loc[t], l),
           IsFiniteSet(l.list), loc[t].pc \in LeaveLabels
    PROVE  NextOK(t)
<1>1. ControlOK(t) /\ LocalsOK(t) /\ loc[t].op \in {"leave", "nested"} /\ ~loc[t].inside
  BY ThreadNow DEF ControlOK, LeaveLabels
<1>2. CASE l.last.ptr # l.smr
  <2>1. /\ SameClient(loc[t], loc'[t]) /\ SameRetire(loc[t], loc'[t])
        /\ IsFiniteSet(loc'[t].list) /\ loc'[t].op = loc[t].op /\ loc'[t].thr = loc[t].thr
        /\ loc'[t].outer = loc[t].outer /\ loc'[t].pc = "travRead"
    BY <1>2 DEF Traversed, SameClient, SameWalks, SameRetire
  <2>2. ControlOK(t)'
    BY <1>1, <2>1 DEF ControlOK, SameClient, EnterLabels, DerefLabels, LeaveLabels,
                      RetireLabels
  <2>3. LocalsOK(t)'
    BY <1>1, <2>1 DEF LocalsOK, SameRetire, LeaveLabels
  <2>4. loc'[t].pc \notin RetireLabels \union DerefLabels
    BY <2>1 DEF RetireLabels, DerefLabels
  <2> QED
    BY <1>1, <2>1, <2>2, <2>3, <2>4, ThreadGoes
<1>3. CASE l.last.ptr = l.smr
  <2>1. Returned(l, loc'[t]) /\ loc[t].op \in WalkOps
    BY <1>1, <1>3 DEF Traversed, WalkOps
  <2>2. l.outer = loc[t].outer /\ l.thr = loc[t].thr /\ loc[t].pc \notin {"leaveLoad", "trimRead"}
    BY DEF SameWalks, LeaveLabels
  <2> QED
    BY <2>1, <2>2, ThreadReturns
<1> QED
  BY <1>2, <1>3

\* A head word has been loaded.
LEMMA ThreadLoads ==
    ASSUME Base, NEW t \in Threads, Moves(t), covers' = covers,
           loc'[t].inside = FALSE, loc'[t].holds = {},
           loc'[t].op = (IF loc[t].op = "nested" THEN "nested" ELSE "leave"),
           SameWalks(loc[t], loc'[t]), SameRetire(loc[t], loc'[t]),
           loc'[t].list = loc[t].list, loc'[t].pc \in {"leaveRead", "leaveCas"},
           loc[t].pc \in {"idle", "leaveLoad", "leaveCas"}
    PROVE  NextOK(t)
<1>1. ControlOK(t) /\ LocalsOK(t)
  BY ThreadNow
<1>2. loc[t].op \in {"none", "leave", "nested"}
  BY <1>1 DEF ControlOK, LeaveLabels
<1>3. ControlOK(t)'
  BY <1>1, <1>2 DEF ControlOK, EnterLabels, DerefLabels, LeaveLabels, RetireLabels
<1>4. LocalsOK(t)'
  <2>1. loc'[t].walk = [NoWalk EXCEPT !.nxt = loc'[t].walk.nxt]
    <3>1. CASE loc[t].pc = "leaveCas"
      <4>1. loc[t].walk = [NoWalk EXCEPT !.nxt = loc[t].walk.nxt]
        BY <1>1, <3>1 DEF LocalsOK, LeaveLabels
      <4> QED
        BY <4>1 DEF SameWalks
    <3>2. CASE loc[t].pc # "leaveCas"
      <4>1. loc[t].op = "none" \/ loc[t].pc = "leaveLoad"
        BY <1>1, <3>2 DEF ControlOK
      <4>2. loc[t].walk = NoWalk
        BY <1>1, <4>1 DEF LocalsOK
      <4>3. NoWalk = [NoWalk EXCEPT !.nxt = NoWalk.nxt]
        BY DEF NoWalk
      <4> QED
        BY <4>2, <4>3 DEF SameWalks
    <3> QED
      BY <3>1, <3>2
  <2> QED
    BY <1>1, <1>2, <2>1 DEF LocalsOK, SameWalks, SameRetire, LeaveLabels
<1>5. loc'[t].pc \notin RetireLabels \union DerefLabels
  BY DEF RetireLabels, DerefLabels
<1> QED
  BY <1>2, <1>3, <1>4, <1>5, ThreadGoes

\* The steps of leave keep what holds of their thread.
LEMMA ThreadLeaves ==
    ASSUME Base, NEW t \in Threads, covers' = covers,
           LeaveLoad(t) \/ LeaveRead(t) \/ LeaveCas(t) \/ LeaveClear(t) \/ LeaveAdjust(t)
    PROVE  NextOK(t)
<1>1. /\ TypeOK /\ ControlOK(t) /\ LocalsOK(t) /\ loc[t] \in Local
  BY ThreadNow
<1>2. CASE LeaveLoad(t)
  BY <1>1, <1>2, LeaveLoadDoes, ThreadLoads
<1>3. CASE LeaveRead(t)
  <2>1. loc[t].last.ptr \in Batches
    BY <1>3, Addresses DEF LeaveRead, At
  <2>2. /\ Moves(t) /\ loc[t].pc = "leaveRead" /\ loc'[t].pc = "leaveCas"
        /\ loc'[t].op = loc[t].op /\ loc'[t].last = loc[t].last
        /\ loc'[t].list = loc[t].list /\ SameClient(loc[t], loc'[t])
        /\ loc'[t].walk.curr = loc[t].walk.curr /\ loc'[t].walk.end = loc[t].walk.end
        /\ loc'[t].walk.counter = loc[t].walk.counter
        /\ loc'[t].outer = loc[t].outer /\ loc'[t].thr = loc[t].thr
        /\ SameRetire(loc[t], loc'[t]) /\ loc'[t] \in Local
    BY <1>1, <1>3, <2>1, LeaveReadDoes DEF Moves
  <2>3. ControlOK(t)'
    BY <1>1, <2>2 DEF ControlOK, SameClient, EnterLabels, DerefLabels, LeaveLabels,
                      RetireLabels
  <2>4. LocalsOK(t)'
    <3>1. loc'[t].walk = [NoWalk EXCEPT !.nxt = loc'[t].walk.nxt]
      <4>1. loc[t].walk = [NoWalk EXCEPT !.nxt = loc[t].walk.nxt]
        BY <1>1, <2>2 DEF LocalsOK, LeaveLabels
      <4>2. loc[t].walk.curr = NULL /\ loc[t].walk.end = NULL /\ loc[t].walk.counter = 0
        BY <4>1 DEF NoWalk
      <4>3. loc'[t].walk \in Walk
        BY <2>2, Fields
      <4> QED
        BY <2>2, <4>2, <4>3 DEF Walk, NoWalk
    <3>2. loc[t].op \in {"leave", "nested"}
      BY <1>1, <2>2 DEF ControlOK, LeaveLabels
    <3> QED
      BY <1>1, <2>2, <3>1, <3>2 DEF LocalsOK, SameRetire, LeaveLabels
  <2>5. loc[t].op \in {"leave", "nested"}
    BY <1>1, <2>2 DEF ControlOK, LeaveLabels
  <2>6. loc'[t].pc \notin RetireLabels \union DerefLabels
    BY <2>2 DEF RetireLabels, DerefLabels
  <2> QED
    BY <2>2, <2>3, <2>4, <2>5, <2>6, ThreadGoes
<1>4. ASSUME Moves(t), loc[t].pc \in {"leaveCas", "leaveClear"},
             SameClient(loc[t], loc'[t]), SameWalks(loc[t], loc'[t]),
             SameRetire(loc[t], loc'[t]), loc'[t].list = loc[t].list,
             loc'[t].op = loc[t].op, loc'[t].pc \in {"leaveClear", "leaveAdjust"}
      PROVE  NextOK(t)
  <2>1. loc[t].op \in {"leave", "nested"}
    BY <1>1, <1>4 DEF ControlOK, LeaveLabels
  <2>2. ControlOK(t)'
    BY <1>1, <1>4, <2>1 DEF ControlOK, SameClient, EnterLabels, DerefLabels, LeaveLabels,
                            RetireLabels
  <2>3. LocalsOK(t)'
    BY <1>1, <1>4, <2>1 DEF LocalsOK, SameWalks, SameRetire, LeaveLabels
  <2>4. loc'[t].pc \notin RetireLabels \union DerefLabels
    BY <1>4 DEF RetireLabels, DerefLabels
  <2> QED
    BY <1>4, <2>1, <2>2, <2>3, <2>4, ThreadGoes
<1>5. ASSUME Moves(t), Traversed(loc[t], loc'[t]), loc[t].pc \in LeaveLabels PROVE NextOK(t)
  <2>1. IsFiniteSet(loc[t].list)
    BY <1>1 DEF LocalsOK
  <2> QED
    BY <1>1, <1>5, <2>1, ThreadTraverses DEF SameClient, SameWalks, SameRetire
<1>6. CASE LeaveCas(t)
  <2>1. Moves(t) /\ loc[t].pc = "leaveCas"
    BY <1>1, <1>6, LeaveCasDoes
  <2>2. CASE head[loc[t].vec] # loc[t].last
    <3>1. Loaded(loc[t], loc'[t], head[loc[t].vec])
      BY <1>1, <1>6, <2>2, LeaveCasDoes
    <3>2. loc[t].op \in {"leave", "nested"} /\ ~loc[t].inside /\ loc[t].holds = {}
      BY <1>1, <2>1 DEF ControlOK, LeaveLabels
    <3>3. loc'[t].inside = FALSE
      <4>1. loc[t].inside \in BOOLEAN
        BY <1>1, Fields
      <4> QED
        BY <3>1, <3>2, <4>1 DEF Loaded, SameClient
    <3> QED
      BY <2>1, <3>1, <3>2, <3>3, ThreadLoads DEF Loaded, SameClient
  <2>3. CASE head[loc[t].vec] = loc[t].last
    <3> DEFINE out == HeadAfterLeave(loc[t].last).refs = 0 /\ loc[t].last.ptr # NULL
    <3>1. /\ out => /\ SameClient(loc[t], loc'[t]) /\ SameWalks(loc[t], loc'[t])
                    /\ SameRetire(loc[t], loc'[t])
                    /\ loc'[t].list = loc[t].list /\ loc'[t].op = loc[t].op
                    /\ loc'[t].pc \in {"leaveClear", "leaveAdjust"}
          /\ ~out => Traversed(loc[t], loc'[t])
      BY <1>1, <1>6, <2>3, LeaveCasDoes
    <3> HIDE DEF out
    <3>2. loc[t].pc \in LeaveLabels
      BY <2>1 DEF LeaveLabels
    <3> QED
      BY <1>4, <1>5, <2>1, <3>1, <3>2
  <2> QED
    BY <2>2, <2>3
<1>7. CASE LeaveClear(t)
  <2>1. /\ Moves(t) /\ loc[t].pc = "leaveClear"
        /\ \/ /\ SameClient(loc[t], loc'[t]) /\ SameWalks(loc[t], loc'[t])
              /\ SameRetire(loc[t], loc'[t])
              /\ loc'[t].list = loc[t].list /\ loc'[t].op = loc[t].op
              /\ loc'[t].pc = "leaveAdjust"
           \/ Traversed(loc[t], loc'[t])
    BY <1>1, <1>7, LeaveClearDoes
  <2>2. loc[t].pc \in LeaveLabels
    BY <2>1 DEF LeaveLabels
  <2> QED
    BY <1>4, <1>5, <2>1, <2>2
<1>8. CASE LeaveAdjust(t)
  <2>1. loc[t].last.ptr \in Batches
    BY <1>8, Addresses DEF LeaveAdjust, At
  <2>2. /\ Moves(t) /\ loc[t].pc = "leaveAdjust"
        /\ loc'[t].list = Collected(loc[t].list, loc[t].last.ptr, Addend)
    BY <1>1, <1>8, <2>1, LeaveAdjustDoes
  <2>3. PICK l \in Local :
                /\ Traversed(l, loc'[t])
                /\ SameClient(loc[t], l) /\ SameWalks(loc[t], l)
                /\ SameDeref(loc[t], l) /\ SameRetire(loc[t], l)
                /\ l.op = loc[t].op /\ l.last = loc[t].last
    BY <1>1, <1>8, <2>1, LeaveAdjustDoes
  <2>4. loc'[t].list = l.list
    <3>1. CASE l.last.ptr # l.smr
      BY <2>3, <3>1 DEF Traversed, SameRetire
    <3>2. CASE l.last.ptr = l.smr
      <4>1. Returned(l, loc'[t])
        BY <2>3, <3>2 DEF Traversed
      <4> QED
        BY <4>1 DEF Returned
    <3> QED
      BY <3>1, <3>2
  <2>5. IsFiniteSet(l.list)
    <3>1. IsFiniteSet(loc[t].list)
      BY <1>1 DEF LocalsOK
    <3>2. IsFiniteSet(Collected(loc[t].list, loc[t].last.ptr, Addend))
      BY <3>1, ListsFinite
    <3> QED
      BY <2>2, <2>4, <3>2
  <2>6. loc[t].pc \in LeaveLabels /\ Moves(t)
    BY <2>2 DEF LeaveLabels
  <2> QED
    BY <2>3, <2>5, <2>6, ThreadTraverses
<1> QED
  BY <1>2, <1>3, <1>6, <1>7, <1>8

\* A thread that walks.
LEMMA ThreadWalks ==
    ASSUME Base, NEW t \in Threads, covers' = covers,
           \/ \E th \in TrimThresholds : Trim(t, th)
           \/ TrimRead(t) \/ TravRead(t) \/ TravDrop(t) \/ Ack(t)
    PROVE  NextOK(t)
<1>1. /\ TypeOK /\ ControlOK(t) /\ LocalsOK(t) /\ loc[t] \in Local
  BY ThreadNow
<1>2. CASE \E th \in TrimThresholds : Trim(t, th)
  <2> DEFINE x == head[loc[t].vec].ptr
  <2>1. PICK th \in TrimThresholds : Trim(t, th)
    BY <1>2
  <2>2. /\ Moves(t) /\ loc[t].pc = "idle" /\ loc[t].inside /\ loc'[t].inside = TRUE
        /\ loc'[t].holds = {} /\ loc'[t].vec = loc[t].vec
        /\ loc'[t].list = loc[t].list /\ loc'[t].outer = loc[t].outer
        /\ loc'[t].last = loc[t].last /\ SameRetire(loc[t], loc'[t])
        /\ x = loc[t].smr =>
             /\ loc'[t].op = loc[t].op /\ loc'[t].pc = "idle"
             /\ SameWalks(loc[t], loc'[t])
        /\ x # loc[t].smr =>
             /\ loc'[t].op = "trim" /\ loc'[t].pc = "trimRead"
             /\ loc'[t].walk.curr = loc[t].walk.curr
             /\ loc'[t].walk.nxt = loc[t].walk.nxt
             /\ loc'[t].walk.counter = loc[t].walk.counter
    BY <1>1, <2>1, TrimDoes
  <2> HIDE DEF x
  <2>3. loc[t].op = "none" /\ loc[t].walk = NoWalk
    BY <1>1, <2>2 DEF ControlOK, LocalsOK
  <2>4. ControlOK(t)'
    BY <1>1, <2>2, <2>3 DEF ControlOK, EnterLabels, DerefLabels, LeaveLabels, RetireLabels
  <2>5. loc'[t].op = "trim" => loc'[t].walk = [NoWalk EXCEPT !.end = loc'[t].walk.end]
    <3>1. SUFFICES ASSUME x # loc[t].smr
                   PROVE  loc'[t].walk = [NoWalk EXCEPT !.end = loc'[t].walk.end]
      BY <2>2, <2>3
    <3>2. loc'[t].walk \in Walk
      BY <2>2, Fields DEF Moves
    <3> QED
      BY <2>2, <2>3, <3>1, <3>2 DEF Walk, NoWalk
  <2>6. LocalsOK(t)'
    <3>1. CASE x = loc[t].smr
      BY <1>1, <2>2, <2>3, <3>1 DEF LocalsOK, SameWalks, SameRetire, LeaveLabels
    <3>2. CASE x # loc[t].smr
      BY <1>1, <2>2, <2>3, <2>5, <3>2 DEF LocalsOK, SameRetire, LeaveLabels
    <3> QED
      BY <3>1, <3>2
  <2>7. loc'[t].pc \notin RetireLabels \union DerefLabels
    BY <2>2 DEF RetireLabels, DerefLabels
  <2> QED
    BY <2>2, <2>3, <2>4, <2>6, <2>7, ThreadGoes
<1>3. CASE TrimRead(t)
  <2>1. loc[t].smr \in Batches
    BY <1>3, Addresses DEF TrimRead, At
  <2>2. /\ Moves(t) /\ loc[t].pc = "trimRead" /\ loc'[t].pc = "travRead"
        /\ SameClient(loc[t], loc'[t])
        /\ SameRetire(loc[t], loc'[t]) /\ loc'[t].list = loc[t].list
        /\ loc'[t].last = loc[t].last /\ loc'[t].op = loc[t].op
        /\ loc'[t].thr = loc[t].thr /\ loc'[t].outer = loc[t].outer
    BY <1>1, <1>3, <2>1, TrimReadDoes
  <2>3. loc[t].op = "trim"
    BY <1>1, <2>2 DEF ControlOK
  <2>4. ControlOK(t)'
    BY <1>1, <2>2, <2>3 DEF ControlOK, SameClient, EnterLabels, DerefLabels, LeaveLabels, RetireLabels
  <2>5. LocalsOK(t)'
    BY <1>1, <2>2, <2>3 DEF LocalsOK, SameRetire, LeaveLabels
  <2>7. loc'[t].pc \notin RetireLabels \union DerefLabels
    BY <2>2 DEF RetireLabels, DerefLabels
  <2> QED
    BY <2>2, <2>3, <2>4, <2>5, <2>7, ThreadGoes
<1>4. CASE TravRead(t)
  <2>2. /\ Moves(t) /\ loc[t].pc = "travRead" /\ loc'[t].pc \in {"ack", "travDrop"}
        /\ SameClient(loc[t], loc'[t])
        /\ SameRetire(loc[t], loc'[t]) /\ loc'[t].list = loc[t].list
        /\ loc'[t].last = loc[t].last /\ loc'[t].op = loc[t].op
        /\ loc'[t].thr = loc[t].thr /\ loc'[t].outer = loc[t].outer
    BY <1>1, <1>4, TravReadDoes
  <2>3. loc[t].op \in {"leave", "nested", "trim", "trimLeft"}
    <3>1. loc[t].op \in Ops
      BY <1>1, Fields
    <3> QED
      BY <1>1, <2>2, <3>1 DEF ControlOK, Ops, EnterLabels, DerefLabels, RetireLabels
  <2>4. ControlOK(t)'
    BY <1>1, <2>2, <2>3 DEF ControlOK, SameClient, EnterLabels, DerefLabels, LeaveLabels, RetireLabels
  <2>5. LocalsOK(t)'
    BY <1>1, <2>2, <2>3 DEF LocalsOK, SameRetire, LeaveLabels
  <2>7. loc'[t].pc \notin RetireLabels \union DerefLabels
    BY <2>2 DEF RetireLabels, DerefLabels
  <2> QED
    BY <2>2, <2>3, <2>4, <2>5, <2>7, ThreadGoes
<1>5. CASE TravDrop(t)
  <2> DEFINE b == loc[t].walk.curr
             c == Collected(loc[t].list, b, MinusOne)
             flush == /\ loc[t].op = "trim" /\ loc[t].thr > 0
                      /\ b \in c /\ Cardinality(c) >= loc[t].thr
  <2>1. b \in Batches
    BY <1>5, Addresses DEF TravDrop, At
  <2>2. /\ Moves(t) /\ loc[t].pc = "travDrop" /\ SameClient(loc[t], loc'[t])
        /\ SameRetire(loc[t], loc'[t]) /\ loc'[t].last = loc[t].last
        /\ loc'[t].list = c
        /\ flush => /\ loc'[t].op = "nested" /\ loc'[t].walk = NoWalk
                    /\ loc'[t].pc = "leaveLoad"
        /\ ~flush => /\ loc'[t].op = loc[t].op /\ loc'[t].outer = loc[t].outer
                     /\ loc'[t].pc \in {"ack", "travRead"}
    BY <1>1, <1>5, <2>1, TravDropDoes
  <2>3. flush => loc[t].op = "trim" /\ loc[t].inside
    BY <1>1 DEF ControlOK
  <2>4. IsFiniteSet(c)
    BY <1>1, ListsFinite DEF LocalsOK
  <2> HIDE DEF flush, c
  <2>5. loc[t].op \in {"leave", "nested", "trim", "trimLeft"}
    <3>1. loc[t].op \in Ops
      BY <1>1, Fields
    <3> QED
      BY <1>1, <2>2, <3>1 DEF ControlOK, Ops, EnterLabels, DerefLabels, RetireLabels
  <2>6. ControlOK(t)'
    <3>1. CASE flush
      BY <1>1, <2>2, <2>3, <3>1 DEF ControlOK, SameClient, EnterLabels, DerefLabels, LeaveLabels, RetireLabels
    <3>2. CASE ~flush
      BY <1>1, <2>2, <2>5, <3>2 DEF ControlOK, SameClient, EnterLabels, DerefLabels, LeaveLabels, RetireLabels
    <3> QED
      BY <3>1, <3>2
  <2>7. LocalsOK(t)'
    <3>1. CASE flush
      BY <1>1, <2>2, <2>3, <2>4, <3>1 DEF LocalsOK, SameRetire, LeaveLabels
    <3>2. CASE ~flush
      BY <1>1, <2>2, <2>4, <2>5, <3>2 DEF LocalsOK, SameRetire, LeaveLabels
    <3> QED
      BY <3>1, <3>2
  <2>8. loc'[t].pc \notin RetireLabels \union DerefLabels
    BY <2>2 DEF RetireLabels, DerefLabels
  <2> QED
    BY <2>2, <2>5, <2>6, <2>7, <2>8, ThreadGoes
<1>6. CASE Ack(t)
  <2>1. Moves(t) /\ loc[t].pc = "ack" /\ Returned(loc[t], loc'[t])
    BY <1>1, <1>6, AckDoes
  <2>2. loc[t].op \in WalkOps
    <3>1. loc[t].op \in Ops
      BY <1>1, Fields
    <3> QED
      BY <1>1, <2>1, <3>1 DEF ControlOK, Ops, WalkOps, EnterLabels, DerefLabels, RetireLabels
  <2>3. IsFiniteSet(loc[t].list)
    BY <1>1 DEF LocalsOK
  <2>4. SameClient(loc[t], loc[t]) /\ SameRetire(loc[t], loc[t])
    BY DEF SameClient, SameRetire
  <2> QED
    BY <1>1, <2>1, <2>2, <2>3, <2>4, ThreadReturns
<1> QED
  BY <1>2, <1>3, <1>4, <1>5, <1>6

\* What a retirement keeps as long as its batch and epoch stay.
LEMMA ThreadStaysRetiring ==
    ASSUME Base, NEW t \in Threads, Moves(t), loc[t].pc \in RetireLabels,
           SameClient(loc[t], loc'[t]), SameWalks(loc[t], loc'[t]),
           loc'[t].op = loc[t].op, IsFiniteSet(loc'[t].list),
           loc'[t].pc \in RetireLabels \union {"free"},
           loc'[t].batch = loc[t].batch, loc'[t].min = loc[t].min,
           birth'[loc[t].batch] = birth[loc[t].batch],
           loc'[t].into \subseteq 0 .. loc'[t].slot,
           loc'[t].pc \in {"retireAccess", "retireLoad", "retireCas"} =>
               loc'[t].slot \notin loc'[t].into,
           loc'[t].pc \in {"retireAdjust", "retireCount"} =>
               loc'[t].slot \in loc'[t].into /\ loc'[t].last.refs = Cardinality(covers'[t]),
           loc'[t].pc \notin {"retireAdjust", "retireCount"} => covers'[t] = {},
           loc'[t].pc = "retireFinish" => loc'[t].doAdjs
    PROVE  NextOK(t)
<1>1. /\ TypeOK /\ ControlOK(t) /\ LocalsOK(t) /\ RetireOK(t) /\ loc[t].op = "retire"
  BY RetirerNow
<1>2. ControlOK(t)'
  BY <1>1 DEF ControlOK, SameClient, EnterLabels, DerefLabels, LeaveLabels, RetireLabels
<1>3. LocalsOK(t)'
  BY <1>1 DEF LocalsOK, SameWalks, LeaveLabels, RetireLabels
<1>4. RetireOK(t)'
  <2>1. loc[t].batch # NULL /\ loc[t].min <= birth[loc[t].batch]
    BY <1>1 DEF RetireOK
  <2> QED
    BY <2>1 DEF RetireOK
<1>5. EpochOK(t)'
  BY DEF EpochOK, RetireLabels, DerefLabels
<1> QED
  BY <1>2, <1>3, <1>4, <1>5 DEF NextOK

\* The loop goes on to the next slot.
LEMMA ThreadAdvances ==
    ASSUME Base, NEW t \in Threads, Moves(t), loc[t].pc \in RetireLabels \ {"retireFinish"},
           NEW d \in BOOLEAN, Advanced(loc[t], loc'[t], d), covers'[t] = {},
           loc'[t].doAdjs = d, birth'[loc[t].batch] = birth[loc[t].batch]
    PROVE  NextOK(t)
<1>1. /\ TypeOK /\ LocalsOK(t) /\ RetireOK(t) /\ loc[t].op = "retire"
      /\ loc[t] \in Local
  BY RetirerNow
<1>2. loc[t].slot \in 0 .. NumSlots - 1 /\ NumSlots \in Nat
  BY <1>1, Fields, Constants
<1>3. loc[t].into \subseteq 0 .. loc[t].slot /\ IsFiniteSet(loc'[t].list)
  BY <1>1 DEF RetireOK, LocalsOK, Advanced
<1>4. /\ loc'[t].into \subseteq 0 .. loc'[t].slot
      /\ loc'[t].pc \in {"retireAccess", "retireFinish", "free"}
      /\ loc'[t].pc = "retireAccess" => loc'[t].slot \notin loc'[t].into
      /\ loc'[t].pc = "retireFinish" => loc'[t].doAdjs
  <2>1. CASE loc'[t].slot = loc[t].slot + 1 /\ loc'[t].pc = "retireAccess"
    BY <1>2, <1>3, <2>1 DEF Advanced
  <2>2. CASE /\ loc'[t].slot = loc[t].slot
             /\ loc'[t].pc = IF d THEN "retireFinish" ELSE "free"
    BY <1>2, <1>3, <2>2 DEF Advanced
  <2> QED
    BY <2>1, <2>2 DEF Advanced
<1>5. /\ SameClient(loc[t], loc'[t]) /\ SameWalks(loc[t], loc'[t])
      /\ loc'[t].op = loc[t].op /\ loc'[t].batch = loc[t].batch /\ loc'[t].min = loc[t].min
  BY DEF Advanced
<1>6. loc'[t].pc \in RetireLabels \union {"free"}
  BY <1>4 DEF RetireLabels
<1> QED
  BY <1>3, <1>4, <1>5, <1>6, ThreadStaysRetiring

\* A head word has been loaded.
LEMMA ThreadTries ==
    ASSUME Base, NEW t \in Threads, Moves(t), loc[t].pc \in {"retireLoad", "retireCas"},
           NEW w, Tried(loc[t], loc'[t], w), covers'[t] = covers[t],
           birth'[loc[t].batch] = birth[loc[t].batch]
    PROVE  NextOK(t)
<1>0. loc[t].pc \in RetireLabels \ {"retireFinish"}
  BY DEF RetireLabels
<1>1. LocalsOK(t) /\ RetireOK(t) /\ covers'[t] = {}
  BY <1>0, RetirerNow DEF RetireOK
<1>2. CASE w.refs = 0
  <2>1. Advanced(loc[t], loc'[t], TRUE) /\ loc'[t].doAdjs = TRUE
    BY <1>2 DEF Tried, Passed
  <2> QED
    BY <1>0, <1>1, <2>1, ThreadAdvances
<1>3. CASE w.refs # 0
  <2>1. /\ SameClient(loc[t], loc'[t]) /\ SameWalks(loc[t], loc'[t])
        /\ SameRetire(loc[t], loc'[t]) /\ loc'[t].op = loc[t].op
        /\ loc'[t].pc = "retireCas" /\ loc'[t].list = loc[t].list
    BY <1>3 DEF Tried
  <2>2. IsFiniteSet(loc'[t].list) /\ loc'[t].into \subseteq 0 .. loc'[t].slot
        /\ loc'[t].slot \notin loc'[t].into
    BY <1>1, <2>1 DEF LocalsOK, RetireOK, SameRetire
  <2>3. loc'[t].pc \in RetireLabels \union {"free"}
    BY <2>1 DEF RetireLabels
  <2> QED
    BY <1>0, <1>1, <2>1, <2>2, <2>3, ThreadStaysRetiring DEF SameRetire
<1> QED
  BY <1>2, <1>3

\* So do the steps of retire.
LEMMA ThreadRetires ==
    ASSUME Base, NEW t \in Threads, birth' = birth,
           \/ \E e \in 0 .. global : Retire(t, e) /\ covers' = covers
           \/ (RetireAccess(t) \/ RetireLoad(t) \/ RetireAdjust(t) \/ RetireFinish(t))
                /\ covers' = covers
           \/ RetireCas(t) \/ RetireCount(t)
    PROVE  NextOK(t)
<1>1. /\ TypeOK /\ ControlOK(t) /\ LocalsOK(t) /\ RetireOK(t) /\ loc[t] \in Local
  BY ThreadNow
<1>2. CASE \E e \in 0 .. global : Retire(t, e) /\ covers' = covers
  <2>1. PICK e \in 0 .. global : Retire(t, e) /\ covers' = covers
    BY <1>2
  <2>2. /\ Moves(t) /\ loc[t].pc = "idle" /\ loc[t].inside /\ root \in Batches
        /\ loc'[t].pc = "retireAccess" /\ loc'[t].op = "retire"
        /\ loc'[t].last = loc[t].last /\ loc'[t].list = loc[t].list
        /\ SameClient(loc[t], loc'[t]) /\ SameWalks(loc[t], loc'[t])
        /\ loc'[t].batch = root
        /\ loc'[t].min <= birth[root] /\ loc'[t].slot = loc[t].slot
        /\ loc'[t].adjs = loc[t].adjs /\ loc'[t].doAdjs = loc[t].doAdjs
        /\ loc'[t].into = loc[t].into
    BY <1>1, <2>1, RetireDoes
  <2>3. loc[t].op = "none" /\ loc[t].into = {} /\ covers[t] = {} /\ root # NULL
    BY <1>1, <2>2, Constants DEF ControlOK, LocalsOK, RetireOK
  <2>4. ControlOK(t)'
    BY <1>1, <2>2, <2>3 DEF ControlOK, SameClient, EnterLabels, DerefLabels, LeaveLabels, RetireLabels
  <2>5. LocalsOK(t)'
    BY <1>1, <2>2, <2>3 DEF LocalsOK, SameWalks, LeaveLabels
  <2>6. RetireOK(t)'
    BY <2>1, <2>2, <2>3 DEF RetireOK
  <2>7. EpochOK(t)'
    BY <2>2 DEF EpochOK, DerefLabels
  <2> QED
    BY <2>4, <2>5, <2>6, <2>7 DEF NextOK
<1>3. CASE RetireAccess(t) /\ covers' = covers
  <2>1. Moves(t) /\ loc[t].pc = "retireAccess" /\ loc[t].pc \in RetireLabels \ {"retireFinish"}
    BY <1>1, <1>3, RetireAccessDoes DEF RetireLabels
  <2>2. covers'[t] = {}
    BY <1>1, <1>3, <2>1 DEF RetireOK
  <2>3. CASE access[loc[t].slot] >= loc[t].min
    <3>1. /\ SameClient(loc[t], loc'[t]) /\ SameWalks(loc[t], loc'[t])
          /\ SameRetire(loc[t], loc'[t]) /\ loc'[t].list = loc[t].list
          /\ loc'[t].op = loc[t].op /\ loc'[t].pc = "retireLoad"
      BY <1>1, <1>3, <2>3, RetireAccessDoes
    <3>2. IsFiniteSet(loc'[t].list) /\ loc'[t].into \subseteq 0 .. loc'[t].slot
          /\ loc'[t].slot \notin loc'[t].into
      BY <1>1, <2>1, <3>1 DEF LocalsOK, RetireOK, SameRetire
    <3>3. loc'[t].pc \in RetireLabels \union {"free"}
      BY <3>1 DEF RetireLabels
    <3> QED
      BY <2>1, <2>2, <3>1, <3>2, <3>3, ThreadStaysRetiring DEF SameRetire
  <2>4. CASE ~(access[loc[t].slot] >= loc[t].min)
    <3>1. Advanced(loc[t], loc'[t], TRUE) /\ loc'[t].doAdjs = TRUE
      BY <1>1, <1>3, <2>4, RetireAccessDoes DEF Passed
    <3> QED
      BY <2>1, <2>2, <3>1, ThreadAdvances
  <2> QED
    BY <2>3, <2>4
<1>4. CASE RetireLoad(t) /\ covers' = covers
  <2>1. Moves(t) /\ loc[t].pc = "retireLoad" /\ Tried(loc[t], loc'[t], head[loc[t].slot])
    BY <1>1, <1>4, RetireLoadDoes
  <2> QED
    BY <1>4, <2>1, ThreadTries
<1>5. CASE RetireCas(t)
  <2>1. Moves(t) /\ loc[t].pc = "retireCas" /\ loc[t].pc \in RetireLabels
    BY <1>1, <1>5, RetireCasDoes DEF RetireLabels
  <2>2. CASE head[loc[t].slot] # loc[t].last
    <3>1. Tried(loc[t], loc'[t], head[loc[t].slot])
      BY <1>1, <1>5, <2>2, RetireCasDoes
    <3>2. covers' = covers
      BY <1>5, <2>2 DEF RetireCas
    <3> QED
      BY <2>1, <3>1, <3>2, ThreadTries
  <2>3. CASE head[loc[t].slot] = loc[t].last
    <3>1. /\ SameClient(loc[t], loc'[t]) /\ SameWalks(loc[t], loc'[t])
          /\ loc'[t].list = loc[t].list
          /\ loc'[t].op = loc[t].op /\ loc'[t].last = loc[t].last
          /\ loc'[t].batch = loc[t].batch /\ loc'[t].min = loc[t].min
          /\ loc'[t].slot = loc[t].slot
          /\ loc'[t].into = loc[t].into \union {loc[t].slot}
          /\ loc'[t].pc \in {"retireAdjust", "retireCount"}
      BY <1>1, <1>5, <2>3, RetireCasDoes
    <3>2. covers' = [covers EXCEPT ![t] = Inside(loc[t].slot)]
      BY <1>5, <2>3 DEF RetireCas
    <3>3. covers'[t] = Inside(loc[t].slot)
      BY <1>1, <3>2 DEF TypeOK
    <3>4. loc[t].slot \in Slots /\ Slots = 0 .. NumSlots - 1 /\ NumSlots \in Nat
      BY <1>1, Fields, Constants
    <3>5. loc'[t].last.refs = Cardinality(covers'[t])
      <4>1. P!SlotsAgree /\ loc[t].slot \in P!Slots
        BY <3>4, SameWords DEF Base, P!CoreInv
      <4>2. head[loc[t].slot].refs = P!Cardinality(P!Inside(loc[t].slot))
        BY <4>1 DEF P!SlotsAgree
      <4> QED
        BY <2>3, <3>1, <3>3, <4>2, SameInside, SameSize
    <3>6. loc'[t].into \subseteq 0 .. loc'[t].slot /\ loc'[t].slot \in loc'[t].into
          /\ IsFiniteSet(loc'[t].list)
      BY <1>1, <3>1, <3>4 DEF RetireOK, LocalsOK
    <3>7. loc'[t].pc \in RetireLabels \union {"free"}
      BY <3>1 DEF RetireLabels
    <3> QED
      BY <2>1, <3>1, <3>5, <3>6, <3>7, ThreadStaysRetiring
  <2> QED
    BY <2>2, <2>3
<1>6. CASE RetireAdjust(t) /\ covers' = covers
  <2>1. loc[t].last.ptr \in Batches
    BY <1>6, Addresses DEF RetireAdjust, At
  <2>2. /\ Moves(t) /\ loc[t].pc = "retireAdjust" /\ loc'[t].pc = "retireCount"
        /\ loc'[t].op = loc[t].op /\ loc'[t].last = loc[t].last
        /\ loc'[t].list = Collected(loc[t].list, loc[t].last.ptr, AddW(Addend, loc[t].last.refs))
        /\ SameClient(loc[t], loc'[t]) /\ SameWalks(loc[t], loc'[t])
        /\ SameRetire(loc[t], loc'[t])
    BY <1>1, <1>6, <2>1, RetireAdjustDoes
  <2>3. IsFiniteSet(loc[t].list)
    BY <1>1 DEF LocalsOK
  <2>4. IsFiniteSet(loc'[t].list)
    <3>1. IsFiniteSet(Collected(loc[t].list, loc[t].last.ptr, AddW(Addend, loc[t].last.refs)))
      BY <2>3, ListsFinite
    <3> QED
      BY <2>2, <3>1
  <2>5. loc[t].pc \in RetireLabels /\ loc'[t].pc \in RetireLabels \union {"free"}
    BY <2>2 DEF RetireLabels
  <2>6. /\ loc'[t].into \subseteq 0 .. loc'[t].slot /\ loc'[t].slot \in loc'[t].into
        /\ loc'[t].last.refs = Cardinality(covers'[t])
    BY <1>1, <1>6, <2>2 DEF RetireOK, SameRetire
  <2> QED
    BY <2>2, <2>4, <2>5, <2>6, ThreadStaysRetiring DEF SameRetire
<1>7. CASE RetireCount(t)
  <2>1. /\ Moves(t) /\ loc[t].pc = "retireCount"
        /\ Advanced(loc[t], loc'[t], loc[t].doAdjs) /\ loc'[t].doAdjs = loc[t].doAdjs
    BY <1>1, <1>7, RetireCountDoes
  <2>2. covers'[t] = {}
    BY <1>1, <1>7 DEF RetireCount, TypeOK
  <2>3. loc[t].pc \in RetireLabels \ {"retireFinish"} /\ loc[t].doAdjs \in BOOLEAN
    BY <1>1, <2>1, Fields DEF RetireLabels
  <2> QED
    BY <2>1, <2>2, <2>3, ThreadAdvances
<1>8. CASE RetireFinish(t) /\ covers' = covers
  <2>0. loc[t].pc = "retireFinish" /\ loc[t].pc \in RetireLabels
    BY <1>8 DEF RetireFinish, At, RetireLabels
  <2>1. loc[t].batch \in Batches
    BY <2>0, Addresses
  <2>2. /\ Moves(t) /\ loc'[t].pc = "free" /\ loc'[t].op = loc[t].op
        /\ loc'[t].list = Collected(loc[t].list, loc[t].batch, loc[t].adjs)
        /\ SameClient(loc[t], loc'[t]) /\ SameWalks(loc[t], loc'[t])
        /\ SameRetire(loc[t], loc'[t])
    BY <1>1, <1>8, <2>1, RetireFinishDoes
  <2>3. IsFiniteSet(loc[t].list)
    BY <1>1 DEF LocalsOK
  <2>4. IsFiniteSet(loc'[t].list)
    <3>1. IsFiniteSet(Collected(loc[t].list, loc[t].batch, loc[t].adjs))
      BY <2>3, ListsFinite
    <3> QED
      BY <2>2, <3>1
  <2>5. covers'[t] = {} /\ loc'[t].into \subseteq 0 .. loc'[t].slot
    BY <1>1, <1>8, <2>0, <2>2 DEF RetireOK, SameRetire
  <2> QED
    BY <2>0, <2>2, <2>4, <2>5, ThreadStaysRetiring DEF SameRetire
<1> QED
  BY <1>2, <1>3, <1>4, <1>5, <1>6, <1>7, <1>8

\* Every step leaves the locals in order.
LEMMA ThreadActs ==
    ASSUME Base, RetirerInv, NEW t \in Threads, Acts(t)
    PROVE  ThreadInv'
<1>1. /\ global' = global /\ (~RetireCas(t) /\ ~RetireCount(t) => covers' = covers)
  BY Frames
<1>2. ObjectInv
  BY DEF Base
<1>3. (EnterLook(t) \/ EnterAdd(t) \/ EndCall(t, Empty) \/ \E b \in Batches : Free(t, b))
      => RetireCas(t) \/ RetireCount(t) \/ NextOK(t)
  BY <1>1, ThreadEnters
<1>4. Deref(t) \/ DerefLoad(t) \/ DerefEpoch(t) \/ DerefAccess(t)
      => RetireCas(t) \/ RetireCount(t) \/ NextOK(t)
  <2>1. Deref(t) \/ DerefLoad(t) \/ DerefEpoch(t) => access' = access
    BY DEF Deref, DerefLoad, DerefEpoch, epochs
  <2> QED
    BY <1>1, <1>2, <2>1, ThreadDerefs
<1>5. LeaveLoad(t) \/ LeaveRead(t) \/ LeaveCas(t) \/ LeaveClear(t) \/ LeaveAdjust(t)
      => RetireCas(t) \/ RetireCount(t) \/ NextOK(t)
  BY <1>1, ThreadLeaves
<1>6. (\E th \in TrimThresholds : Trim(t, th)) \/ TrimRead(t) \/ TravRead(t) \/ TravDrop(t)
      \/ Ack(t) => RetireCas(t) \/ RetireCount(t) \/ NextOK(t)
  BY <1>1, ThreadWalks
<1>7. RetireCas(t) \/ RetireCount(t) => NextOK(t)
  <2>1. RetireCas(t) \/ RetireCount(t) => birth' = birth
    BY DEF RetireCas, RetireCount, memory
  <2> QED
    BY <2>1, ThreadRetires
<1>8. (\E e \in 0 .. global : Retire(t, e)) \/ RetireAccess(t) \/ RetireLoad(t)
      \/ RetireAdjust(t) \/ RetireFinish(t) => NextOK(t)
  <2>1. (\E e \in 0 .. global : Retire(t, e)) \/ RetireAccess(t) \/ RetireLoad(t)
        \/ RetireAdjust(t) \/ RetireFinish(t) => birth' = birth
    BY DEF Retire, RetireAccess, RetireLoad, RetireAdjust, RetireFinish, memory
  <2> QED
    BY <1>1, <1>7, <2>1, ThreadRetires
<1>9. NextOK(t)
  BY <1>3, <1>4, <1>5, <1>6, <1>7, <1>8, ActsIs
<1> QED
  BY <1>9, ThreadOthers DEF ThreadInv, NextOK

\* What the client does outside the calls.
LEMMA ThreadStructure ==
    ASSUME Base, RetirerInv, Structure, UNCHANGED <<head, counter, history>>
    PROVE  ThreadInv'
<1>1. TypeOK /\ TypeOK'
  BY TypeStructure DEF Base
<1>2. PICK b \in Batches : Alloc(b) \/ Link(b)
  BY DEF Structure
<1>3. loc' = loc /\ access' = access /\ covers' = covers
  BY <1>2 DEF Alloc, Link, epochs, history
<1>4. global' \in Epoch /\ global \in Epoch /\ global <= global'
  BY <1>1, <1>2, Constants DEF Alloc, Link, epochs, TypeOK, Epoch
<1>5. SUFFICES ASSUME NEW t \in Threads
               PROVE  (ControlOK(t) /\ LocalsOK(t) /\ RetireOK(t) /\ EpochOK(t))'
  BY DEF ThreadInv
<1>6. ControlOK(t) /\ LocalsOK(t) /\ RetireOK(t) /\ EpochOK(t) /\ loc[t] \in Local
  BY ThreadNow
<1>7. loc[t].pc \in RetireLabels => birth'[loc[t].batch] = birth[loc[t].batch]
  <2>1. SUFFICES ASSUME loc[t].pc \in RetireLabels
                 PROVE  birth'[loc[t].batch] = birth[loc[t].batch]
    OBVIOUS
  <2>2. loc[t].batch \in Batches /\ status[loc[t].batch] = "retired"
    BY <2>1, RetirerWaits
  <2>3. CASE Alloc(b)
    <3>1. b # loc[t].batch /\ birth' = [birth EXCEPT ![b] = global']
      BY <2>2, <2>3 DEF Alloc
    <3> QED
      BY <1>1, <2>2, <3>1 DEF TypeOK
  <2>4. CASE Link(b)
    BY <2>4 DEF Link, memory
  <2> QED
    BY <1>2, <2>3, <2>4
<1>8. ControlOK(t)' /\ LocalsOK(t)'
  BY <1>3, <1>6 DEF ControlOK, LocalsOK
<1>9. RetireOK(t)'
  BY <1>3, <1>6, <1>7 DEF RetireOK
<1>10. EpochOK(t)'
  <2>1. loc[t].glob \in Epoch
    BY <1>6, Fields
  <2> QED
    BY <1>3, <1>4, <1>6, <2>1, Constants DEF EpochOK, Epoch
<1> QED
  BY <1>8, <1>9, <1>10
=============================================================================
