--------------------------- MODULE Hyaline1SProofs ---------------------------
(***************************************************************************)
(* Proofs about Hyaline-1S: its inductive invariant, the properties that   *)
(* follow from it, and that it implements SafePointers.                    *)
(***************************************************************************)
EXTENDS Hyaline1S, HyalineLemmas, FiniteSetTheorems

LEMMA Constants ==
    /\ NULL \notin Batches
    /\ NumSlots \in Nat \ {0} /\ Threads = 0 .. NumSlots - 1 /\ Threads = Slots
    /\ Mod \in Nat \ {0} /\ NumSlots < Mod
    /\ MaxEpoch \in Nat /\ TrimThresholds \subseteq Nat
    /\ 0 \in Slots /\ 0 \in Word /\ 0 \in Epoch /\ NULL \in Ptr
    /\ Off \in HeadWord /\ Off.on = FALSE /\ Off.ptr = NULL
BY Hyaline1SAssumption DEF Slots, Word, Epoch, Ptr, Off, HeadWord

Local == Locals(HeadWord, Labels)
Ops == {"none", "enter", "leave", "trim", "nested", "trimLeft", "deref", "retire"}

\* The types of the locals.
LEMMA Fields ==
    ASSUME NEW l \in Local
    PROVE  /\ l.inside \in BOOLEAN /\ l.holds \in SUBSET Batches /\ l.vec \in Slots
           /\ l.smr \in Ptr /\ l.pc \in Labels /\ l.op \in Ops
           /\ l.walk \in Walk /\ l.outer \in Walk /\ l.thr \in Nat
           /\ l.list \in SUBSET Batches /\ l.value \in Ptr
           /\ l.acc \in Epoch /\ l.glob \in Epoch /\ l.batch \in Ptr /\ l.min \in Epoch
           /\ l.slot \in Slots /\ l.last \in HeadWord /\ l.adjs \in Word
           /\ l.doAdjs \in BOOLEAN /\ l.into \in SUBSET Slots
BY DEF Local, Locals, Ops

LEMMA WalkFields ==
    /\ NoWalk \in Walk
    /\ \A w \in Walk : w.curr \in Ptr /\ w.nxt \in Ptr /\ w.end \in Ptr /\ w.counter \in Nat
BY DEF Walk, NoWalk, Ptr

\* A thread between two calls has locals of the right types.
LEMMA BetweenType == Between(Off) \in Local
BY Constants DEF Between, Local, Locals, NoWalk, Walk, Labels, Ptr

LEMMA InitType == Init => TypeOK
<1> SUFFICES ASSUME Init PROVE TypeOK
  OBVIOUS
<1>1. ASSUME NEW t \in Threads PROVE [Between(Off) EXCEPT !.vec = t] \in Local
  BY <1>1, BetweenType, Constants DEF Local, Locals
<1>2. loc \in [Threads -> Local]
  BY <1>1 DEF Init
<1>3. <<>> \in Seq(Batches)
  OBVIOUS
<1> QED
  BY <1>2, <1>3, Constants DEF Init, TypeOK, Local

\* A step that assigns the locals of one thread.
LEMMA GoesTo ==
    ASSUME TypeOK, NEW t \in Threads, NEW l, Goes(t, l)
    PROVE  /\ loc'[t] = l
           /\ \A u \in Threads : u # t => loc'[u] = loc[u]
           /\ l \in Local => loc' \in [Threads -> Local]
BY DEF TypeOK, Goes, Local

-----------------------------------------------------------------------------
(* What each step does to the locals of its thread.                        *)

Others(t) == \A u \in Threads : u # t => loc'[u] = loc[u]

\* The locals that only some of the calls change.
SameClient(l, m) ==
    m.inside = l.inside /\ m.holds = l.holds /\ m.vec = l.vec /\ m.smr = l.smr
SameWalks(l, m) == m.walk = l.walk /\ m.outer = l.outer
SameDeref(l, m) == m.value = l.value /\ m.acc = l.acc /\ m.glob = l.glob
SameRetire(l, m) ==
    /\ m.batch = l.batch /\ m.min = l.min /\ m.slot = l.slot /\ m.last = l.last
    /\ m.adjs = l.adjs

LEMMA EnterDoes ==
    ASSUME TypeOK, NEW t \in Threads, Enter(t)
    PROVE  /\ loc' \in [Threads -> Local] /\ Others(t)
           /\ loc[t].pc = "reenter" \/ (loc[t].pc = "idle" /\ ~loc[t].inside)
           /\ loc'[t].inside = TRUE /\ loc'[t].smr = NULL /\ loc'[t].pc = "idle"
           /\ loc'[t].holds = loc[t].holds /\ loc'[t].vec = loc[t].vec
           /\ loc'[t].op = loc[t].op /\ loc'[t].list = loc[t].list
           /\ SameWalks(loc[t], loc'[t]) /\ SameRetire(loc[t], loc'[t])
<1> DEFINE l == [loc[t] EXCEPT !.inside = TRUE, !.smr = NULL, !.pc = "idle"]
<1>1. Goes(t, l) /\ (loc[t].pc = "reenter" \/ (loc[t].pc = "idle" /\ ~loc[t].inside))
  BY DEF Enter, At
<1>2. loc[t] \in Local
  BY DEF TypeOK, Local
<1>3. l \in Local
  BY <1>2, Constants DEF Local, Locals, Labels
<1>4. loc'[t] = l /\ Others(t) /\ loc' \in [Threads -> Local]
  BY <1>1, <1>3, GoesTo DEF Others
<1> QED
  BY <1>1, <1>2, <1>4 DEF Local, Locals, SameWalks, SameRetire

LEMMA DerefDoes ==
    ASSUME TypeOK, NEW t \in Threads, Deref(t), loc[t].vec = t
    PROVE  /\ loc' \in [Threads -> Local] /\ Others(t)
           /\ loc[t].pc = "idle" /\ loc[t].inside
           /\ loc'[t].op = "deref" /\ loc'[t].pc = "derefLoad" /\ loc'[t].acc = access[t]
           /\ loc'[t].list = loc[t].list
           /\ SameClient(loc[t], loc'[t]) /\ SameWalks(loc[t], loc'[t])
           /\ SameRetire(loc[t], loc'[t])
<1> DEFINE x == access[loc[t].vec]
           l == [loc[t] EXCEPT !.op = "deref", !.pc = "derefLoad", !.acc = x]
<1>1. Goes(t, l) /\ loc[t].pc = "idle" /\ loc[t].inside
  BY DEF Deref, At
<1> HIDE DEF x
<1>2. loc[t] \in Local /\ x = access[t] /\ x \in Epoch
  <2>1. loc[t] \in Local /\ access[t] \in Epoch
    BY Constants DEF TypeOK, Local
  <2> QED
    BY <2>1 DEF x
<1>3. l \in Local
  BY <1>2 DEF Local, Locals, Labels
<1>4. loc'[t] = l /\ Others(t) /\ loc' \in [Threads -> Local]
  BY <1>1, <1>3, GoesTo DEF Others
<1>5. /\ l.op = "deref" /\ l.pc = "derefLoad" /\ l.acc = x /\ l.list = loc[t].list
      /\ SameClient(loc[t], l) /\ SameWalks(loc[t], l) /\ SameRetire(loc[t], l)
  BY <1>2 DEF Local, Locals, SameClient, SameWalks, SameRetire
<1> QED
  BY <1>1, <1>2, <1>4, <1>5

LEMMA DerefLoadDoes ==
    ASSUME TypeOK, NEW t \in Threads, DerefLoad(t)
    PROVE  /\ loc' \in [Threads -> Local] /\ Others(t)
           /\ loc[t].pc = "derefLoad" /\ loc'[t].pc = "derefEpoch"
           /\ loc'[t].value = root /\ loc'[t].acc = loc[t].acc
           /\ loc'[t].op = loc[t].op /\ loc'[t].list = loc[t].list
           /\ SameClient(loc[t], loc'[t]) /\ SameWalks(loc[t], loc'[t])
           /\ SameRetire(loc[t], loc'[t])
<1> DEFINE l == [loc[t] EXCEPT !.value = root, !.pc = "derefEpoch"]
<1>1. Goes(t, l) /\ loc[t].pc = "derefLoad"
  BY DEF DerefLoad, At
<1>2. loc[t] \in Local /\ root \in Ptr
  BY DEF TypeOK, Local
<1>3. l \in Local
  BY <1>2 DEF Local, Locals, Labels
<1>4. loc'[t] = l /\ Others(t) /\ loc' \in [Threads -> Local]
  BY <1>1, <1>3, GoesTo DEF Others
<1> QED
  BY <1>1, <1>2, <1>4 DEF Local, Locals, SameClient, SameWalks, SameRetire

\* The epoch is the published one: deref returns.  Otherwise it goes on.
LEMMA DerefEpochDoes ==
    ASSUME TypeOK, NEW t \in Threads, DerefEpoch(t)
    PROVE  /\ loc' \in [Threads -> Local] /\ Others(t)
           /\ loc[t].pc = "derefEpoch"
           /\ loc'[t].inside = loc[t].inside /\ loc'[t].vec = loc[t].vec
           /\ loc'[t].smr = loc[t].smr /\ loc'[t].list = loc[t].list
           /\ SameWalks(loc[t], loc'[t]) /\ SameRetire(loc[t], loc'[t])
           /\ loc[t].acc = global =>
                /\ loc'[t].op = "none" /\ loc'[t].pc = "idle"
                /\ loc'[t].holds = loc[t].holds \union ({loc[t].value} \ {NULL})
           /\ loc[t].acc # global =>
                /\ loc'[t].op = loc[t].op /\ loc'[t].pc = "derefAccess"
                /\ loc'[t].holds = loc[t].holds
                /\ loc'[t].acc = loc[t].acc /\ loc'[t].glob = global
<1> DEFINE h == loc[t].holds \union ({loc[t].value} \ {NULL})
           m == [loc[t] EXCEPT !.op = "none", !.pc = "idle", !.value = NULL,
                               !.acc = 0, !.glob = 0, !.holds = h]
           n == [loc[t] EXCEPT !.glob = global, !.pc = "derefAccess"]
<1>1. Goes(t, IF loc[t].acc = global THEN m ELSE n) /\ loc[t].pc = "derefEpoch"
  BY DEF DerefEpoch, At
<1>2. loc[t] \in Local /\ global \in Epoch /\ 0 \in Epoch /\ NULL \in Ptr
  BY Constants DEF TypeOK, Local
<1>3. h \in SUBSET Batches
  BY <1>2, Fields DEF Ptr
<1> HIDE DEF h
<1>4. CASE loc[t].acc = global
  <2>1. m \in Local
    BY <1>2, <1>3 DEF Local, Locals, Labels
  <2>2. loc'[t] = m /\ Others(t) /\ loc' \in [Threads -> Local]
    BY <1>1, <1>4, <2>1, GoesTo DEF Others
  <2> QED
    BY <1>1, <1>2, <1>4, <2>2 DEF Local, Locals, SameWalks, SameRetire, h
<1>5. CASE loc[t].acc # global
  <2>1. n \in Local
    BY <1>2 DEF Local, Locals, Labels
  <2>2. loc'[t] = n /\ Others(t) /\ loc' \in [Threads -> Local]
    BY <1>1, <1>5, <2>1, GoesTo DEF Others
  <2> QED
    BY <1>1, <1>2, <1>5, <2>2 DEF Local, Locals, SameWalks, SameRetire
<1> QED
  BY <1>4, <1>5

LEMMA DerefAccessDoes ==
    ASSUME TypeOK, NEW t \in Threads, DerefAccess(t)
    PROVE  /\ loc' \in [Threads -> Local] /\ Others(t)
           /\ loc[t].pc = "derefAccess" /\ loc'[t].pc = "derefLoad"
           /\ loc'[t].acc = loc[t].glob
           /\ loc'[t].op = loc[t].op /\ loc'[t].list = loc[t].list
           /\ SameClient(loc[t], loc'[t]) /\ SameWalks(loc[t], loc'[t])
           /\ SameRetire(loc[t], loc'[t])
           /\ access' \in [Slots -> Epoch] /\ access'[t] = loc[t].glob
           /\ \A u \in Threads : u # t => access'[u] = access[u]
<1> DEFINE l == [loc[t] EXCEPT !.acc = loc[t].glob, !.glob = 0, !.pc = "derefLoad"]
<1>1. Goes(t, l) /\ loc[t].pc = "derefAccess"
  BY DEF DerefAccess, At
<1>2. loc[t] \in Local /\ loc[t].glob \in Epoch /\ 0 \in Epoch
  BY Constants DEF TypeOK, Local, Locals
<1>3. l \in Local
  BY <1>2 DEF Local, Locals, Labels
<1>4. loc'[t] = l /\ Others(t) /\ loc' \in [Threads -> Local]
  BY <1>1, <1>3, GoesTo DEF Others
<1>5. /\ access' \in [Slots -> Epoch] /\ access'[t] = loc[t].glob
      /\ \A u \in Threads : u # t => access'[u] = access[u]
  BY <1>2, Constants DEF DerefAccess, TypeOK
<1> QED
  BY <1>1, <1>2, <1>4, <1>5 DEF Local, Locals, SameClient, SameWalks, SameRetire

\* What traverse and __leave return with.
LEMMA ReturnIs ==
    ASSUME NEW l \in Local
    PROVE  /\ Return(l) \in Local
           /\ SameClient(l, Return(l)) /\ SameRetire(l, Return(l))
           /\ Return(l).list = l.list
           /\ l.op = "nested" =>
                /\ Return(l).op = "trimLeft" /\ Return(l).walk = l.outer
                /\ Return(l).pc = IF l.outer.curr = l.outer.end THEN "ack" ELSE "travRead"
           /\ l.op # "nested" => /\ Return(l).op = l.op /\ Return(l).outer = l.outer
                                 /\ Return(l).pc = "free"
<1>1. NoWalk \in Walk /\ 0 \in Nat /\ l.outer \in Walk
  BY WalkFields, Fields
<1>2. CASE l.op = "nested"
  <2> DEFINE p == IF l.outer.curr = l.outer.end THEN "ack" ELSE "travRead"
             m == [l EXCEPT !.op = "trimLeft", !.thr = 0, !.walk = l.outer,
                            !.outer = NoWalk, !.pc = p]
  <2>1. Return(l) = m
    BY <1>2 DEF Return
  <2>2. p \in Labels
    BY DEF Labels
  <2> HIDE DEF p
  <2>3. m \in Local
    BY <1>1, <2>2 DEF Local, Locals
  <2>4. m.op = "trimLeft" /\ m.walk = l.outer /\ m.pc = p /\ m.list = l.list
        /\ SameClient(l, m) /\ SameRetire(l, m)
    BY <1>2 DEF Local, Locals, SameClient, SameRetire
  <2> QED
    BY <1>2, <2>1, <2>3, <2>4 DEF p
<1>3. CASE l.op # "nested"
  <2> DEFINE m == [l EXCEPT !.walk = NoWalk, !.pc = "free"]
  <2>1. Return(l) = m
    BY <1>3 DEF Return
  <2>2. m \in Local
    BY <1>1 DEF Local, Locals, Labels
  <2>3. m.op = l.op /\ m.outer = l.outer /\ m.pc = "free" /\ m.list = l.list
        /\ SameClient(l, m) /\ SameRetire(l, m)
    BY <1>3 DEF Local, Locals, SameClient, SameRetire
  <2> QED
    BY <1>3, <2>1, <2>2, <2>3
<1> QED
  BY <1>2, <1>3

LEMMA ToAckIs ==
    ASSUME NEW l \in Local
    PROVE  /\ ToAck(l) \in Local
           /\ SameClient(l, ToAck(l)) /\ SameRetire(l, ToAck(l))
           /\ ToAck(l).list = l.list /\ ToAck(l).op = l.op /\ ToAck(l).outer = l.outer
           /\ ToAck(l).pc = "ack"
<1> DEFINE w == [NoWalk EXCEPT !.counter = l.walk.counter]
<1>1. w \in Walk
  BY Fields, WalkFields DEF Walk
<1> HIDE DEF w
<1>2. ToAck(l) = [l EXCEPT !.pc = "ack", !.walk = w]
  BY DEF ToAck, w
<1>3. [l EXCEPT !.pc = "ack", !.walk = w] \in Local
  BY <1>1 DEF Local, Locals, Labels
<1> QED
  BY <1>2, <1>3 DEF Local, Locals, SameClient, SameRetire

-----------------------------------------------------------------------------
(* The walks.                                                              *)

\* leave: with something in the slot, a walk from the head to the handle.
LEMMA LeaveDoes ==
    ASSUME TypeOK, NEW t \in Threads, Leave(t)
    PROVE  /\ loc' \in [Threads -> Local] /\ Others(t)
           /\ (loc[t].pc = "idle" /\ loc[t].inside) \/ loc[t].pc = "leaveLoad"
           /\ loc'[t].inside = FALSE /\ loc'[t].holds = {}
           /\ loc'[t].vec = loc[t].vec /\ loc'[t].smr = loc[t].smr
           /\ loc'[t].list = loc[t].list /\ SameRetire(loc[t], loc'[t])
           /\ head[t].ptr # NULL =>
                /\ loc'[t].op = IF loc[t].op = "nested" THEN "nested" ELSE "leave"
                /\ loc'[t].pc = "travRead" /\ loc'[t].outer = loc[t].outer
                /\ loc'[t].walk.nxt = head[t].ptr /\ loc'[t].walk.end = loc[t].smr
           /\ head[t].ptr = NULL /\ loc[t].op = "nested" =>
                /\ loc'[t].op = "trimLeft" /\ loc'[t].walk = loc[t].outer
                /\ loc'[t].pc = IF loc[t].outer.curr = loc[t].outer.end
                                THEN "ack" ELSE "travRead"
           /\ head[t].ptr = NULL /\ loc[t].op # "nested" =>
                loc'[t].op = "leave" /\ loc'[t].pc = "free"
<1> DEFINE o == IF loc[t].op = "nested" THEN "nested" ELSE "leave"
           l == [loc[t] EXCEPT !.inside = FALSE, !.holds = {}, !.op = o]
           curr == head[t].ptr
           m == [l EXCEPT !.walk.nxt = curr, !.walk.end = l.smr, !.pc = "travRead"]
<1>1. /\ Goes(t, IF curr # NULL THEN m ELSE Return(l))
      /\ (loc[t].pc = "idle" /\ loc[t].inside) \/ loc[t].pc = "leaveLoad"
  BY Zenon DEF Leave, At
<1>2. loc[t] \in Local /\ curr \in Ptr
  BY Constants DEF TypeOK, Local, HeadWord
<1>3. o \in Ops
  BY DEF Ops
<1> HIDE DEF o
<1>4. l \in Local
  BY <1>2, <1>3 DEF Local, Locals, Ops
<1>5. /\ l.inside = FALSE /\ l.holds = {} /\ l.op = o /\ l.vec = loc[t].vec
      /\ l.smr = loc[t].smr /\ l.list = loc[t].list /\ l.outer = loc[t].outer
      /\ l.walk = loc[t].walk /\ SameRetire(loc[t], l) /\ l.smr \in Ptr
  BY <1>2 DEF Local, Locals, SameRetire
<1> HIDE DEF l, curr
<1>6. CASE curr # NULL
  <2>1. m \in Local
    BY <1>2, <1>4, <1>5 DEF Local, Locals, Labels, Walk
  <2>2. loc'[t] = m /\ Others(t) /\ loc' \in [Threads -> Local]
    BY <1>1, <1>6, <2>1, GoesTo DEF Others
  <2>3. /\ m.inside = FALSE /\ m.holds = {} /\ m.op = o /\ m.vec = l.vec
        /\ m.smr = l.smr /\ m.list = l.list /\ m.outer = l.outer
        /\ m.walk.nxt = curr /\ m.walk.end = l.smr /\ m.pc = "travRead"
        /\ SameRetire(l, m)
    BY <1>4, <1>5 DEF Local, Locals, Walk, SameRetire
  <2> QED
    BY <1>1, <1>5, <1>6, <2>2, <2>3 DEF o, curr, SameRetire
<1>7. CASE curr = NULL
  <2>1. loc'[t] = Return(l) /\ Others(t) /\ loc' \in [Threads -> Local]
    BY <1>1, <1>4, <1>7, ReturnIs, GoesTo DEF Others
  <2> QED
    BY <1>1, <1>4, <1>5, <1>7, <2>1, ReturnIs DEF o, curr, SameRetire, SameClient
<1> QED
  BY <1>6, <1>7

LEMMA TravReadDoes ==
    ASSUME TypeOK, NEW t \in Threads, TravRead(t), loc[t].vec = t
    PROVE  /\ loc' \in [Threads -> Local] /\ Others(t) /\ loc[t].pc = "travRead"
           /\ SameClient(loc[t], loc'[t]) /\ SameRetire(loc[t], loc'[t])
           /\ loc'[t].list = loc[t].list /\ loc'[t].op = loc[t].op
           /\ loc'[t].outer = loc[t].outer
           /\ loc[t].walk.nxt = NULL => loc'[t].pc = "ack"
           /\ loc[t].walk.nxt # NULL =>
                /\ loc'[t].pc = "travDrop" /\ loc'[t].walk.curr = loc[t].walk.nxt
                /\ loc'[t].walk.nxt = next[loc[t].walk.nxt][t]
                /\ loc'[t].walk.end = loc[t].walk.end
<1> DEFINE b == loc[t].walk.nxt
           k == [loc[t] EXCEPT !.walk.counter = @ + 1]
           l == [k EXCEPT !.walk.curr = b]
           x == next[b][loc[t].vec]
           m == [l EXCEPT !.walk.nxt = x, !.pc = "travDrop"]
<1>1. loc[t] \in Local /\ loc[t].walk \in Walk /\ b \in Ptr
  BY Fields, WalkFields DEF TypeOK, Local
<1>2. l \in Local
  <2>1. k \in Local
    BY <1>1 DEF Local, Locals, Walk
  <2> HIDE DEF k
  <2> QED
    BY <1>1, <2>1 DEF Local, Locals, Walk
<1>3. /\ l.walk.curr = b /\ l.vec = loc[t].vec /\ l.walk.end = loc[t].walk.end
      /\ SameClient(loc[t], l) /\ SameRetire(loc[t], l)
      /\ l.list = loc[t].list /\ l.op = loc[t].op /\ l.outer = loc[t].outer
  BY <1>1 DEF Local, Locals, Walk, SameClient, SameRetire
<1>4. loc[t].pc = "travRead" /\ Goes(t, IF b = NULL THEN ToAck(l) ELSE m)
  <2>1. /\ loc[t].pc = "travRead"
        /\ Goes(t, IF l.walk.curr = NULL THEN ToAck(l)
                   ELSE [l EXCEPT !.walk.nxt = next[l.walk.curr][l.vec],
                                  !.pc = "travDrop"])
    BY Zenon DEF TravRead, At
  <2> HIDE DEF l, b
  <2>2. /\ l.walk.curr = NULL <=> b = NULL
        /\ next[l.walk.curr][l.vec] = x
    BY <1>3
  <2> HIDE DEF x
  <2> QED
    BY <2>1, <2>2
<1> HIDE DEF l
<1>5. CASE b = NULL
  BY <1>2, <1>3, <1>4, <1>5, ToAckIs, GoesTo DEF Others, SameClient, SameRetire
<1>6. CASE b # NULL
  <2>1. x = next[b][t] /\ x \in Ptr
    BY <1>1, <1>6, Constants DEF TypeOK, Ptr
  <2> HIDE DEF x
  <2>2. m \in Local
    BY <1>2, <2>1 DEF Local, Locals, Labels, Walk
  <2>3. loc'[t] = m /\ Others(t) /\ loc' \in [Threads -> Local]
    BY <1>4, <1>6, <2>2, GoesTo DEF Others
  <2>4. /\ m.pc = "travDrop" /\ m.walk.curr = b /\ m.walk.nxt = x
        /\ m.walk.end = l.walk.end /\ SameClient(l, m) /\ SameRetire(l, m)
        /\ m.list = l.list /\ m.op = l.op /\ m.outer = l.outer
    BY <1>2, <1>3 DEF Local, Locals, Walk, SameClient, SameRetire
  <2> QED
    BY <1>3, <1>4, <1>6, <2>1, <2>3, <2>4 DEF SameClient, SameRetire
<1> QED
  BY <1>5, <1>6

\* A decrement: the nested leave begins, or the walk ends or goes on.
LEMMA TravDropDoes ==
    ASSUME TypeOK, NEW t \in Threads, TravDrop(t), loc[t].walk.curr \in Batches
    PROVE  /\ loc' \in [Threads -> Local] /\ Others(t) /\ loc[t].pc = "travDrop"
           /\ SameClient(loc[t], loc'[t]) /\ SameRetire(loc[t], loc'[t])
           /\ loc'[t].list = Collected(loc[t].list, loc[t].walk.curr, MinusOne)
           /\ \/ /\ loc[t].op = "trim" /\ loc'[t].op = "nested"
                 /\ loc'[t].pc = "leaveLoad" /\ loc'[t].outer = loc[t].walk
              \/ /\ loc'[t].op = loc[t].op /\ loc'[t].outer = loc[t].outer
                 /\ loc[t].walk.curr = loc[t].walk.end /\ loc'[t].pc = "ack"
              \/ /\ loc'[t].op = loc[t].op /\ loc'[t].outer = loc[t].outer
                 /\ loc[t].walk.curr # loc[t].walk.end /\ loc'[t].pc = "travRead"
                 /\ loc'[t].walk = loc[t].walk
<1> DEFINE b == loc[t].walk.curr
           c == Collected(loc[t].list, b, MinusOne)
           l == [loc[t] EXCEPT !.list = c]
           f == [l EXCEPT !.op = "nested", !.outer = l.walk, !.walk = NoWalk,
                          !.pc = "leaveLoad"]
           n == [l EXCEPT !.pc = "travRead"]
           flush == /\ l.op = "trim" /\ l.thr > 0 /\ b \in l.list
                    /\ Cardinality(l.list) >= l.thr
<1>1. /\ loc[t].pc = "travDrop"
      /\ Goes(t, IF flush THEN f ELSE IF b = l.walk.end THEN ToAck(l) ELSE n)
  BY DEF TravDrop, At
<1>2. loc[t] \in Local /\ b \in Batches
  BY DEF TypeOK, Local
<1>3. c \in SUBSET Batches
  BY <1>2, Fields DEF Collected
<1> HIDE DEF b, c
<1>4. l \in Local
  BY <1>2, <1>3 DEF Local, Locals
<1>5. /\ l.list = c /\ l.op = loc[t].op /\ l.outer = loc[t].outer /\ l.walk = loc[t].walk
      /\ SameClient(loc[t], l) /\ SameRetire(loc[t], l)
  BY <1>2 DEF Local, Locals, SameClient, SameRetire
<1>6. l.op = "trim" \/ ~flush
  OBVIOUS
<1>7. l.walk \in Walk /\ NoWalk \in Walk
  BY <1>4, Fields, WalkFields
<1> HIDE DEF l, flush
<1>8. f \in Local
  BY <1>4, <1>7 DEF Local, Locals, Labels
<1>9. /\ f.op = "nested" /\ f.pc = "leaveLoad" /\ f.outer = l.walk /\ f.list = l.list
      /\ SameClient(l, f) /\ SameRetire(l, f)
  BY <1>4 DEF Local, Locals, SameClient, SameRetire
<1>10. n \in Local
  BY <1>4 DEF Local, Locals, Labels
<1>11. /\ n.op = l.op /\ n.pc = "travRead" /\ n.outer = l.outer /\ n.list = l.list
       /\ n.walk = l.walk /\ SameClient(l, n) /\ SameRetire(l, n)
  BY <1>4 DEF Local, Locals, SameClient, SameRetire
<1> HIDE DEF f, n
<1>12. CASE flush
  <2>1. loc'[t] = f /\ Others(t) /\ loc' \in [Threads -> Local]
    BY <1>1, <1>8, <1>12, GoesTo DEF Others
  <2> QED
    BY <1>1, <1>5, <1>6, <1>9, <1>12, <2>1 DEF SameClient, SameRetire, b, c
<1>13. CASE ~flush /\ b = l.walk.end
  <2>1. loc'[t] = ToAck(l) /\ Others(t) /\ loc' \in [Threads -> Local]
    BY <1>1, <1>4, <1>13, ToAckIs, GoesTo DEF Others
  <2> QED
    BY <1>1, <1>4, <1>5, <1>13, <2>1, ToAckIs DEF SameClient, SameRetire, b, c
<1>14. CASE ~flush /\ b # l.walk.end
  <2>1. loc'[t] = n /\ Others(t) /\ loc' \in [Threads -> Local]
    BY <1>1, <1>10, <1>14, GoesTo DEF Others
  <2> QED
    BY <1>1, <1>5, <1>11, <1>14, <2>1 DEF SameClient, SameRetire, b, c
<1> QED
  BY <1>12, <1>13, <1>14

LEMMA AckDoes ==
    ASSUME TypeOK, NEW t \in Threads, Ack(t)
    PROVE  /\ loc' \in [Threads -> Local] /\ Others(t) /\ loc[t].pc = "ack"
           /\ SameClient(loc[t], loc'[t]) /\ SameRetire(loc[t], loc'[t])
           /\ loc'[t].list = loc[t].list
           /\ loc[t].op = "nested" =>
                /\ loc'[t].op = "trimLeft" /\ loc'[t].walk = loc[t].outer
                /\ loc'[t].pc = IF loc[t].outer.curr = loc[t].outer.end
                                THEN "ack" ELSE "travRead"
           /\ loc[t].op # "nested" => loc'[t].op = loc[t].op /\ loc'[t].pc = "free"
<1>1. Goes(t, Return(loc[t])) /\ loc[t].pc = "ack"
  BY DEF Ack, At
<1>2. loc[t] \in Local
  BY DEF TypeOK, Local
<1>3. loc'[t] = Return(loc[t]) /\ Others(t) /\ loc' \in [Threads -> Local]
  BY <1>1, <1>2, ReturnIs, GoesTo DEF Others
<1> QED
  BY <1>1, <1>2, <1>3, ReturnIs

\* trim gives up the caller's pointers; with a new head, it walks from there.
LEMMA TrimDoes ==
    ASSUME TypeOK, NEW t \in Threads, NEW th \in TrimThresholds, Trim(t, th),
           loc[t].vec = t
    PROVE  /\ loc' \in [Threads -> Local] /\ Others(t)
           /\ loc[t].pc = "idle" /\ loc[t].inside /\ loc'[t].inside = TRUE
           /\ loc'[t].holds = {} /\ loc'[t].vec = loc[t].vec
           /\ loc'[t].list = loc[t].list /\ loc'[t].outer = loc[t].outer
           /\ SameRetire(loc[t], loc'[t])
           /\ head[t].ptr = loc[t].smr =>
                loc'[t].op = loc[t].op /\ loc'[t].pc = "idle" /\ loc'[t].smr = loc[t].smr
           /\ head[t].ptr # loc[t].smr =>
                /\ loc'[t].op = "trim" /\ loc'[t].pc = "trimRead"
                /\ loc'[t].smr = head[t].ptr /\ loc'[t].walk.end = loc[t].smr
<1> DEFINE l == [loc[t] EXCEPT !.holds = {}]
           x == head[l.vec].ptr
           m == [l EXCEPT !.op = "trim", !.thr = th, !.pc = "trimRead",
                          !.smr = x, !.walk.end = l.smr]
<1>1. Goes(t, IF x = l.smr THEN l ELSE m) /\ loc[t].pc = "idle" /\ l.inside
  BY DEF Trim, At
<1>2. loc[t] \in Local /\ th \in Nat /\ head[t].ptr \in Ptr
  BY Constants DEF TypeOK, Local, HeadWord
<1>3. l \in Local
  BY <1>2 DEF Local, Locals
<1>4. /\ l.holds = {} /\ l.inside = loc[t].inside /\ l.vec = loc[t].vec
      /\ l.smr = loc[t].smr /\ l.pc = loc[t].pc
      /\ l.op = loc[t].op /\ l.list = loc[t].list /\ l.outer = loc[t].outer
      /\ l.walk \in Walk /\ l.smr \in Ptr /\ l.inside \in BOOLEAN
      /\ SameRetire(loc[t], l)
  BY <1>2 DEF Local, Locals, SameRetire
<1> HIDE DEF l
<1>5. x = head[t].ptr
  BY <1>4
<1> HIDE DEF x
<1>6. m \in Local
  BY <1>2, <1>3, <1>4, <1>5, ZenonT(60) DEF Local, Locals, Labels, Walk
<1>7. /\ m.op = "trim" /\ m.pc = "trimRead" /\ m.smr = x /\ m.walk.end = l.smr
      /\ m.holds = l.holds /\ m.inside = l.inside /\ m.vec = l.vec
      /\ m.list = l.list /\ m.outer = l.outer /\ SameRetire(l, m)
  BY <1>3, <1>4 DEF Local, Locals, SameRetire, Walk
<1> HIDE DEF m
<1>8. CASE x = l.smr
  <2>1. loc'[t] = l /\ Others(t) /\ loc' \in [Threads -> Local]
    BY <1>1, <1>3, <1>8, GoesTo DEF Others
  <2> QED
    BY <1>1, <1>4, <1>5, <1>8, <2>1
<1>9. CASE x # l.smr
  <2>1. loc'[t] = m /\ Others(t) /\ loc' \in [Threads -> Local]
    BY <1>1, <1>6, <1>9, GoesTo DEF Others
  <2> QED
    BY <1>1, <1>4, <1>5, <1>7, <1>9, <2>1, ZenonT(60) DEF SameRetire
<1> QED
  BY <1>8, <1>9

LEMMA TrimReadDoes ==
    ASSUME TypeOK, NEW t \in Threads, TrimRead(t), loc[t].vec = t, loc[t].smr \in Batches
    PROVE  /\ loc' \in [Threads -> Local] /\ Others(t)
           /\ loc[t].pc = "trimRead" /\ loc'[t].pc = "travRead"
           /\ SameClient(loc[t], loc'[t]) /\ SameRetire(loc[t], loc'[t])
           /\ loc'[t].list = loc[t].list /\ loc'[t].op = loc[t].op
           /\ loc'[t].outer = loc[t].outer
           /\ loc'[t].walk.nxt = next[loc[t].smr][t] /\ loc'[t].walk.end = loc[t].walk.end
<1> DEFINE x == next[loc[t].smr][loc[t].vec]
           l == [loc[t] EXCEPT !.walk.nxt = x, !.pc = "travRead"]
<1>1. Goes(t, l) /\ loc[t].pc = "trimRead"
  BY DEF TrimRead, At
<1>2. loc[t] \in Local /\ loc[t].walk \in Walk
  BY Fields DEF TypeOK, Local
<1>3. x = next[loc[t].smr][t] /\ x \in Ptr
  BY Constants DEF TypeOK
<1> HIDE DEF x
<1>4. l \in Local
  BY <1>2, <1>3, ZenonT(60) DEF Local, Locals, Labels, Walk
<1>5. /\ l.pc = "travRead" /\ l.list = loc[t].list /\ l.op = loc[t].op
      /\ l.outer = loc[t].outer /\ l.walk.nxt = x /\ l.walk.end = loc[t].walk.end
      /\ SameClient(loc[t], l) /\ SameRetire(loc[t], l)
  BY <1>2 DEF Local, Locals, Walk, SameClient, SameRetire
<1> QED
  BY <1>1, <1>3, <1>4, <1>5, GoesTo DEF Others

-----------------------------------------------------------------------------
(* retire and free.                                                        *)

\* What no step of retire's loop changes.
Loops(l, m) ==
    /\ SameClient(l, m) /\ SameWalks(l, m) /\ m.list = l.list /\ m.op = l.op
    /\ m.batch = l.batch /\ m.min = l.min

\* The loop is done with the slot of l.
Passes(l, m) ==
    \/ l.slot + 1 < NumSlots /\ m.slot = l.slot + 1 /\ m.pc = "retireAccess"
    \/ l.slot + 1 = NumSlots /\ m.slot = l.slot /\ m.pc = "retireFinish"

LEMMA NextSlotIs ==
    ASSUME NEW l \in Local
    PROVE  /\ NextSlot(l) \in Local
           /\ Loops(l, NextSlot(l)) /\ Passes(l, NextSlot(l))
           /\ NextSlot(l).adjs = l.adjs
<1>1. l.slot \in 0 .. NumSlots - 1 /\ NumSlots \in Nat \ {0} /\ Off \in HeadWord
  BY Fields, Constants DEF Slots
<1>2. CASE l.slot + 1 < NumSlots
  <2> DEFINE s == l.slot + 1
             m == [l EXCEPT !.last = Off, !.slot = s, !.pc = "retireAccess"]
  <2>1. NextSlot(l) = m
    BY <1>2 DEF NextSlot
  <2>2. s \in Slots
    BY <1>1, <1>2 DEF Slots
  <2> HIDE DEF s
  <2>3. m \in Local
    BY <1>1, <2>2 DEF Local, Locals, Labels
  <2>4. m.slot = s /\ m.pc = "retireAccess" /\ m.adjs = l.adjs /\ Loops(l, m)
    BY DEF Local, Locals, Loops, SameClient, SameWalks
  <2> QED
    BY <1>2, <2>1, <2>3, <2>4 DEF s, Passes
<1>3. CASE ~(l.slot + 1 < NumSlots)
  <2> DEFINE m == [l EXCEPT !.last = Off, !.pc = "retireFinish"]
  <2>1. NextSlot(l) = m
    BY <1>3 DEF NextSlot
  <2>2. m \in Local
    BY <1>1 DEF Local, Locals, Labels
  <2>3. m.slot = l.slot /\ m.pc = "retireFinish" /\ m.adjs = l.adjs /\ Loops(l, m)
    BY DEF Local, Locals, Loops, SameClient, SameWalks
  <2>4. l.slot + 1 = NumSlots
    BY <1>1, <1>3
  <2> QED
    BY <2>1, <2>2, <2>3, <2>4 DEF Passes
<1> QED
  BY <1>2, <1>3

LEMMA TrySlotIs ==
    ASSUME NEW l \in Local, NEW w \in HeadWord
    PROVE  /\ TrySlot(l, w) \in Local
           /\ Loops(l, TrySlot(l, w)) /\ TrySlot(l, w).adjs = l.adjs
           /\ ~w.on => Passes(l, TrySlot(l, w))
           /\ w.on => /\ TrySlot(l, w).pc = "retireCas" /\ TrySlot(l, w).last = w
                      /\ TrySlot(l, w).slot = l.slot
<1>1. CASE ~w.on
  BY <1>1, NextSlotIs DEF TrySlot
<1>2. CASE w.on
  <2> DEFINE m == [l EXCEPT !.last = w, !.pc = "retireCas"]
  <2>1. TrySlot(l, w) = m
    BY <1>2 DEF TrySlot
  <2>2. m \in Local
    BY DEF Local, Locals, Labels
  <2>3. /\ m.pc = "retireCas" /\ m.last = w /\ m.slot = l.slot /\ m.adjs = l.adjs
        /\ Loops(l, m)
    BY DEF Local, Locals, Loops, SameClient, SameWalks
  <2> QED
    BY <1>2, <2>1, <2>2, <2>3
<1> QED
  BY <1>1, <1>2

LEMMA RetireDoes ==
    ASSUME TypeOK, NEW t \in Threads, NEW e \in 0 .. global, Retire(t, e)
    PROVE  /\ loc' \in [Threads -> Local] /\ Others(t)
           /\ loc[t].pc = "idle" /\ loc[t].inside /\ root \in Batches
           /\ SameClient(loc[t], loc'[t]) /\ SameWalks(loc[t], loc'[t])
           /\ loc'[t].list = loc[t].list
           /\ loc'[t].op = "retire" /\ loc'[t].pc = "retireAccess"
           /\ loc'[t].batch = root /\ loc'[t].slot = loc[t].slot
           /\ loc'[t].adjs = loc[t].adjs
           /\ loc'[t].min \in Epoch /\ loc'[t].min <= birth[root]
<1> DEFINE x == MinEpoch(e, birth[root])
           l == [loc[t] EXCEPT !.op = "retire", !.batch = root, !.min = x,
                               !.pc = "retireAccess"]
<1>1. Goes(t, l) /\ loc[t].pc = "idle" /\ loc[t].inside /\ root # NULL
  BY DEF Retire, At
<1>2. loc[t] \in Local /\ root \in Batches /\ birth[root] \in Epoch /\ e \in Epoch
  BY <1>1, Constants DEF TypeOK, Local, Ptr, Epoch
<1>3. x \in Epoch /\ x <= birth[root]
  BY <1>2, Constants DEF MinEpoch, Epoch
<1> HIDE DEF x
<1>4. l \in Local
  BY <1>2, <1>3 DEF Local, Locals, Labels, Ptr
<1>5. /\ l.op = "retire" /\ l.pc = "retireAccess" /\ l.batch = root /\ l.min = x
      /\ l.slot = loc[t].slot /\ l.adjs = loc[t].adjs /\ l.list = loc[t].list
      /\ SameClient(loc[t], l) /\ SameWalks(loc[t], l)
  BY <1>2 DEF Local, Locals, SameClient, SameWalks
<1> HIDE DEF l
<1> QED
  BY <1>1, <1>2, <1>3, <1>4, <1>5, GoesTo DEF Others

LEMMA RetireAccessDoes ==
    ASSUME TypeOK, NEW t \in Threads, RetireAccess(t)
    PROVE  /\ loc' \in [Threads -> Local] /\ Others(t) /\ loc[t].pc = "retireAccess"
           /\ Loops(loc[t], loc'[t]) /\ loc'[t].adjs = loc[t].adjs
           /\ \/ /\ access[loc[t].slot] >= loc[t].min
                 /\ loc'[t].pc = "retireLoad" /\ loc'[t].slot = loc[t].slot
              \/ /\ ~(access[loc[t].slot] >= loc[t].min)
                 /\ Passes(loc[t], loc'[t])
<1> DEFINE l == [loc[t] EXCEPT !.pc = "retireLoad"]
<1>1. /\ Goes(t, IF access[loc[t].slot] >= loc[t].min THEN l ELSE NextSlot(loc[t]))
      /\ loc[t].pc = "retireAccess"
  BY DEF RetireAccess, At
<1>2. loc[t] \in Local
  BY DEF TypeOK, Local
<1>3. l \in Local
  BY <1>2 DEF Local, Locals, Labels
<1>4. l.pc = "retireLoad" /\ l.slot = loc[t].slot /\ l.adjs = loc[t].adjs /\ Loops(loc[t], l)
  BY <1>2 DEF Local, Locals, Loops, SameClient, SameWalks
<1> HIDE DEF l
<1>5. CASE access[loc[t].slot] >= loc[t].min
  <2>1. loc'[t] = l /\ Others(t) /\ loc' \in [Threads -> Local]
    BY <1>1, <1>3, <1>5, GoesTo DEF Others
  <2> QED
    BY <1>1, <1>4, <1>5, <2>1
<1>6. CASE ~(access[loc[t].slot] >= loc[t].min)
  <2>1. loc'[t] = NextSlot(loc[t]) /\ Others(t) /\ loc' \in [Threads -> Local]
    BY <1>1, <1>2, <1>6, NextSlotIs, GoesTo DEF Others
  <2> QED
    BY <1>1, <1>2, <1>6, <2>1, NextSlotIs
<1> QED
  BY <1>5, <1>6

\* A look at the head of a slot: the slot is off, or the CAS is tried.
Looks(t) ==
    /\ Loops(loc[t], loc'[t]) /\ loc'[t].adjs = loc[t].adjs
    /\ ~head[loc[t].slot].on => Passes(loc[t], loc'[t])
    /\ head[loc[t].slot].on =>
         /\ loc'[t].pc = "retireCas" /\ loc'[t].last = head[loc[t].slot]
         /\ loc'[t].slot = loc[t].slot

LEMMA TriesSlot ==
    ASSUME TypeOK, NEW t \in Threads, Goes(t, TrySlot(loc[t], head[loc[t].slot]))
    PROVE  loc' \in [Threads -> Local] /\ Others(t) /\ Looks(t)
<1>1. loc[t] \in Local /\ head[loc[t].slot] \in HeadWord
  BY Fields DEF TypeOK, Local
<1>2. /\ loc'[t] = TrySlot(loc[t], head[loc[t].slot])
      /\ Others(t) /\ loc' \in [Threads -> Local]
  BY <1>1, TrySlotIs, GoesTo DEF Others
<1> QED
  BY <1>1, <1>2, TrySlotIs DEF Looks

LEMMA RetireLoadDoes ==
    ASSUME TypeOK, NEW t \in Threads, RetireLoad(t)
    PROVE  /\ loc' \in [Threads -> Local] /\ Others(t) /\ loc[t].pc = "retireLoad"
           /\ Looks(t)
<1>1. Goes(t, TrySlot(loc[t], head[loc[t].slot])) /\ loc[t].pc = "retireLoad"
  BY DEF RetireLoad, At
<1> QED
  BY <1>1, TriesSlot

\* The compare-and-swap succeeds.
Inserts(t) == RetireCas(t) /\ head[loc[t].slot] = loc[t].last

LEMMA InsertDoes ==
    ASSUME TypeOK, NEW t \in Threads, Inserts(t), loc[t].batch \in Batches
    PROVE  LET s == loc[t].slot
               b == loc[t].batch
           IN  /\ loc' \in [Threads -> Local] /\ Others(t) /\ loc[t].pc = "retireCas"
               /\ Loops(loc[t], loc'[t]) /\ loc'[t].adjs = AddW(loc[t].adjs, 1)
               /\ Passes(loc[t], loc'[t])
               /\ s \in Threads
               /\ head' \in [Slots -> HeadWord] /\ head'[s].ptr = b
               /\ head'[s].on = head[s].on
               /\ \A u \in Threads : u # s => head'[u] = head[u]
               /\ next' \in [Batches -> [Slots -> Ptr]] /\ next'[b][s] = head[s].ptr
               /\ \A c \in Batches, u \in Threads : c # b \/ u # s => next'[c][u] = next[c][u]
               /\ held' \in [Threads -> Seq(Batches)] /\ held'[s] = <<b>> \o held[s]
               /\ \A u \in Threads : u # s => held'[u] = held[u]
               /\ UNCHANGED <<epochs, refs, birth, structure, minEpoch, todo, later>>
<1> DEFINE s == loc[t].slot
           b == loc[t].batch
           a == AddW(loc[t].adjs, 1)
           i == loc[t].into \union {s}
           l == [loc[t] EXCEPT !.adjs = a, !.into = i]
<1>1. loc[t] \in Local /\ s \in Threads /\ loc[t].adjs \in Word /\ 1 \in Word
      /\ loc[t].into \in SUBSET Slots
  <2>1. 1 \in Word
    BY Constants DEF Word
  <2>2. loc[t] \in Local
    BY DEF TypeOK, Local
  <2> QED
    BY <2>1, <2>2, Fields, Constants
<1>2. a \in Word /\ i \in SUBSET Slots
  BY <1>1, WordClosed, Constants
<1>3. /\ loc[t].pc = "retireCas"
      /\ head' = [head EXCEPT ![s].ptr = b]
      /\ next' = [next EXCEPT ![b][s] = loc[t].last.ptr]
      /\ Goes(t, NextSlot(l))
      /\ held' = [held EXCEPT ![s] = <<b>> \o @]
      /\ UNCHANGED <<epochs, refs, birth, structure, minEpoch, todo, later>>
  BY Zenon DEF Inserts, RetireCas, At
<1>4. head[s] = loc[t].last
  BY DEF Inserts
<1> HIDE DEF a, i
<1>5. l \in Local
  BY <1>1, <1>2 DEF Local, Locals
<1>6. l.adjs = a /\ l.slot = s /\ Loops(loc[t], l)
  BY <1>1 DEF Local, Locals, Loops, SameClient, SameWalks
<1> HIDE DEF l
<1>7. loc'[t] = NextSlot(l) /\ Others(t) /\ loc' \in [Threads -> Local]
  BY <1>3, <1>5, NextSlotIs, GoesTo DEF Others
<1>8. /\ Loops(loc[t], loc'[t]) /\ loc'[t].adjs = a /\ Passes(loc[t], loc'[t])
  BY <1>5, <1>6, <1>7, NextSlotIs DEF Loops, Passes, SameClient, SameWalks
<1>9. /\ head' \in [Slots -> HeadWord] /\ head'[s].ptr = b /\ head'[s].on = head[s].on
      /\ \A u \in Threads : u # s => head'[u] = head[u]
  BY <1>1, <1>3, Constants DEF TypeOK, HeadWord, Ptr
<1>10. /\ next' \in [Batches -> [Slots -> Ptr]] /\ next'[b][s] = head[s].ptr
       /\ \A c \in Batches, u \in Threads : c # b \/ u # s => next'[c][u] = next[c][u]
  <2>1. head[s].ptr \in Ptr
    BY <1>1, Constants DEF TypeOK, HeadWord
  <2> QED
    BY <1>1, <1>3, <1>4, <2>1, Constants DEF TypeOK
<1>11. /\ held' \in [Threads -> Seq(Batches)] /\ held'[s] = <<b>> \o held[s]
       /\ \A u \in Threads : u # s => held'[u] = held[u]
  <2>1. held \in [Threads -> Seq(Batches)]
    BY DEF TypeOK
  <2>2. <<b>> \o held[s] \in Seq(Batches)
    BY <1>1, <2>1, ConsFacts
  <2> QED
    BY <1>1, <1>3, <2>1, <2>2
<1> QED
  BY <1>1, <1>3, <1>7, <1>8, <1>9, <1>10, <1>11 DEF a

LEMMA InsertFails ==
    ASSUME TypeOK, NEW t \in Threads, RetireCas(t), ~Inserts(t)
    PROVE  /\ loc' \in [Threads -> Local] /\ Others(t) /\ loc[t].pc = "retireCas"
           /\ Looks(t)
           /\ UNCHANGED <<epochs, head, memory, structure, history>>
<1>1. /\ loc[t].pc = "retireCas" /\ Goes(t, TrySlot(loc[t], head[loc[t].slot]))
      /\ UNCHANGED <<epochs, refs, birth, structure, minEpoch, todo, later>>
      /\ UNCHANGED <<head, next, held>>
  BY Zenon DEF RetireCas, Inserts, At
<1> QED
  BY <1>1, TriesSlot DEF memory, history, owed

LEMMA RetireFinishDoes ==
    ASSUME TypeOK, NEW t \in Threads, RetireFinish(t), loc[t].batch \in Batches
    PROVE  /\ loc' \in [Threads -> Local] /\ Others(t)
           /\ loc[t].pc = "retireFinish" /\ loc'[t].pc = "free"
           /\ SameClient(loc[t], loc'[t]) /\ SameWalks(loc[t], loc'[t])
           /\ SameRetire(loc[t], loc'[t]) /\ loc'[t].op = loc[t].op
           /\ loc'[t].list = Collected(loc[t].list, loc[t].batch, loc[t].adjs)
<1> DEFINE c == Collected(loc[t].list, loc[t].batch, loc[t].adjs)
           l == [loc[t] EXCEPT !.list = c, !.pc = "free"]
<1>1. Goes(t, l) /\ loc[t].pc = "retireFinish"
  BY DEF RetireFinish, At
<1>2. loc[t] \in Local /\ c \in SUBSET Batches
  BY Fields DEF TypeOK, Local, Collected
<1> HIDE DEF c
<1>3. l \in Local
  BY <1>2 DEF Local, Locals, Labels
<1>4. /\ l.pc = "free" /\ l.list = c /\ l.op = loc[t].op
      /\ SameClient(loc[t], l) /\ SameWalks(loc[t], l) /\ SameRetire(loc[t], l)
  BY <1>2 DEF Local, Locals, SameClient, SameWalks, SameRetire
<1> HIDE DEF l
<1> QED
  BY <1>1, <1>3, <1>4, GoesTo DEF Others, c

LEMMA FreeDoes ==
    ASSUME TypeOK, NEW t \in Threads, NEW b \in Batches, Free(t, b)
    PROVE  /\ loc' \in [Threads -> Local] /\ Others(t)
           /\ loc[t].pc = "free" /\ loc'[t].pc = "free" /\ b \in loc[t].list
           /\ SameClient(loc[t], loc'[t]) /\ SameWalks(loc[t], loc'[t])
           /\ SameRetire(loc[t], loc'[t]) /\ loc'[t].op = loc[t].op
           /\ loc'[t].list = loc[t].list \ {b}
<1> DEFINE c == loc[t].list \ {b}
           l == [loc[t] EXCEPT !.list = c]
<1>1. Goes(t, l) /\ loc[t].pc = "free" /\ b \in loc[t].list
  BY DEF Free, At
<1>2. loc[t] \in Local /\ c \in SUBSET Batches
  BY Fields DEF TypeOK, Local
<1> HIDE DEF c
<1>3. l \in Local
  BY <1>2 DEF Local, Locals
<1>4. /\ l.pc = loc[t].pc /\ l.list = c /\ l.op = loc[t].op
      /\ SameClient(loc[t], l) /\ SameWalks(loc[t], l) /\ SameRetire(loc[t], l)
  BY <1>2 DEF Local, Locals, SameClient, SameWalks, SameRetire
<1> HIDE DEF l
<1> QED
  BY <1>1, <1>3, <1>4, GoesTo DEF Others, c

LEMMA EndCallDoes ==
    ASSUME TypeOK, NEW t \in Threads, EndCall(t, Off)
    PROVE  /\ loc' \in [Threads -> Local] /\ Others(t)
           /\ loc[t].pc = "free" /\ loc[t].list = {} /\ loc'[t].list = {}
           /\ loc'[t].inside = loc[t].inside /\ loc'[t].holds = loc[t].holds
           /\ loc'[t].vec = loc[t].vec
           /\ loc[t].inside => loc'[t].smr = loc[t].smr
           /\ loc'[t].op = "none" /\ loc'[t].batch = NULL
           /\ loc'[t].slot = 0 /\ loc'[t].adjs = 0
           /\ loc'[t].pc = IF loc[t].op = "trimLeft" THEN "reenter" ELSE "idle"
<1> DEFINE k == Between(Off)
           l == [k EXCEPT !.inside = loc[t].inside, !.holds = loc[t].holds,
                          !.vec = loc[t].vec, !.smr = loc[t].smr]
           r == [l EXCEPT !.pc = "reenter"]
           n == [l EXCEPT !.smr = NULL]
<1>1. /\ loc[t].pc = "free" /\ loc[t].list = {}
      /\ Goes(t, IF loc[t].op = "trimLeft" THEN r ELSE IF loc[t].inside THEN l ELSE n)
  BY Zenon DEF EndCall, At
<1>2. loc[t] \in Local
  BY DEF TypeOK, Local
<1>3. k \in Local
  BY BetweenType
<1>4. /\ k.op = "none" /\ k.batch = NULL /\ k.slot = 0 /\ k.adjs = 0 /\ k.list = {}
      /\ k.pc = "idle"
  BY DEF Between
<1> HIDE DEF k
<1>5. l \in Local
  BY <1>2, <1>3 DEF Local, Locals
<1>6. /\ l.op = "none" /\ l.batch = NULL /\ l.slot = 0 /\ l.adjs = 0 /\ l.list = {}
      /\ l.pc = "idle" /\ SameClient(loc[t], l)
  BY <1>3, <1>4 DEF Local, Locals, SameClient
<1> HIDE DEF l
<1>7. r \in Local
  BY <1>5 DEF Local, Locals, Labels
<1>8. /\ r.op = "none" /\ r.batch = NULL /\ r.slot = 0 /\ r.adjs = 0 /\ r.list = {}
      /\ r.pc = "reenter" /\ SameClient(loc[t], r)
  BY <1>5, <1>6 DEF Local, Locals, SameClient
<1>9. n \in Local
  BY <1>5 DEF Local, Locals, Ptr
<1>10. /\ n.op = "none" /\ n.batch = NULL /\ n.slot = 0 /\ n.adjs = 0 /\ n.list = {}
       /\ n.pc = "idle" /\ n.inside = loc[t].inside /\ n.holds = loc[t].holds
       /\ n.vec = loc[t].vec
  BY <1>5, <1>6 DEF Local, Locals, SameClient
<1> HIDE DEF r, n
<1>11. CASE loc[t].op = "trimLeft"
  BY <1>1, <1>7, <1>8, <1>11, GoesTo DEF Others, SameClient
<1>12. CASE loc[t].op # "trimLeft" /\ loc[t].inside
  BY <1>1, <1>5, <1>6, <1>12, GoesTo DEF Others, SameClient
<1>13. CASE loc[t].op # "trimLeft" /\ ~loc[t].inside
  BY <1>1, <1>9, <1>10, <1>13, GoesTo DEF Others
<1> QED
  BY <1>11, <1>12, <1>13

-----------------------------------------------------------------------------
(* The steps, one by one, with what they leave alone.                      *)

\* The history of a common step that decrements no counter.
Plain ==
    /\ minEpoch' = [b \in Batches |-> IF status'[b] = "freed" THEN 0 ELSE minEpoch[b]]
    /\ UNCHANGED <<head, held, todo, later>>

Decrements(t) ==
    /\ TravDrop(t) /\ Drops(t) /\ UNCHANGED head
    /\ minEpoch' = [b \in Batches |-> IF status'[b] = "freed" THEN 0 ELSE minEpoch[b]]
Derefs(t) == Deref(t) /\ UNCHANGED <<head, history>>
Trims(t) ==
    (\E th \in TrimThresholds : Trim(t, th)) /\ Keeps(t) /\ UNCHANGED <<head, minEpoch>>
Retires(t) == \E e \in 0 .. global : RetireBegin(t, e)
Frees(t) == (\E b \in Batches : Free(t, b)) /\ Plain
Allocates == (\E b \in Batches : Alloc(b)) /\ UNCHANGED <<head, history>>
Links == (\E b \in Batches : Link(b)) /\ UNCHANGED <<head, history>>

Moves(t) ==
    \/ Enter(t) \/ Leave(t) \/ Derefs(t) \/ DerefAccess(t) \/ Decrements(t) \/ Ack(t)
    \/ Trims(t) \/ Retires(t) \/ RetireAccess(t) \/ RetireLoad(t) \/ RetireCas(t)
    \/ RetireFinish(t) \/ Frees(t)
    \/ Plain /\ (DerefLoad(t) \/ DerefEpoch(t) \/ TravRead(t) \/ TrimRead(t) \/ EndCall(t, Off))

LEMMA NextMoves ==
    ASSUME Next
    PROVE  Allocates \/ Links \/ \E t \in Threads : Moves(t)
<1>1. ASSUME NEW t \in Threads, CommonStep(t, Off),
             minEpoch' = [b \in Batches |-> IF status'[b] = "freed" THEN 0 ELSE minEpoch[b]],
             IF At(t, "travDrop") THEN Drops(t) ELSE UNCHANGED owed,
             UNCHANGED head
      PROVE  Moves(t)
  <2>1. CASE TravDrop(t)
    <3>1. At(t, "travDrop")
      BY <2>1 DEF TravDrop
    <3> QED
      BY <1>1, <2>1, <3>1 DEF Moves, Decrements
  <2>2. ASSUME ~At(t, "travDrop") PROVE Plain
    BY <1>1, <2>2 DEF Plain, owed
  <2>3. CASE DerefLoad(t)
    <3>1. ~At(t, "travDrop")
      BY <2>3 DEF DerefLoad, At
    <3> QED
      BY <2>2, <2>3, <3>1 DEF Moves
  <2>4. CASE DerefEpoch(t)
    <3>1. ~At(t, "travDrop")
      BY <2>4 DEF DerefEpoch, At
    <3> QED
      BY <2>2, <2>4, <3>1 DEF Moves
  <2>5. CASE TravRead(t)
    <3>1. ~At(t, "travDrop")
      BY <2>5 DEF TravRead, At
    <3> QED
      BY <2>2, <2>5, <3>1 DEF Moves
  <2>6. CASE TrimRead(t)
    <3>1. ~At(t, "travDrop")
      BY <2>6 DEF TrimRead, At
    <3> QED
      BY <2>2, <2>6, <3>1 DEF Moves
  <2>7. CASE EndCall(t, Off)
    <3>1. ~At(t, "travDrop")
      BY <2>7 DEF EndCall, At
    <3> QED
      BY <2>2, <2>7, <3>1 DEF Moves
  <2>8. CASE \E b \in Batches : Free(t, b)
    <3>1. ~At(t, "travDrop")
      BY <2>8 DEF Free, At
    <3> QED
      BY <2>2, <2>8, <3>1 DEF Moves, Frees
  <2> QED
    BY <1>1, <2>1, <2>3, <2>4, <2>5, <2>6, <2>7, <2>8 DEF CommonStep
<1>2. ASSUME NEW t \in Threads, Enter(t) \/ Leave(t) \/ Call(t) \/ Step(t)
      PROVE  Moves(t)
  <2>1. CASE Enter(t) \/ Leave(t)
    BY <2>1 DEF Moves
  <2>2. CASE Call(t)
    BY <2>2 DEF Call, Moves, Derefs, Trims, Retires
  <2>3. CASE Step(t)
    BY <1>1, <2>3 DEF Step, Moves
  <2> QED
    BY <1>2, <2>1, <2>2, <2>3
<1>3. Structure /\ UNCHANGED <<head, history>> => Allocates \/ Links
  BY DEF Structure, Allocates, Links
<1> QED
  BY <1>2, <1>3 DEF Next

-----------------------------------------------------------------------------
(* What a thread is ready for.                                             *)

\* The batches a thread is about to touch, and where they stand in its chains.
LEMMA Ready ==
    ASSUME TypeOK, NEW t \in Threads, ThreadOK(t)
    PROVE  /\ loc[t] \in Local /\ loc[t].vec = t
           /\ loc[t].inside => (head[t].ptr = NULL <=> held[t] = <<>>)
           /\ loc[t].inside /\ head[t].ptr # loc[t].smr =>
                held[t] # <<>> /\ head[t].ptr = held[t][1] /\ head[t].ptr \in Batches
           /\ loc[t].pc = "travDrop" =>
                /\ todo[t] # <<>> /\ loc[t].walk.curr = todo[t][1]
                /\ loc[t].walk.curr \in Batches
           /\ loc[t].pc = "trimRead" => loc[t].smr \in Batches
           /\ loc[t].pc \in RetireLabels => loc[t].batch \in Batches
<1>1. /\ loc[t] \in Local /\ loc[t].vec = t /\ loc[t].smr \in Ptr /\ loc[t].batch \in Ptr
      /\ held[t] \in Seq(Batches) /\ todo[t] \in Seq(Batches)
  <2>1. loc[t] \in Local
    BY DEF TypeOK, Local
  <2> QED
    BY <2>1, Fields DEF TypeOK, ThreadOK, ControlOK
<1>2. ASSUME loc[t].inside
      PROVE  /\ head[t].ptr = NULL <=> held[t] = <<>>
             /\ held[t] = <<>> => loc[t].smr = NULL
             /\ held[t] # <<>> => head[t].ptr = held[t][1] /\ head[t].ptr \in Batches
  <2>1. Chain(next, t, held[t], head[t].ptr, loc[t].smr)
    BY <1>2 DEF ThreadOK, ChainOK
  <2> QED
    BY <1>1, <2>1, TailFacts, Constants DEF Chain
<1>3. loc[t].pc = "travDrop" =>
        /\ todo[t] # <<>> /\ loc[t].walk.curr = todo[t][1] /\ loc[t].walk.curr \in Batches
  <2>1. loc[t].pc = "travDrop" =>
          todo[t] # <<>> /\ Chain(next, t, todo[t], loc[t].walk.curr, loc[t].walk.end)
    BY DEF ThreadOK, ChainOK
  <2> QED
    BY <1>1, <2>1, TailFacts DEF Chain
<1>4. loc[t].pc = "trimRead" => loc[t].smr \in Batches
  BY <1>1 DEF ThreadOK, ChainOK, Ptr
<1>5. loc[t].pc \in RetireLabels => loc[t].batch \in Batches
  BY <1>1 DEF ThreadOK, ControlOK, Ptr
<1> QED
  BY <1>1, <1>2, <1>3, <1>4, <1>5

\* The locals keep their types, and only those of one thread change.
LEMMA LocType ==
    ASSUME TypeOK, ThreadInv, NEW t \in Threads, Moves(t)
    PROVE  loc' \in [Threads -> Local] /\ Others(t)
<1>1. ThreadOK(t)
  BY DEF ThreadInv
<1>2. CASE Derefs(t)
  BY <1>1, <1>2, Ready, DerefDoes DEF Derefs
<1>3. CASE Decrements(t)
  <2>1. loc[t].pc = "travDrop"
    BY <1>3 DEF Decrements, TravDrop, At
  <2> QED
    BY <1>1, <1>3, <2>1, Ready, TravDropDoes DEF Decrements
<1>4. CASE Trims(t)
  BY <1>1, <1>4, Ready, TrimDoes DEF Trims
<1>5. CASE Retires(t)
  BY <1>5, RetireDoes DEF Retires, RetireBegin
<1>6. CASE RetireCas(t)
  <2>1. loc[t].pc = "retireCas"
    BY <1>6 DEF RetireCas, At
  <2>2. loc[t].batch \in Batches
    BY <1>1, <2>1, Ready DEF RetireLabels
  <2>3. CASE Inserts(t)
    BY <2>2, <2>3, InsertDoes
  <2>4. CASE ~Inserts(t)
    BY <1>6, <2>4, InsertFails
  <2> QED
    BY <2>3, <2>4
<1>7. CASE RetireFinish(t)
  <2>1. loc[t].pc = "retireFinish"
    BY <1>7 DEF RetireFinish, At
  <2> QED
    BY <1>1, <1>7, <2>1, Ready, RetireFinishDoes DEF RetireLabels
<1>8. CASE Frees(t)
  BY <1>8, FreeDoes DEF Frees
<1>9. CASE TravRead(t)
  BY <1>1, <1>9, Ready, TravReadDoes
<1>10. CASE TrimRead(t)
  <2>1. loc[t].pc = "trimRead"
    BY <1>10 DEF TrimRead, At
  <2> QED
    BY <1>1, <1>10, <2>1, Ready, TrimReadDoes
<1> QED
  BY <1>2, <1>3, <1>4, <1>5, <1>6, <1>7, <1>8, <1>9, <1>10, EnterDoes, LeaveDoes,
     DerefAccessDoes, AckDoes, RetireAccessDoes, RetireLoadDoes, DerefLoadDoes,
     DerefEpochDoes, EndCallDoes DEF Moves

\* The history keeps its types.
LEMMA OwedType ==
    ASSUME TypeOK, ThreadInv, NEW t \in Threads, Moves(t)
    PROVE  /\ held' \in [Threads -> Seq(Batches)]
           /\ todo' \in [Threads -> Seq(Batches)]
           /\ later' \in [Threads -> Seq(Batches)]
<1> DEFINE Good == /\ held' \in [Threads -> Seq(Batches)]
                   /\ todo' \in [Threads -> Seq(Batches)]
                   /\ later' \in [Threads -> Seq(Batches)]
<1>1. ThreadOK(t)
  BY DEF ThreadInv
<1>2. UNCHANGED owed => Good
  BY DEF TypeOK, owed
<1>3. /\ held \in [Threads -> Seq(Batches)] /\ todo \in [Threads -> Seq(Batches)]
      /\ later \in [Threads -> Seq(Batches)] /\ <<>> \in Seq(Batches)
  BY DEF TypeOK
<1>4. Returns(t) /\ UNCHANGED held => Good
  BY <1>3 DEF Returns
<1>5. ASSUME Leave(t) PROVE Good
  <2>1. Takes(t, head[t].ptr)
    BY <1>5 DEF Leave
  <2> QED
    BY <1>3, <2>1 DEF Takes, Returns
<1>6. ASSUME Decrements(t) PROVE Good
  <2>1. Drops(t) /\ todo[t] # <<>>
    BY <1>1, <1>6, Ready DEF Decrements, TravDrop, At
  <2>2. Tail(todo[t]) \in Seq(Batches)
    BY <1>3, <2>1, TailFacts
  <2> QED
    BY <1>3, <2>1, <2>2 DEF Drops
<1>7. ASSUME Trims(t) PROVE Good
  <2>1. loc[t].inside /\ Keeps(t)
    BY <1>1, <1>7, Ready, TrimDoes DEF Trims
  <2>2. CASE head[t].ptr = loc[t].smr
    BY <1>3, <2>1, <2>2 DEF Keeps
  <2>3. CASE head[t].ptr # loc[t].smr
    <3>1. head[t].ptr \in Batches /\ held[t] # <<>>
      BY <1>1, <2>1, <2>3, Ready
    <3>2. Tail(held[t]) \in Seq(Batches) /\ <<head[t].ptr>> \in Seq(Batches)
      BY <1>3, <3>1, TailFacts, InSingle
    <3> QED
      BY <1>3, <2>1, <2>3, <3>2 DEF Keeps
  <2> QED
    BY <2>2, <2>3
<1>8. ASSUME RetireCas(t) PROVE Good
  <2>1. loc[t].pc = "retireCas"
    BY <1>8 DEF RetireCas, At
  <2>2. loc[t].batch \in Batches
    BY <1>1, <2>1, Ready DEF RetireLabels
  <2>3. CASE Inserts(t)
    BY <1>3, <2>2, <2>3, InsertDoes
  <2>4. CASE ~Inserts(t)
    BY <1>2, <1>8, <2>4, InsertFails DEF history
  <2> QED
    BY <2>3, <2>4
<1>9. ASSUME Ack(t) PROVE Good
  BY <1>4, <1>9 DEF Ack
<1> HIDE DEF Good
<1>10. Good
  BY <1>2, <1>5, <1>6, <1>7, <1>8, <1>9
     DEF Moves, Enter, Derefs, DerefAccess, Retires, RetireBegin, RetireAccess, RetireLoad,
         RetireFinish, Frees, Plain, history, owed
<1> QED
  BY <1>10 DEF Good

\* The shared words keep their types.
LEMMA WordsType ==
    ASSUME TypeOK, ThreadInv, NEW t \in Threads, Moves(t)
    PROVE  /\ global' = global /\ access' \in [Slots -> Epoch]
           /\ head' \in [Slots -> HeadWord] /\ next' \in [Batches -> [Slots -> Ptr]]
           /\ refs' \in [Batches -> Word]
<1>1. ThreadOK(t) /\ Mod \in Nat \ {0} /\ MinusOne \in Word /\ 0 \in Word
  BY WordClosed, Constants DEF ThreadInv
<1> DEFINE Good == /\ global' = global /\ access' \in [Slots -> Epoch]
                   /\ head' \in [Slots -> HeadWord]
                   /\ next' \in [Batches -> [Slots -> Ptr]]
                   /\ refs' \in [Batches -> Word]
<1>2. UNCHANGED <<global, access, head, next, refs>> => Good
  BY DEF TypeOK
<1>3. ASSUME NEW b \in Batches, NEW v \in Word, Adjust(b, v),
             UNCHANGED <<global, access, head, next>>
      PROVE  Good
  BY <1>1, <1>3, WordClosed DEF TypeOK, Adjust
<1>4. ASSUME Enter(t) PROVE Good
  BY <1>4, Constants DEF Enter, TypeOK, HeadWord, epochs, memory
<1>5. ASSUME Leave(t) PROVE Good
  BY <1>5, Constants DEF Leave, TypeOK, epochs, memory
<1>6. ASSUME DerefAccess(t) PROVE Good
  BY <1>6, DerefAccessDoes DEF DerefAccess, TypeOK, memory
<1>7. ASSUME Decrements(t) PROVE Good
  <2>1. loc[t].pc = "travDrop" /\ Adjust(loc[t].walk.curr, MinusOne)
        /\ UNCHANGED <<global, access, head, next>>
    BY <1>7 DEF Decrements, TravDrop, At, epochs
  <2>2. loc[t].walk.curr \in Batches
    BY <1>1, <2>1, Ready
  <2> QED
    BY <1>1, <1>3, <2>1, <2>2
<1>8. ASSUME Retires(t) PROVE Good
  <2>1. UNCHANGED <<global, access, head, next>> /\ refs' = [refs EXCEPT ![root] = 0]
    BY <1>8 DEF Retires, RetireBegin, Retire, epochs
  <2> QED
    BY <1>1, <2>1 DEF TypeOK
<1>9. ASSUME RetireCas(t) PROVE Good
  <2>1. loc[t].pc = "retireCas"
    BY <1>9 DEF RetireCas, At
  <2>2. loc[t].batch \in Batches
    BY <1>1, <2>1, Ready DEF RetireLabels
  <2>3. CASE Inserts(t)
    BY <2>2, <2>3, InsertDoes DEF TypeOK, epochs
  <2>4. CASE ~Inserts(t)
    BY <1>2, <1>9, <2>4, InsertFails DEF epochs, memory
  <2> QED
    BY <2>3, <2>4
<1>10. ASSUME RetireFinish(t) PROVE Good
  <2>1. loc[t].pc = "retireFinish" /\ Adjust(loc[t].batch, loc[t].adjs)
        /\ UNCHANGED <<global, access, head, next>>
    BY <1>10 DEF RetireFinish, At, epochs
  <2>2. loc[t].batch \in Batches /\ loc[t].adjs \in Word
    BY <1>1, <2>1, Ready, Fields DEF RetireLabels
  <2> QED
    BY <1>3, <2>1, <2>2
<1>11. ASSUME Frees(t) PROVE Good
  <2>1. PICK b \in Batches : next' = [next EXCEPT ![b] = [s \in Slots |-> NULL]]
    BY <1>11 DEF Frees, Free
  <2>2. UNCHANGED <<global, access, head, refs>>
    BY <1>11 DEF Frees, Free, Plain, epochs
  <2> QED
    BY <2>1, <2>2, Constants DEF TypeOK
<1> HIDE DEF Good
<1>12. ASSUME Derefs(t) \/ Ack(t) \/ Trims(t) \/ RetireAccess(t) \/ RetireLoad(t)
              \/ (Plain /\ (DerefLoad(t) \/ DerefEpoch(t) \/ TravRead(t) \/ TrimRead(t)
                            \/ EndCall(t, Off)))
       PROVE  Good
  <2>1. UNCHANGED <<global, access, head, next, refs>>
    BY <1>12 DEF Derefs, Deref, Ack, Trims, Trim, RetireAccess, RetireLoad, Plain,
       DerefLoad, DerefEpoch, TravRead, TrimRead, EndCall, epochs, memory
  <2> QED
    BY <1>2, <2>1
<1>13. Good
  BY <1>4, <1>5, <1>6, <1>7, <1>8, <1>9, <1>10, <1>11, <1>12 DEF Moves
<1> QED
  BY <1>13 DEF Good

\* The client's structure keeps its types.
LEMMA ClientType ==
    ASSUME TypeOK, ThreadInv, NEW t \in Threads, Moves(t)
    PROVE  /\ birth' \in [Batches -> Epoch] /\ minEpoch' \in [Batches -> Epoch]
           /\ root' \in Ptr
           /\ status' \in [Batches -> {"freed", "new", "linked", "retired"}]
<1> DEFINE Good == /\ birth' \in [Batches -> Epoch] /\ root' \in Ptr
                   /\ status' \in [Batches -> {"freed", "new", "linked", "retired"}]
           Epochs == minEpoch' \in [Batches -> Epoch]
<1>1. UNCHANGED <<birth, root, status>> => Good
  BY DEF TypeOK
<1>2. ASSUME Retires(t) PROVE Good /\ Epochs
  <2>1. /\ birth' = birth /\ root' = NULL /\ status' = [status EXCEPT ![root] = "retired"]
        /\ minEpoch' = [minEpoch EXCEPT ![root] = loc'[t].min]
    BY <1>2 DEF Retires, RetireBegin, Retire
  <2>2. loc'[t].min \in Epoch
    BY <1>2, RetireDoes DEF Retires, RetireBegin
  <2> QED
    BY <2>1, <2>2, Constants DEF TypeOK
<1>3. ASSUME NEW b \in Batches, Free(t, b) PROVE Good
  <2>1. /\ birth' = [birth EXCEPT ![b] = 0] /\ root' = root
        /\ status' = [status EXCEPT ![b] = "freed"]
    BY <1>3 DEF Free
  <2> QED
    BY <2>1, Constants DEF TypeOK
<1>4. minEpoch' = minEpoch => Epochs
  BY DEF TypeOK
<1>5. minEpoch' = [b \in Batches |-> IF status'[b] = "freed" THEN 0 ELSE minEpoch[b]]
        => Epochs
  BY Constants DEF TypeOK
<1> HIDE DEF Good, Epochs
<1>6. ASSUME Frees(t) PROVE Good /\ Epochs
  <2>1. PICK b \in Batches : Free(t, b)
    BY <1>6 DEF Frees
  <2>2. minEpoch' = [b2 \in Batches |-> IF status'[b2] = "freed" THEN 0 ELSE minEpoch[b2]]
    BY <1>6 DEF Frees, Plain
  <2> QED
    BY <1>3, <1>5, <2>1, <2>2
<1>7. ASSUME Plain, \/ DerefLoad(t) \/ DerefEpoch(t) \/ TravRead(t) \/ TrimRead(t)
                    \/ EndCall(t, Off)
      PROVE  Good /\ Epochs
  <2>1. UNCHANGED <<birth, root, status>>
    BY <1>7 DEF DerefLoad, DerefEpoch, TravRead, TrimRead, EndCall, memory, structure
  <2>2. minEpoch' = [b \in Batches |-> IF status'[b] = "freed" THEN 0 ELSE minEpoch[b]]
    BY <1>7 DEF Plain
  <2> QED
    BY <1>1, <1>5, <2>1, <2>2
<1>8. ASSUME Decrements(t) PROVE Good /\ Epochs
  <2>1. UNCHANGED <<birth, root, status>>
    BY <1>8 DEF Decrements, TravDrop, structure
  <2>2. minEpoch' = [b \in Batches |-> IF status'[b] = "freed" THEN 0 ELSE minEpoch[b]]
    BY <1>8 DEF Decrements
  <2> QED
    BY <1>1, <1>5, <2>1, <2>2
<1>9. ASSUME \/ Enter(t) \/ Leave(t) \/ Derefs(t) \/ DerefAccess(t) \/ Ack(t) \/ Trims(t)
             \/ RetireAccess(t) \/ RetireLoad(t) \/ RetireCas(t) \/ RetireFinish(t)
      PROVE  Good /\ Epochs
  <2>1. UNCHANGED <<birth, root, status>>
    <3>1. Derefs(t) => UNCHANGED <<birth, root, status>>
      BY DEF Derefs, Deref, memory, structure
    <3>2. Trims(t) => UNCHANGED <<birth, root, status>>
      BY DEF Trims, Trim, memory, structure
    <3> QED
      BY <1>9, <3>1, <3>2 DEF Enter, Leave, DerefAccess, Ack, RetireAccess, RetireLoad,
         RetireCas, RetireFinish, memory, structure
  <2>2. minEpoch' = minEpoch
    BY <1>9 DEF Enter, Leave, Derefs, DerefAccess, Ack, Trims, RetireAccess, RetireLoad,
       RetireCas, RetireFinish, history
  <2> QED
    BY <1>1, <1>4, <2>1, <2>2
<1>10. Good /\ Epochs
  BY <1>2, <1>6, <1>7, <1>8, <1>9 DEF Moves
<1> QED
  BY <1>10 DEF Good, Epochs

\* Every step keeps the types.
LEMMA TypeStep == TypeOK /\ ThreadInv /\ [Next]_vars => TypeOK'
<1> SUFFICES ASSUME TypeOK, ThreadInv, [Next]_vars PROVE TypeOK'
  OBVIOUS
<1>1. CASE UNCHANGED vars
  BY <1>1 DEF TypeOK, vars
<1>2. CASE Allocates
  <2>1. PICK b \in Batches : Alloc(b)
    BY <1>2 DEF Allocates
  <2>2. global' \in Epoch /\ global \in Nat
    BY <2>1, Constants DEF Alloc, TypeOK, Epoch
  <2>3. birth' \in [Batches -> Epoch]
    BY <2>1, <2>2 DEF Alloc, TypeOK
  <2>4. status' \in [Batches -> {"freed", "new", "linked", "retired"}]
    BY <2>1 DEF Alloc, TypeOK
  <2> QED
    BY <1>2, <2>1, <2>2, <2>3, <2>4 DEF Allocates, Alloc, TypeOK, history, owed
<1>3. CASE Links
  <2>1. PICK b \in Batches : Link(b)
    BY <1>3 DEF Links
  <2>2. status' \in [Batches -> {"freed", "new", "linked", "retired"}] /\ root' \in Ptr
    BY <2>1 DEF Link, TypeOK, Ptr
  <2> QED
    BY <1>3, <2>1, <2>2 DEF Links, Link, TypeOK, history, owed, epochs, memory
<1>4. ASSUME NEW t \in Threads, Moves(t) PROVE TypeOK'
  <2>1. loc' \in [Threads -> Locals(HeadWord, Labels)] /\ global' \in Epoch
    BY <1>4, LocType, WordsType DEF Local, TypeOK
  <2> QED
    BY <1>4, <2>1, OwedType, WordsType, ClientType DEF TypeOK
<1> QED
  BY <1>1, <1>2, <1>3, <1>4, NextMoves

-----------------------------------------------------------------------------
(* The invariant of a thread, of a state that is given by its parts: l the *)
(* locals, w the head word of the slot, nx the next pointers, h, d, r the  *)
(* batches held, todo and later, a the epoch of the slot and g the global. *)

Walking == {"trimRead", "travRead", "travDrop"}

SlotFits(l, w, h) ==
    /\ w.on <=> l.inside
    /\ ~l.inside => w = Off /\ h = <<>> /\ l.holds = {}

ControlFits(t, l, d, r) ==
    /\ l.vec = t
    /\ l.pc \in {"idle", "reenter"} <=> l.op = "none"
    /\ l.pc \in DerefLabels <=> l.op = "deref"
    /\ l.batch # NULL <=> l.op = "retire"
    /\ l.pc \in RetireLabels => l.op = "retire"
    /\ l.op = "retire" => l.pc \in RetireLabels \union {"free"}
    /\ l.op \in {"leave", "trimLeft"} => l.pc \in {"travRead", "travDrop", "ack", "free"}
    /\ l.op = "trim" => l.pc \in {"trimRead", "travRead", "travDrop", "ack", "free"}
    /\ l.op = "nested" => l.pc \in {"leaveLoad", "travRead", "travDrop", "ack"}
    /\ l.pc = "leaveLoad" => l.op = "nested"
    /\ l.pc = "trimRead" => l.op = "trim"
    /\ l.op \in {"deref", "trim", "retire"} \/ l.pc = "leaveLoad" => l.inside
    /\ l.op \in {"leave", "trimLeft"} \/ l.pc = "reenter" => ~l.inside
    /\ l.op = "nested" /\ l.pc # "leaveLoad" => ~l.inside
    /\ l.pc = "retireCas" => l.last.on
    /\ l.op # "retire" => l.slot = 0 /\ l.adjs = 0
    /\ l.op \in {"none", "deref"} => l.list = {}
    /\ l.pc \notin Walking => d = <<>>
    /\ l.op # "nested" => r = <<>>

ChainFits(t, l, nx, p, h, d, r) ==
    /\ l.inside => Chain(nx, t, h, p, l.smr)
    /\ l.pc = "trimRead" =>
         /\ l.smr # NULL /\ InSeq(l.smr, h)
         /\ Chain(nx, t, d, nx[l.smr][t], l.walk.end)
    /\ l.pc = "travRead" => Chain(nx, t, d, l.walk.nxt, l.walk.end)
    /\ l.pc = "travDrop" =>
         /\ d # <<>>
         /\ Chain(nx, t, d, l.walk.curr, l.walk.end)
         /\ l.walk.nxt = nx[l.walk.curr][t]
    /\ l.op = "nested" =>
         IF l.outer.curr = l.outer.end THEN r = <<>>
         ELSE Chain(nx, t, r, l.outer.nxt, l.outer.end)

OnceFits(h, d, r) ==
    /\ Distinct(h) /\ Distinct(d) /\ Distinct(r)
    /\ Disjoint(h, d) /\ Disjoint(h, r) /\ Disjoint(d, r)

EpochFits(l, a, g) ==
    /\ a <= g
    /\ l.pc \in DerefLabels => l.acc = a
    /\ l.pc = "derefAccess" => a <= l.glob /\ l.glob <= g

Fits(t, l, w, nx, h, d, r, a, g) ==
    /\ SlotFits(l, w, h) /\ ControlFits(t, l, d, r) /\ ChainFits(t, l, nx, w.ptr, h, d, r)
    /\ OnceFits(h, d, r) /\ EpochFits(l, a, g)

\* That is what ThreadOK says of the state, and of the next one.
LEMMA ThreadFits ==
    ASSUME NEW t \in Threads
    PROVE  /\ ThreadOK(t) <=> Fits(t, loc[t], head[t], next, held[t], todo[t], later[t],
                                   access[t], global)
           /\ ThreadOK(t)' <=> Fits(t, loc'[t], head'[t], next', held'[t], todo'[t],
                                    later'[t], access'[t], global')
<1>1. /\ SlotOK(t) <=> SlotFits(loc[t], head[t], held[t])
      /\ SlotOK(t)' <=> SlotFits(loc'[t], head'[t], held'[t])
  BY DEF SlotOK, SlotFits
<1>2. /\ ControlOK(t) <=> ControlFits(t, loc[t], todo[t], later[t])
      /\ ControlOK(t)' <=> ControlFits(t, loc'[t], todo'[t], later'[t])
  BY DEF ControlOK, ControlFits, Walking
<1>3. ChainOK(t) <=> ChainFits(t, loc[t], next, head[t].ptr, held[t], todo[t], later[t])
  BY DEF ChainOK, ChainFits
<1>4. ChainOK(t)' <=> ChainFits(t, loc'[t], next', head'[t].ptr, held'[t], todo'[t],
                                later'[t])
  BY DEF ChainOK, ChainFits
<1>5. /\ OnceOK(t) <=> OnceFits(held[t], todo[t], later[t])
      /\ OnceOK(t)' <=> OnceFits(held'[t], todo'[t], later'[t])
  BY DEF OnceOK, OnceFits
<1>6. /\ EpochOK(t) <=> EpochFits(loc[t], access[t], global)
      /\ EpochOK(t)' <=> EpochFits(loc'[t], access'[t], global')
  BY DEF EpochOK, EpochFits
<1> QED
  BY <1>1, <1>2, <1>3, <1>4, <1>5, <1>6 DEF ThreadOK, Fits

\* What a call that walks no list leaves of the pointers of its thread, and
\* what the steps of the others do: the links they go by stay.
Steady(l, m) ==
    /\ m.inside = l.inside /\ (m.inside => m.smr = l.smr)
    /\ \/ SameWalks(l, m) /\ m.smr = l.smr /\ m.pc = l.pc /\ m.op = l.op
       \/ m.pc \notin Walking /\ m.op # "nested"

LEMMA ChainsStay ==
    ASSUME NEW t, NEW l, NEW m, NEW nx, NEW ny, NEW p,
           NEW h \in Seq(Batches), NEW d \in Seq(Batches), NEW r \in Seq(Batches),
           \A b \in Batches : InSeq(b, h) \/ InSeq(b, d) \/ InSeq(b, r) =>
                ny[b][t] = nx[b][t],
           ChainFits(t, l, nx, p, h, d, r), Steady(l, m)
    PROVE  ChainFits(t, m, ny, p, h, d, r)
<1>1. /\ \A b : InSeq(b, h) \/ InSeq(b, d) \/ InSeq(b, r) => b \in Batches
      /\ d # <<>> => InSeq(d[1], d)
  <2>1. \A q \in Seq(Batches) : \A b : InSeq(b, q) => b \in Batches
    BY ElementOfSeq DEF InSeq
  <2>2. d # <<>> => Len(d) \in Nat \ {0}
    BY TailFacts
  <2> QED
    BY <2>1, <2>2 DEF InSeq
<1>2. /\ \A x, e : Chain(nx, t, h, x, e) => Chain(ny, t, h, x, e)
      /\ \A x, e : Chain(nx, t, d, x, e) => Chain(ny, t, d, x, e)
      /\ \A x, e : Chain(nx, t, r, x, e) => Chain(ny, t, r, x, e)
  BY <1>1, ChainFrame
<1>3. m.inside => Chain(ny, t, h, p, m.smr)
  BY <1>2 DEF ChainFits, Steady
<1>4. CASE m.pc \notin Walking /\ m.op # "nested"
  BY <1>3, <1>4 DEF ChainFits, Walking
<1>5. CASE SameWalks(l, m) /\ m.smr = l.smr /\ m.pc = l.pc /\ m.op = l.op
  <2>1. m.pc = "trimRead" =>
          /\ m.smr # NULL /\ InSeq(m.smr, h)
          /\ Chain(ny, t, d, ny[m.smr][t], m.walk.end)
    BY <1>1, <1>2, <1>5 DEF ChainFits, SameWalks
  <2>2. m.pc = "travDrop" =>
          /\ d # <<>>
          /\ Chain(ny, t, d, m.walk.curr, m.walk.end)
          /\ m.walk.nxt = ny[m.walk.curr][t]
    <3>1. m.pc = "travDrop" => /\ d # <<>> /\ Chain(nx, t, d, m.walk.curr, m.walk.end)
                               /\ m.walk.nxt = nx[m.walk.curr][t]
      BY <1>5 DEF ChainFits, SameWalks
    <3>2. m.pc = "travDrop" => m.walk.curr = d[1]
      BY <3>1 DEF Chain
    <3> QED
      BY <1>1, <1>2, <3>1, <3>2
  <2>3. m.op = "nested" => IF m.outer.curr = m.outer.end THEN r = <<>>
                           ELSE Chain(ny, t, r, m.outer.nxt, m.outer.end)
    BY <1>2, <1>5 DEF ChainFits, SameWalks
  <2>4. m.pc = "travRead" => Chain(ny, t, d, m.walk.nxt, m.walk.end)
    BY <1>2, <1>5 DEF ChainFits, SameWalks
  <2> QED
    BY <1>3, <2>1, <2>2, <2>3, <2>4 DEF ChainFits
<1> QED
  BY <1>4, <1>5 DEF Steady

\* A batch that the thread does not owe becomes the head of its slot.
LEMMA ChainsGrow ==
    ASSUME NEW t, NEW l, NEW m, NEW nx, NEW ny, NEW p,
           NEW h \in Seq(Batches), NEW d \in Seq(Batches), NEW r \in Seq(Batches),
           NEW b \in Batches, ~InSeq(b, h), ~InSeq(b, d), ~InSeq(b, r),
           ny[b][t] = p, \A c \in Batches : c # b => ny[c][t] = nx[c][t],
           ChainFits(t, l, nx, p, h, d, r), Steady(l, m), l.inside
    PROVE  ChainFits(t, m, ny, b, <<b>> \o h, d, r)
<1>1. ChainFits(t, m, ny, p, h, d, r)
  BY ChainsStay
<1>2. Chain(ny, t, <<b>> \o h, b, m.smr)
  <2>1. Chain(ny, t, h, p, m.smr)
    BY <1>1 DEF ChainFits, Steady
  <2> QED
    BY <2>1, ChainCons, Constants
<1>3. \A c : InSeq(c, h) => InSeq(c, <<b>> \o h)
  BY InCons
<1> DEFINE n == <<b>> \o h
<1> HIDE DEF n
<1>4. ChainFits(t, m, ny, b, n, d, r)
  BY <1>1, <1>2, <1>3 DEF ChainFits, n
<1> QED
  BY <1>4 DEF n

-----------------------------------------------------------------------------
(* What a step leaves behind of the invariant of each thread.              *)

\* The thread owes the same decrements, and its pointers still lead to them.
Settled(t) == ThreadOK(t)' /\ \A b : Owes(t, b)' <=> Owes(t, b)

LEMMA OwedSeqs ==
    ASSUME TypeOK, NEW u \in Threads
    PROVE  /\ held[u] \in Seq(Batches) /\ todo[u] \in Seq(Batches)
           /\ later[u] \in Seq(Batches)
           /\ access[u] \in Nat /\ global \in Nat /\ loc[u] \in Local
           /\ head[u] \in HeadWord
BY Constants DEF TypeOK, Epoch, Local

LEMMA Rests ==
    ASSUME TypeOK, NEW u \in Threads, ThreadOK(u),
           Steady(loc[u], loc'[u]), loc'[u].inside \/ loc'[u].holds = loc[u].holds,
           ControlFits(u, loc'[u], todo[u], later[u]),
           EpochFits(loc'[u], access'[u], global'),
           head'[u] = head[u], held'[u] = held[u], todo'[u] = todo[u], later'[u] = later[u],
           \A b \in Batches : Owes(u, b) => next'[b][u] = next[b][u]
    PROVE  Settled(u)
<1>1. /\ SlotFits(loc[u], head[u], held[u])
      /\ ChainFits(u, loc[u], next, head[u].ptr, held[u], todo[u], later[u])
      /\ OnceFits(held[u], todo[u], later[u])
  BY ThreadFits DEF Fits
<1>2. ChainFits(u, loc'[u], next', head[u].ptr, held[u], todo[u], later[u])
  BY <1>1, OwedSeqs, ChainsStay DEF Owes
<1>3. SlotFits(loc'[u], head[u], held[u])
  BY <1>1 DEF SlotFits, Steady
<1>4. Fits(u, loc'[u], head'[u], next', held'[u], todo'[u], later'[u], access'[u], global')
  BY <1>1, <1>2, <1>3 DEF Fits
<1> QED
  BY <1>4, ThreadFits DEF Settled, Owes

\* A step that leaves the locals and the slot of u alone.
LEMMA OtherRests ==
    ASSUME TypeOK, NEW u \in Threads, ThreadOK(u), loc'[u] = loc[u],
           access'[u] = access[u], global' \in Nat, global <= global',
           head'[u] = head[u], held'[u] = held[u], todo'[u] = todo[u], later'[u] = later[u],
           \A b \in Batches : Owes(u, b) => next'[b][u] = next[b][u]
    PROVE  Settled(u)
<1>1. /\ ControlFits(u, loc[u], todo[u], later[u])
      /\ EpochFits(loc[u], access[u], global)
  BY ThreadFits DEF Fits
<1>2. Steady(loc[u], loc'[u])
  BY DEF Steady, SameWalks
<1>3. EpochFits(loc'[u], access'[u], global')
  <2>1. loc[u].glob \in Nat
    BY OwedSeqs, Fields DEF Epoch
  <2> QED
    BY <1>1, <2>1, OwedSeqs DEF EpochFits
<1> QED
  BY <1>1, <1>2, <1>3, Rests

\* A step that writes nothing but the locals of t and the client's words.
LEMMA LocalRests ==
    ASSUME TypeOK, NEW t \in Threads, ThreadOK(t),
           Steady(loc[t], loc'[t]), loc'[t].inside \/ loc'[t].holds = loc[t].holds,
           ControlFits(t, loc'[t], todo[t], later[t]),
           EpochFits(loc'[t], access[t], global),
           UNCHANGED <<epochs, head, next, held, todo, later>>
    PROVE  Settled(t)
BY Rests DEF epochs

LEMMA DerefRests ==
    ASSUME TypeOK, NEW t \in Threads, ThreadOK(t), Derefs(t)
    PROVE  Settled(t)
<1> DEFINE l == loc[t]
           m == loc'[t]
<1>1. /\ ControlFits(t, l, todo[t], later[t]) /\ EpochFits(l, access[t], global)
  BY ThreadFits DEF Fits
<1>2. /\ l.pc = "idle" /\ l.inside /\ m.op = "deref" /\ m.pc = "derefLoad"
      /\ m.acc = access[t] /\ m.list = l.list
      /\ SameClient(l, m) /\ SameWalks(l, m) /\ SameRetire(l, m)
  BY DerefDoes, Ready DEF Derefs
<1>3. UNCHANGED <<epochs, head, next, held, todo, later>>
  BY DEF Derefs, Deref, memory, history, owed
<1> HIDE DEF l, m
<1>4. ControlFits(t, m, todo[t], later[t])
  BY <1>1, <1>2 DEF ControlFits, SameClient, SameRetire, DerefLabels, RetireLabels, Walking
<1>5. EpochFits(m, access[t], global)
  BY <1>1, <1>2 DEF EpochFits
<1>6. Steady(l, m) /\ (m.inside \/ m.holds = l.holds)
  BY <1>2 DEF Steady, SameClient, Walking
<1> QED
  BY <1>3, <1>4, <1>5, <1>6, LocalRests DEF l, m

LEMMA DerefLoadRests ==
    ASSUME TypeOK, NEW t \in Threads, ThreadOK(t), DerefLoad(t), Plain
    PROVE  Settled(t)
<1> DEFINE l == loc[t]
           m == loc'[t]
<1>1. /\ ControlFits(t, l, todo[t], later[t]) /\ EpochFits(l, access[t], global)
  BY ThreadFits DEF Fits
<1>2. /\ l.pc = "derefLoad" /\ m.op = l.op /\ m.pc = "derefEpoch"
      /\ m.acc = l.acc /\ m.list = l.list
      /\ SameClient(l, m) /\ SameWalks(l, m) /\ SameRetire(l, m)
  BY DerefLoadDoes
<1>3. UNCHANGED <<epochs, head, next, held, todo, later>>
  BY DEF DerefLoad, Plain, memory
<1> HIDE DEF l, m
<1>4. ControlFits(t, m, todo[t], later[t])
  BY <1>1, <1>2 DEF ControlFits, SameClient, SameRetire, DerefLabels, RetireLabels, Walking
<1>5. EpochFits(m, access[t], global)
  BY <1>1, <1>2 DEF EpochFits, DerefLabels
<1>6. Steady(l, m) /\ (m.inside \/ m.holds = l.holds)
  <2>1. l.op = "deref"
    BY <1>1, <1>2 DEF ControlFits, DerefLabels
  <2> QED
    BY <1>2, <2>1 DEF Steady, SameClient, Walking
<1> QED
  BY <1>3, <1>4, <1>5, <1>6, LocalRests DEF l, m

LEMMA DerefEpochRests ==
    ASSUME TypeOK, NEW t \in Threads, ThreadOK(t), DerefEpoch(t), Plain
    PROVE  Settled(t)
<1> DEFINE l == loc[t]
           m == loc'[t]
<1>1. /\ ControlFits(t, l, todo[t], later[t]) /\ EpochFits(l, access[t], global)
  BY ThreadFits DEF Fits
<1>2. /\ l.pc = "derefEpoch" /\ m.inside = l.inside /\ m.vec = l.vec /\ m.smr = l.smr
      /\ m.list = l.list /\ SameWalks(l, m) /\ SameRetire(l, m)
      /\ l.acc = global => m.op = "none" /\ m.pc = "idle"
      /\ l.acc # global => /\ m.op = l.op /\ m.pc = "derefAccess"
                           /\ m.acc = l.acc /\ m.glob = global
  BY DerefEpochDoes
<1>3. UNCHANGED <<epochs, head, next, held, todo, later>>
  BY DEF DerefEpoch, Plain, memory
<1>4. access[t] \in Nat /\ global \in Nat
  BY OwedSeqs
<1> HIDE DEF l, m
<1>5. l.op = "deref" /\ l.inside
  BY <1>1, <1>2 DEF ControlFits, DerefLabels
<1>6. ControlFits(t, m, todo[t], later[t])
  BY <1>1, <1>2, <1>5 DEF ControlFits, SameRetire, DerefLabels, RetireLabels, Walking
<1>7. EpochFits(m, access[t], global)
  BY <1>1, <1>2, <1>4 DEF EpochFits, DerefLabels
<1>8. Steady(l, m) /\ (m.inside \/ m.holds = l.holds)
  BY <1>2, <1>5 DEF Steady, Walking
<1> QED
  BY <1>3, <1>6, <1>7, <1>8, LocalRests DEF l, m

LEMMA DerefAccessRests ==
    ASSUME TypeOK, NEW t \in Threads, ThreadOK(t), DerefAccess(t)
    PROVE  Settled(t)
<1> DEFINE l == loc[t]
           m == loc'[t]
<1>1. /\ ControlFits(t, l, todo[t], later[t]) /\ EpochFits(l, access[t], global)
  BY ThreadFits DEF Fits
<1>2. /\ l.pc = "derefAccess" /\ m.op = l.op /\ m.pc = "derefLoad"
      /\ m.acc = l.glob /\ m.list = l.list /\ access'[t] = l.glob
      /\ SameClient(l, m) /\ SameWalks(l, m) /\ SameRetire(l, m)
  BY DerefAccessDoes
<1>3. UNCHANGED <<global, head, next, held, todo, later>>
  BY DEF DerefAccess, memory, history, owed
<1> HIDE DEF l, m
<1>4. l.op = "deref" /\ l.inside
  BY <1>1, <1>2 DEF ControlFits, DerefLabels
<1>5. ControlFits(t, m, todo[t], later[t])
  BY <1>1, <1>2 DEF ControlFits, SameClient, SameRetire, DerefLabels, RetireLabels, Walking
<1>6. EpochFits(m, access'[t], global)
  BY <1>1, <1>2 DEF EpochFits
<1>7. Steady(l, m) /\ (m.inside \/ m.holds = l.holds)
  BY <1>2, <1>4 DEF Steady, SameClient, Walking
<1> QED
  BY <1>3, <1>5, <1>6, <1>7, Rests DEF l, m

LEMMA RetireRests ==
    ASSUME TypeOK, NEW t \in Threads, ThreadOK(t), Retires(t)
    PROVE  Settled(t)
<1> DEFINE l == loc[t]
           m == loc'[t]
<1>1. /\ ControlFits(t, l, todo[t], later[t]) /\ EpochFits(l, access[t], global)
  BY ThreadFits DEF Fits
<1>2. /\ l.pc = "idle" /\ l.inside /\ m.op = "retire" /\ m.pc = "retireAccess"
      /\ root \in Batches /\ m.batch = root /\ m.list = l.list
      /\ SameClient(l, m) /\ SameWalks(l, m)
  BY RetireDoes DEF Retires, RetireBegin
<1>3. UNCHANGED <<epochs, head, next, held, todo, later>>
  BY DEF Retires, RetireBegin, Retire, owed
<1>4. m.batch # NULL
  BY <1>2, Constants
<1> HIDE DEF l, m
<1>5. ControlFits(t, m, todo[t], later[t])
  BY <1>1, <1>2, <1>4 DEF ControlFits, SameClient, DerefLabels, RetireLabels, Walking
<1>6. EpochFits(m, access[t], global)
  BY <1>1, <1>2 DEF EpochFits, DerefLabels
<1>7. Steady(l, m) /\ (m.inside \/ m.holds = l.holds)
  BY <1>2 DEF Steady, SameClient, Walking
<1> QED
  BY <1>3, <1>5, <1>6, <1>7, LocalRests DEF l, m

\* A step of retire's loop over the slots that inserts nothing.
LEMMA LoopRests ==
    ASSUME TypeOK, NEW t \in Threads, ThreadOK(t), Loops(loc[t], loc'[t]),
           loc[t].pc \in RetireLabels, loc'[t].pc \in RetireLabels,
           loc'[t].pc = "retireCas" => loc'[t].last.on,
           UNCHANGED <<epochs, head, next, held, todo, later>>
    PROVE  Settled(t)
<1> DEFINE l == loc[t]
           m == loc'[t]
<1>1. /\ ControlFits(t, l, todo[t], later[t]) /\ EpochFits(l, access[t], global)
  BY ThreadFits DEF Fits
<1>2. /\ Loops(l, m) /\ l.pc \in RetireLabels /\ m.pc \in RetireLabels
      /\ m.pc = "retireCas" => m.last.on
  OBVIOUS
<1> HIDE DEF l, m
<1>3. l.op = "retire" /\ l.inside
  BY <1>1, <1>2 DEF ControlFits
<1>4. ControlFits(t, m, todo[t], later[t])
  BY <1>1, <1>2, <1>3
     DEF ControlFits, Loops, SameClient, DerefLabels, RetireLabels, Walking
<1>5. EpochFits(m, access[t], global)
  BY <1>1, <1>2 DEF EpochFits, DerefLabels, RetireLabels
<1>6. Steady(l, m) /\ (m.inside \/ m.holds = l.holds)
  BY <1>2, <1>3 DEF Steady, Loops, SameClient, Walking, RetireLabels
<1> QED
  BY <1>4, <1>5, <1>6, LocalRests DEF l, m

LEMMA LooksAhead ==
    ASSUME NEW t \in Threads, Looks(t)
    PROVE  /\ Loops(loc[t], loc'[t]) /\ loc'[t].pc \in RetireLabels
           /\ loc'[t].pc = "retireCas" => loc'[t].last.on
BY DEF Looks, Passes, RetireLabels

LEMMA RetireAccessRests ==
    ASSUME TypeOK, NEW t \in Threads, ThreadOK(t), RetireAccess(t)
    PROVE  Settled(t)
<1>1. /\ Loops(loc[t], loc'[t]) /\ loc[t].pc \in RetireLabels
      /\ loc'[t].pc \in RetireLabels /\ loc'[t].pc # "retireCas"
  BY RetireAccessDoes DEF Passes, RetireLabels
<1>2. UNCHANGED <<epochs, head, next, held, todo, later>>
  BY DEF RetireAccess, memory, history, owed
<1> QED
  BY <1>1, <1>2, LoopRests

LEMMA RetireLoadRests ==
    ASSUME TypeOK, NEW t \in Threads, ThreadOK(t), RetireLoad(t)
    PROVE  Settled(t)
<1>1. loc[t].pc \in RetireLabels /\ Looks(t)
  BY RetireLoadDoes DEF RetireLabels
<1>2. UNCHANGED <<epochs, head, next, held, todo, later>>
  BY DEF RetireLoad, memory, history, owed
<1> QED
  BY <1>1, <1>2, LooksAhead, LoopRests

LEMMA InsertFailsRests ==
    ASSUME TypeOK, NEW t \in Threads, ThreadOK(t), RetireCas(t), ~Inserts(t)
    PROVE  Settled(t)
<1>1. loc[t].pc \in RetireLabels /\ Looks(t)
  BY InsertFails DEF RetireLabels
<1>2. UNCHANGED <<epochs, head, next, held, todo, later>>
  BY InsertFails DEF memory, history, owed
<1> QED
  BY <1>1, <1>2, LooksAhead, LoopRests

LEMMA RetireFinishRests ==
    ASSUME TypeOK, NEW t \in Threads, ThreadOK(t), RetireFinish(t)
    PROVE  Settled(t)
<1> DEFINE l == loc[t]
           m == loc'[t]
<1>1. /\ ControlFits(t, l, todo[t], later[t]) /\ EpochFits(l, access[t], global)
  BY ThreadFits DEF Fits
<1>2. loc[t].pc = "retireFinish"
  BY DEF RetireFinish, At
<1>3. /\ l.pc = "retireFinish" /\ m.pc = "free" /\ m.op = l.op
      /\ SameClient(l, m) /\ SameWalks(l, m) /\ SameRetire(l, m)
  <2>1. loc[t].batch \in Batches
    BY <1>2, Ready DEF RetireLabels
  <2> QED
    BY <2>1, RetireFinishDoes
<1>4. UNCHANGED <<epochs, head, next, held, todo, later>>
  BY DEF RetireFinish, history, owed
<1> HIDE DEF l, m
<1>5. l.op = "retire" /\ l.inside
  BY <1>1, <1>3 DEF ControlFits, RetireLabels
<1>6. ControlFits(t, m, todo[t], later[t])
  BY <1>1, <1>3, <1>5
     DEF ControlFits, SameClient, SameRetire, DerefLabels, RetireLabels, Walking
<1>7. EpochFits(m, access[t], global)
  BY <1>1, <1>3 DEF EpochFits, DerefLabels
<1>8. Steady(l, m) /\ (m.inside \/ m.holds = l.holds)
  BY <1>3, <1>5 DEF Steady, SameClient, Walking
<1> QED
  BY <1>4, <1>6, <1>7, <1>8, LocalRests DEF l, m

LEMMA EndCallRests ==
    ASSUME TypeOK, NEW t \in Threads, ThreadOK(t), EndCall(t, Off), Plain
    PROVE  Settled(t)
<1> DEFINE l == loc[t]
           m == loc'[t]
<1>1. /\ ControlFits(t, l, todo[t], later[t]) /\ EpochFits(l, access[t], global)
  BY ThreadFits DEF Fits
<1>2. /\ l.pc = "free" /\ m.list = {} /\ m.inside = l.inside /\ m.holds = l.holds
      /\ m.vec = l.vec /\ (l.inside => m.smr = l.smr) /\ m.op = "none" /\ m.batch = NULL
      /\ m.slot = 0 /\ m.adjs = 0
      /\ m.pc = IF l.op = "trimLeft" THEN "reenter" ELSE "idle"
  BY EndCallDoes
<1>3. UNCHANGED <<epochs, head, next, held, todo, later>>
  BY DEF EndCall, Plain, memory
<1> HIDE DEF l, m
<1>4. ControlFits(t, m, todo[t], later[t])
  BY <1>1, <1>2 DEF ControlFits, DerefLabels, RetireLabels, Walking
<1>5. EpochFits(m, access[t], global)
  BY <1>1, <1>2 DEF EpochFits, DerefLabels
<1>6. Steady(l, m)
  BY <1>2 DEF Steady, Walking
<1> QED
  BY <1>2, <1>3, <1>4, <1>5, <1>6, LocalRests DEF l, m

\* Free resets the links of a batch that nobody owes.
LEMMA FreeLinks ==
    ASSUME TypeOK, NEW t \in Threads, NEW b \in Batches, Free(t, b),
           NEW u \in Threads, ~Owes(u, b)
    PROVE  /\ \A c \in Batches : Owes(u, c) => next'[c][u] = next[c][u]
           /\ UNCHANGED <<epochs, refs, root>>
BY DEF Free, TypeOK

LEMMA FreeRests ==
    ASSUME TypeOK, NEW t \in Threads, ThreadOK(t), NEW b \in Batches, Free(t, b), Plain,
           ~Owes(t, b)
    PROVE  Settled(t)
<1> DEFINE l == loc[t]
           m == loc'[t]
<1>1. /\ ControlFits(t, l, todo[t], later[t]) /\ EpochFits(l, access[t], global)
  BY ThreadFits DEF Fits
<1>2. /\ l.pc = "free" /\ m.pc = "free" /\ m.op = l.op /\ b \in l.list
      /\ SameClient(l, m) /\ SameWalks(l, m) /\ SameRetire(l, m)
  BY FreeDoes
<1>3. /\ UNCHANGED <<epochs, head, held, todo, later>>
      /\ \A c \in Batches : Owes(t, c) => next'[c][t] = next[c][t]
  BY FreeLinks DEF Plain
<1> HIDE DEF l, m
<1>4. l.op \notin {"none", "deref", "nested"}
  BY <1>1, <1>2 DEF ControlFits
<1>5. ControlFits(t, m, todo[t], later[t])
  BY <1>1, <1>2, <1>4
     DEF ControlFits, SameClient, SameRetire, DerefLabels, RetireLabels, Walking
<1>6. EpochFits(m, access[t], global)
  BY <1>1, <1>2 DEF EpochFits, DerefLabels
<1>7. Steady(l, m) /\ (m.inside \/ m.holds = l.holds)
  BY <1>2, <1>4 DEF Steady, SameClient, Walking
<1> QED
  BY <1>3, <1>5, <1>6, <1>7, Rests DEF l, m, epochs

-----------------------------------------------------------------------------
(* The steps that walk.                                                    *)

LEMMA EnterSettles ==
    ASSUME TypeOK, NEW t \in Threads, ThreadOK(t), Enter(t)
    PROVE  Settled(t)
<1> DEFINE l == loc[t]
           m == loc'[t]
<1>1. /\ SlotFits(l, head[t], held[t]) /\ ControlFits(t, l, todo[t], later[t])
      /\ OnceFits(held[t], todo[t], later[t]) /\ EpochFits(l, access[t], global)
  BY ThreadFits DEF Fits
<1>2. /\ l.pc = "reenter" \/ (l.pc = "idle" /\ ~l.inside)
      /\ m.inside = TRUE /\ m.smr = NULL /\ m.pc = "idle"
      /\ m.holds = l.holds /\ m.vec = l.vec /\ m.op = l.op /\ m.list = l.list
      /\ SameWalks(l, m) /\ SameRetire(l, m)
  BY EnterDoes
<1>3. /\ UNCHANGED <<epochs, next, held, todo, later>>
      /\ head'[t].on = TRUE /\ head'[t].ptr = NULL
  <2>1. head' = [head EXCEPT ![t] = [on |-> TRUE, ptr |-> NULL]]
    BY DEF Enter
  <2>2. UNCHANGED <<epochs, next, held, todo, later>>
    BY DEF Enter, memory, history, owed
  <2> QED
    BY <2>1, <2>2, Constants DEF TypeOK
<1> HIDE DEF l, m
<1>4. held[t] = <<>> /\ l.op = "none"
  BY <1>1, <1>2 DEF SlotFits, ControlFits
<1>5. SlotFits(m, head'[t], held'[t])
  BY <1>2, <1>3 DEF SlotFits
<1>6. ControlFits(t, m, todo[t], later[t])
  BY <1>1, <1>2, <1>4 DEF ControlFits, SameRetire, DerefLabels, RetireLabels, Walking
<1>7. ChainFits(t, m, next', head'[t].ptr, held'[t], todo'[t], later'[t])
  BY <1>2, <1>3, <1>4 DEF ChainFits, Chain
<1>8. EpochFits(m, access[t], global)
  BY <1>1, <1>2 DEF EpochFits, DerefLabels
<1>9. Fits(t, m, head'[t], next', held'[t], todo'[t], later'[t], access'[t], global')
  BY <1>1, <1>3, <1>5, <1>6, <1>7, <1>8 DEF Fits, epochs
<1> QED
  BY <1>3, <1>9, ThreadFits DEF Settled, Owes, m

\* What the return from a nested call leaves: the outer walk goes on.
LEMMA ReturnFits ==
    ASSUME NEW t, NEW l, NEW m, NEW nx, NEW p, NEW h, NEW d, NEW r, NEW q, NEW g,
           ControlFits(t, l, d, r), ChainFits(t, l, nx, p, h, d, r),
           l.op = "nested", m.inside = FALSE, m.vec = l.vec,
           SameRetire(l, m), m.op = "trimLeft", m.walk = l.outer,
           m.pc = IF l.outer.curr = l.outer.end THEN "ack" ELSE "travRead"
    PROVE  ControlFits(t, m, r, <<>>) /\ ChainFits(t, m, nx, q, g, r, <<>>)
<1>1. l.outer.curr = l.outer.end => r = <<>>
  BY DEF ChainFits
<1>2. ControlFits(t, m, r, <<>>)
  BY <1>1 DEF ControlFits, SameRetire, DerefLabels, RetireLabels, Walking
<1>3. ChainFits(t, m, nx, q, g, r, <<>>)
  BY DEF ChainFits
<1> QED
  BY <1>2, <1>3

LEMMA LeaveSettles ==
    ASSUME TypeOK, NEW t \in Threads, ThreadOK(t), Leave(t)
    PROVE  Settled(t)
<1> DEFINE l == loc[t]
           m == loc'[t]
           h == held[t]
           r == later[t]
           p == head[t].ptr
<1>1. /\ SlotFits(l, head[t], h) /\ ControlFits(t, l, todo[t], r)
      /\ ChainFits(t, l, next, p, h, todo[t], r)
      /\ OnceFits(h, todo[t], r) /\ EpochFits(l, access[t], global)
  BY ThreadFits DEF Fits
<1>2. /\ (l.pc = "idle" /\ l.inside) \/ l.pc = "leaveLoad"
      /\ m.inside = FALSE /\ m.holds = {} /\ m.vec = l.vec
      /\ m.list = l.list /\ SameRetire(l, m)
      /\ p # NULL => /\ m.op = IF l.op = "nested" THEN "nested" ELSE "leave"
                     /\ m.pc = "travRead" /\ m.outer = l.outer
                     /\ m.walk.nxt = p /\ m.walk.end = l.smr
      /\ p = NULL /\ l.op = "nested" =>
           /\ m.op = "trimLeft" /\ m.walk = l.outer
           /\ m.pc = IF l.outer.curr = l.outer.end THEN "ack" ELSE "travRead"
      /\ p = NULL /\ l.op # "nested" => m.op = "leave" /\ m.pc = "free"
  BY LeaveDoes
<1>3. /\ UNCHANGED <<epochs, next>> /\ head'[t] = Off /\ held'[t] = <<>>
      /\ p # NULL => todo'[t] = h /\ later'[t] = r
      /\ p = NULL => /\ todo'[t] = IF l.op = "nested" THEN r ELSE <<>>
                     /\ later'[t] = <<>>
  <2>1. /\ UNCHANGED <<epochs, memory>> /\ Takes(t, p)
        /\ head' = [head EXCEPT ![t] = Off]
    BY Zenon DEF Leave
  <2> HIDE DEF p
  <2>2. head'[t] = Off /\ UNCHANGED <<epochs, next>>
    BY <2>1, Constants DEF TypeOK, memory
  <2> QED
    BY <2>1, <2>2 DEF Takes, Returns, TypeOK
<1>4. l.inside => (p = NULL <=> h = <<>>)
  BY Ready
<1> HIDE DEF l, m, h, r, p
<1>5. /\ l.inside /\ todo[t] = <<>> /\ (l.op # "nested" => r = <<>> /\ l.op = "none")
      /\ l.batch = NULL /\ (l.op = "nested" <=> l.pc = "leaveLoad")
  BY <1>1, <1>2 DEF ControlFits, Walking
<1>6. SlotFits(m, head'[t], held'[t])
  BY <1>2, <1>3 DEF SlotFits, Off
<1>7. EpochFits(m, access'[t], global')
  BY <1>1, <1>2, <1>3 DEF EpochFits, DerefLabels, epochs
<1>8. /\ ControlFits(t, m, todo'[t], later'[t])
      /\ ChainFits(t, m, next', head'[t].ptr, held'[t], todo'[t], later'[t])
  <2>1. CASE p # NULL
    <3>1. ControlFits(t, m, h, r)
      BY <1>1, <1>2, <1>5, <2>1
         DEF ControlFits, SameRetire, DerefLabels, RetireLabels, Walking
    <3>2. ChainFits(t, m, next, Off.ptr, <<>>, h, r)
      BY <1>1, <1>2, <1>5, <2>1 DEF ChainFits
    <3> QED
      BY <1>3, <2>1, <3>1, <3>2
  <2>2. CASE p = NULL /\ l.op = "nested"
    <3>1. ControlFits(t, m, r, <<>>) /\ ChainFits(t, m, next, Off.ptr, <<>>, r, <<>>)
      <4>1. m.batch = l.batch
        BY <1>2 DEF SameRetire
      <4> QED
        BY <1>1, <1>2, <1>5, <2>2, <4>1, ReturnFits
    <3> QED
      BY <1>3, <2>2, <3>1
  <2>3. CASE p = NULL /\ l.op # "nested"
    <3>1. ControlFits(t, m, <<>>, <<>>)
      BY <1>1, <1>2, <1>5, <2>3
         DEF ControlFits, SameRetire, DerefLabels, RetireLabels, Walking
    <3>2. ChainFits(t, m, next, Off.ptr, <<>>, <<>>, <<>>)
      BY <1>1, <1>2, <1>5, <2>3 DEF ChainFits
    <3> QED
      BY <1>3, <2>3, <3>1, <3>2
  <2> QED
    BY <2>1, <2>2, <2>3
<1>9. OnceFits(held'[t], todo'[t], later'[t])
  BY <1>1, <1>3, InEmpty DEF OnceFits
<1>10. Fits(t, m, head'[t], next', held'[t], todo'[t], later'[t], access'[t], global')
  BY <1>6, <1>7, <1>8, <1>9 DEF Fits
<1>11. \A b : Owes(t, b)' <=> Owes(t, b)
  BY <1>3, <1>4, <1>5, InEmpty DEF Owes, h, r
<1> QED
  BY <1>10, <1>11, ThreadFits DEF Settled, m

LEMMA AckSettles ==
    ASSUME TypeOK, NEW t \in Threads, ThreadOK(t), Ack(t)
    PROVE  Settled(t)
<1> DEFINE l == loc[t]
           m == loc'[t]
           r == later[t]
<1>1. /\ SlotFits(l, head[t], held[t]) /\ ControlFits(t, l, todo[t], r)
      /\ ChainFits(t, l, next, head[t].ptr, held[t], todo[t], r)
      /\ OnceFits(held[t], todo[t], r) /\ EpochFits(l, access[t], global)
  BY ThreadFits DEF Fits
<1>2. /\ l.pc = "ack" /\ SameClient(l, m) /\ SameRetire(l, m) /\ m.list = l.list
      /\ l.op = "nested" =>
           /\ m.op = "trimLeft" /\ m.walk = l.outer
           /\ m.pc = IF l.outer.curr = l.outer.end THEN "ack" ELSE "travRead"
      /\ l.op # "nested" => m.op = l.op /\ m.pc = "free"
  BY AckDoes
<1>3. /\ UNCHANGED <<epochs, head, next, held>>
      /\ todo'[t] = (IF l.op = "nested" THEN r ELSE <<>>) /\ later'[t] = <<>>
  <2>1. UNCHANGED <<epochs, head, memory, held>> /\ Returns(t)
    BY DEF Ack
  <2> QED
    BY <2>1 DEF Returns, TypeOK, memory
<1> HIDE DEF l, m, r
<1>4. /\ todo[t] = <<>> /\ (l.op # "nested" => r = <<>>) /\ l.batch = NULL
      /\ (l.op = "nested" => ~l.inside)
      /\ l.op \notin {"none", "deref", "retire"}
  BY <1>1, <1>2 DEF ControlFits, Walking, DerefLabels, RetireLabels
<1>5. SlotFits(m, head'[t], held'[t])
  BY <1>1, <1>2, <1>3 DEF SlotFits, SameClient
<1>6. EpochFits(m, access'[t], global')
  BY <1>1, <1>2, <1>3, <1>4 DEF EpochFits, DerefLabels, epochs
<1>7. /\ ControlFits(t, m, todo'[t], later'[t])
      /\ ChainFits(t, m, next', head'[t].ptr, held'[t], todo'[t], later'[t])
  <2>1. CASE l.op = "nested"
    <3>1. /\ ControlFits(t, m, r, <<>>)
          /\ ChainFits(t, m, next, head[t].ptr, held[t], r, <<>>)
      <4>1. m.batch = l.batch /\ m.inside = FALSE /\ m.vec = l.vec
        <5>1. m.inside = l.inside /\ (l.inside \in BOOLEAN) /\ m.batch = l.batch /\ m.vec = l.vec
          BY <1>2, OwedSeqs, Fields DEF SameRetire, SameClient, l
        <5> QED
          BY <1>4, <2>1, <5>1
      <4> QED
        BY <1>1, <1>2, <1>4, <2>1, <4>1, ReturnFits
    <3> QED
      BY <1>3, <2>1, <3>1
  <2>2. CASE l.op # "nested"
    <3>1. ControlFits(t, m, <<>>, <<>>)
      BY <1>1, <1>2, <1>4, <2>2
         DEF ControlFits, SameClient, SameRetire, DerefLabels, RetireLabels, Walking
    <3>2. ChainFits(t, m, next, head[t].ptr, held[t], <<>>, <<>>)
      BY <1>1, <1>2, <2>2 DEF ChainFits, SameClient
    <3> QED
      BY <1>3, <2>2, <3>1, <3>2
  <2> QED
    BY <2>1, <2>2
<1>8. OnceFits(held'[t], todo'[t], later'[t])
  BY <1>1, <1>3, InEmpty DEF OnceFits
<1>9. Fits(t, m, head'[t], next', held'[t], todo'[t], later'[t], access'[t], global')
  BY <1>5, <1>6, <1>7, <1>8 DEF Fits
<1>10. \A b : Owes(t, b)' <=> Owes(t, b)
  BY <1>3, <1>4, InEmpty DEF Owes, r
<1> QED
  BY <1>9, <1>10, ThreadFits DEF Settled, m

LEMMA TravReadSettles ==
    ASSUME TypeOK, NEW t \in Threads, ThreadOK(t), TravRead(t), Plain
    PROVE  Settled(t)
<1> DEFINE l == loc[t]
           m == loc'[t]
           d == todo[t]
<1>1. /\ SlotFits(l, head[t], held[t]) /\ ControlFits(t, l, d, later[t])
      /\ ChainFits(t, l, next, head[t].ptr, held[t], d, later[t])
      /\ OnceFits(held[t], d, later[t]) /\ EpochFits(l, access[t], global)
  BY ThreadFits DEF Fits
<1>2. /\ l.pc = "travRead" /\ SameClient(l, m) /\ SameRetire(l, m)
      /\ m.list = l.list /\ m.op = l.op /\ m.outer = l.outer
      /\ l.walk.nxt = NULL => m.pc = "ack"
      /\ l.walk.nxt # NULL =>
           /\ m.pc = "travDrop" /\ m.walk.curr = l.walk.nxt
           /\ m.walk.nxt = next[l.walk.nxt][t] /\ m.walk.end = l.walk.end
  BY TravReadDoes, Ready
<1>3. UNCHANGED <<epochs, head, next, held, todo, later>>
  BY DEF TravRead, Plain, memory
<1>4. d \in Seq(Batches)
  BY OwedSeqs
<1> HIDE DEF l, m, d
<1>5. Chain(next, t, d, l.walk.nxt, l.walk.end)
  BY <1>1, <1>2 DEF ChainFits
<1>6. d = <<>> <=> l.walk.nxt = NULL
  BY <1>4, <1>5, TailFacts, Constants DEF Chain
<1>7. SlotFits(m, head'[t], held'[t])
  BY <1>1, <1>2, <1>3 DEF SlotFits, SameClient
<1>8. ControlFits(t, m, d, later[t])
  BY <1>1, <1>2, <1>6
     DEF ControlFits, SameClient, SameRetire, DerefLabels, RetireLabels, Walking
<1>9. ChainFits(t, m, next, head[t].ptr, held[t], d, later[t])
  BY <1>1, <1>2, <1>5, <1>6 DEF ChainFits, SameClient
<1>10. EpochFits(m, access'[t], global')
  BY <1>1, <1>2, <1>3 DEF EpochFits, DerefLabels, epochs
<1>11. Fits(t, m, head'[t], next', held'[t], todo'[t], later'[t], access'[t], global')
  BY <1>1, <1>3, <1>7, <1>8, <1>9, <1>10 DEF Fits, d
<1> QED
  BY <1>3, <1>11, ThreadFits DEF Settled, Owes, m

\* What a decrement leaves: the rest of the list.
LEMMA TravDropSettles ==
    ASSUME TypeOK, NEW t \in Threads, ThreadOK(t), Decrements(t)
    PROVE  /\ ThreadOK(t)'
           /\ \A b : Owes(t, b)' <=> Owes(t, b) /\ b # loc[t].walk.curr
           /\ Owes(t, loc[t].walk.curr)
<1> DEFINE l == loc[t]
           m == loc'[t]
           d == todo[t]
           r == later[t]
           x == Tail(todo[t])
           c == loc[t].walk.curr
<1>1. /\ SlotFits(l, head[t], held[t]) /\ ControlFits(t, l, d, r)
      /\ ChainFits(t, l, next, head[t].ptr, held[t], d, r)
      /\ OnceFits(held[t], d, r) /\ EpochFits(l, access[t], global)
  BY ThreadFits DEF Fits
<1>2. l.pc = "travDrop"
  BY DEF Decrements, TravDrop, At
<1>3. d # <<>> /\ c = d[1] /\ c \in Batches /\ d \in Seq(Batches)
  BY <1>2, Ready, OwedSeqs
<1>4. /\ SameClient(l, m) /\ SameRetire(l, m)
      /\ \/ /\ l.op = "trim" /\ m.op = "nested" /\ m.pc = "leaveLoad" /\ m.outer = l.walk
         \/ /\ m.op = l.op /\ m.outer = l.outer /\ c = l.walk.end /\ m.pc = "ack"
         \/ /\ m.op = l.op /\ m.outer = l.outer /\ c # l.walk.end /\ m.pc = "travRead"
            /\ m.walk = l.walk
  BY <1>3, TravDropDoes DEF Decrements
<1>5. /\ UNCHANGED <<epochs, head, next, held>>
      /\ m.op # l.op => todo'[t] = <<>> /\ later'[t] = x
      /\ m.op = l.op => todo'[t] = x /\ later'[t] = r
  <2>1. UNCHANGED <<epochs, head, next, held>>
    BY DEF Decrements, TravDrop, Drops
  <2>2. Drops(t)
    BY DEF Decrements
  <2> QED
    BY <2>1, <2>2 DEF Drops, TypeOK
<1>6. Chain(next, t, d, c, l.walk.end) /\ l.walk.nxt = next[c][t] /\ c = l.walk.curr
  BY <1>1, <1>2 DEF ChainFits
<1>7. x = Tail(d)
  OBVIOUS
<1> HIDE DEF l, m, d, r, x, c
<1>8. c = l.walk.end => x = <<>>
  BY <1>3, <1>6, <1>7, ChainTail, Constants
<1>9. c # l.walk.end => Chain(next, t, x, l.walk.nxt, l.walk.end)
  <2> DEFINE e == l.walk.end
  <2> HIDE DEF e
  <2>1. Chain(next, t, d, c, e)
    BY <1>6 DEF e
  <2>2. c # e => Chain(next, t, Tail(d), next[c][t], e)
    BY <1>3, <2>1, ChainTail, Constants
  <2> QED
    BY <1>6, <1>7, <2>2 DEF e
<1>10. /\ l.op \notin {"none", "deref", "retire"}
      /\ l.op = "trim" => r = <<>> /\ l.inside
      /\ l.batch = NULL
  BY <1>1, <1>2 DEF ControlFits, DerefLabels, RetireLabels
<1>11. /\ Distinct(x) /\ ~InSeq(c, x) /\ InSeq(c, d)
      /\ \A b : InSeq(b, d) <=> b = c \/ InSeq(b, x)
  BY <1>1, <1>3, InTail DEF OnceFits, d, x
<1>12. SlotFits(m, head'[t], held'[t])
  BY <1>1, <1>4, <1>5 DEF SlotFits, SameClient
<1>13. EpochFits(m, access'[t], global')
  BY <1>1, <1>4, <1>5 DEF EpochFits, DerefLabels, epochs
<1>14. /\ ControlFits(t, m, todo'[t], later'[t])
       /\ ChainFits(t, m, next, head[t].ptr, held[t], todo'[t], later'[t])
  <2>1. CASE l.op = "trim" /\ m.op = "nested" /\ m.pc = "leaveLoad" /\ m.outer = l.walk
    <3>1. ControlFits(t, m, <<>>, x)
      BY <1>1, <1>4, <1>10, <2>1
         DEF ControlFits, SameClient, SameRetire, DerefLabels, RetireLabels, Walking
    <3>2. ChainFits(t, m, next, head[t].ptr, held[t], <<>>, x)
      BY <1>1, <1>4, <1>6, <1>8, <1>9, <1>10, <2>1 DEF ChainFits, SameClient
    <3> QED
      BY <1>5, <2>1, <3>1, <3>2
  <2>2. CASE m.op = l.op /\ m.outer = l.outer /\ c = l.walk.end /\ m.pc = "ack"
    <3>1. ControlFits(t, m, <<>>, r)
      BY <1>1, <1>2, <1>4, <1>10, <2>2
         DEF ControlFits, SameClient, SameRetire, DerefLabels, RetireLabels, Walking
    <3>2. ChainFits(t, m, next, head[t].ptr, held[t], <<>>, r)
      BY <1>1, <1>4, <2>2 DEF ChainFits, SameClient
    <3> QED
      BY <1>5, <1>8, <2>2, <3>1, <3>2
  <2>3. CASE /\ m.op = l.op /\ m.outer = l.outer /\ c # l.walk.end
             /\ m.pc = "travRead" /\ m.walk = l.walk
    <3>1. ControlFits(t, m, x, r)
      BY <1>1, <1>2, <1>4, <1>10, <2>3
         DEF ControlFits, SameClient, SameRetire, DerefLabels, RetireLabels, Walking
    <3>2. ChainFits(t, m, next, head[t].ptr, held[t], x, r)
      BY <1>1, <1>4, <1>9, <2>3 DEF ChainFits, SameClient
    <3> QED
      BY <1>5, <2>3, <3>1, <3>2
  <2> QED
    BY <1>4, <2>1, <2>2, <2>3
<1>15. OnceFits(held'[t], todo'[t], later'[t])
  <2>1. /\ Disjoint(held[t], x) /\ Disjoint(x, r) /\ Distinct(held[t]) /\ Distinct(r)
        /\ Disjoint(held[t], r)
    BY <1>1, <1>11 DEF OnceFits, Disjoint
  <2> QED
    BY <1>5, <1>11, <2>1, InEmpty DEF OnceFits
<1>16. Fits(t, m, head'[t], next', held'[t], todo'[t], later'[t], access'[t], global')
  BY <1>5, <1>12, <1>13, <1>14, <1>15 DEF Fits
<1>17. ~InSeq(c, held[t]) /\ ~InSeq(c, r)
  BY <1>1, <1>3, <1>11 DEF OnceFits, Disjoint
<1>18. /\ \A b : Owes(t, b)' <=> Owes(t, b) /\ b # c
       /\ Owes(t, c)
  <2>1. m.op # l.op => r = <<>>
    BY <1>4, <1>10
  <2>2. \A b : Owes(t, b)' <=> InSeq(b, held[t]) \/ InSeq(b, x) \/ InSeq(b, r)
    BY <1>5, <2>1, InEmpty DEF Owes
  <2>3. \A b : Owes(t, b) <=> InSeq(b, held[t]) \/ InSeq(b, d) \/ InSeq(b, r)
    BY DEF Owes, d, r
  <2> QED
    BY <1>11, <1>17, <2>2, <2>3
<1> QED
  BY <1>16, <1>18, ThreadFits DEF m, c

LEMMA TrimSettles ==
    ASSUME TypeOK, NEW t \in Threads, ThreadOK(t), Trims(t)
    PROVE  Settled(t)
<1> DEFINE l == loc[t]
           m == loc'[t]
           h == held[t]
           p == head[t].ptr
           x == Tail(held[t])
<1>1. /\ SlotFits(l, head[t], h) /\ ControlFits(t, l, todo[t], later[t])
      /\ ChainFits(t, l, next, p, h, todo[t], later[t])
      /\ OnceFits(h, todo[t], later[t]) /\ EpochFits(l, access[t], global)
  BY ThreadFits DEF Fits
<1>2. /\ l.pc = "idle" /\ l.inside /\ m.inside = TRUE /\ m.holds = {} /\ m.vec = l.vec
      /\ m.list = l.list /\ m.outer = l.outer /\ SameRetire(l, m)
      /\ p = l.smr => m.op = l.op /\ m.pc = "idle" /\ m.smr = l.smr
      /\ p # l.smr => /\ m.op = "trim" /\ m.pc = "trimRead" /\ m.smr = p
                      /\ m.walk.end = l.smr
  BY TrimDoes, Ready DEF Trims
<1>3. UNCHANGED <<epochs, head, next, later>>
  BY DEF Trims, Trim, Keeps, memory
<1>4. /\ p = l.smr => held' = held /\ todo' = todo
      /\ p # l.smr => held'[t] = <<p>> /\ todo'[t] = x
  BY DEF Trims, Keeps, TypeOK
<1>5. h \in Seq(Batches) /\ (p # l.smr => h # <<>> /\ p = h[1] /\ p \in Batches)
  BY <1>2, Ready, OwedSeqs
<1> HIDE DEF l, m, h, p, x
<1>6. todo[t] = <<>> /\ later[t] = <<>> /\ l.op = "none" /\ l.batch = NULL
  BY <1>1, <1>2 DEF ControlFits, Walking
<1>7. SlotFits(m, head'[t], held'[t])
  BY <1>1, <1>2, <1>3 DEF SlotFits
<1>8. EpochFits(m, access'[t], global')
  BY <1>1, <1>2, <1>3 DEF EpochFits, DerefLabels, epochs
<1>9. CASE p = l.smr
  <2>1. ControlFits(t, m, todo[t], later[t])
    BY <1>1, <1>2, <1>6, <1>9 DEF ControlFits, SameRetire, DerefLabels, RetireLabels, Walking
  <2>2. ChainFits(t, m, next, p, h, todo[t], later[t])
    BY <1>1, <1>2, <1>6, <1>9 DEF ChainFits
  <2>3. Fits(t, m, head'[t], next', held'[t], todo'[t], later'[t], access'[t], global')
    BY <1>1, <1>3, <1>4, <1>7, <1>8, <1>9, <2>1, <2>2 DEF Fits, h, p
  <2> QED
    BY <1>3, <1>4, <1>9, <2>3, ThreadFits DEF Settled, Owes, m
<1>10. CASE p # l.smr
  <2>1. Chain(next, t, h, p, l.smr)
    BY <1>1, <1>2 DEF ChainFits
  <2>2. Chain(next, t, x, next[p][t], l.smr)
    BY <1>5, <1>10, <2>1, ChainTail, Constants DEF x, h
  <2>3. p # NULL /\ InSeq(p, <<p>>) /\ Chain(next, t, <<p>>, p, p)
    BY <1>5, <1>10, ChainSingle, InSingle, Constants
  <2>4. ControlFits(t, m, x, <<>>)
    BY <1>1, <1>2, <1>6, <1>10
       DEF ControlFits, SameRetire, DerefLabels, RetireLabels, Walking
  <2>5. ChainFits(t, m, next, p, <<p>>, x, <<>>)
    BY <1>2, <1>10, <2>2, <2>3 DEF ChainFits
  <2>6. /\ Distinct(x) /\ ~InSeq(p, x)
        /\ \A b : InSeq(b, h) <=> b = p \/ InSeq(b, x)
        /\ Distinct(<<p>>) /\ \A b : InSeq(b, <<p>>) <=> b = p
    BY <1>1, <1>5, <1>10, InTail, InSingle DEF OnceFits, h, x
  <2>7. OnceFits(<<p>>, x, <<>>)
    BY <2>6, InEmpty DEF OnceFits, Disjoint
  <2>8. Fits(t, m, head'[t], next', held'[t], todo'[t], later'[t], access'[t], global')
    BY <1>3, <1>4, <1>6, <1>7, <1>8, <1>10, <2>4, <2>5, <2>7 DEF Fits, p
  <2>9. \A b : Owes(t, b)' <=> Owes(t, b)
    BY <1>3, <1>4, <1>6, <1>10, <2>6, InEmpty DEF Owes, h
  <2> QED
    BY <2>8, <2>9, ThreadFits DEF Settled, m
<1> QED
  BY <1>9, <1>10

LEMMA TrimReadSettles ==
    ASSUME TypeOK, NEW t \in Threads, ThreadOK(t), TrimRead(t), Plain
    PROVE  Settled(t)
<1> DEFINE l == loc[t]
           m == loc'[t]
<1>1. /\ SlotFits(l, head[t], held[t]) /\ ControlFits(t, l, todo[t], later[t])
      /\ ChainFits(t, l, next, head[t].ptr, held[t], todo[t], later[t])
      /\ OnceFits(held[t], todo[t], later[t]) /\ EpochFits(l, access[t], global)
  BY ThreadFits DEF Fits
<1>2. l.pc = "trimRead"
  BY DEF TrimRead, At
<1>3. /\ m.pc = "travRead" /\ SameClient(l, m) /\ SameRetire(l, m)
      /\ m.list = l.list /\ m.op = l.op /\ m.outer = l.outer
      /\ m.walk.nxt = next[l.smr][t] /\ m.walk.end = l.walk.end
  BY <1>2, TrimReadDoes, Ready
<1>4. UNCHANGED <<epochs, head, next, held, todo, later>>
  BY DEF TrimRead, Plain, memory
<1> HIDE DEF l, m
<1>5. SlotFits(m, head'[t], held'[t])
  BY <1>1, <1>3, <1>4 DEF SlotFits, SameClient
<1>6. ControlFits(t, m, todo[t], later[t])
  BY <1>1, <1>2, <1>3
     DEF ControlFits, SameClient, SameRetire, DerefLabels, RetireLabels, Walking
<1>7. ChainFits(t, m, next, head[t].ptr, held[t], todo[t], later[t])
  BY <1>1, <1>2, <1>3 DEF ChainFits, SameClient
<1>8. EpochFits(m, access'[t], global')
  BY <1>1, <1>3, <1>4 DEF EpochFits, DerefLabels, epochs
<1>9. Fits(t, m, head'[t], next', held'[t], todo'[t], later'[t], access'[t], global')
  BY <1>1, <1>4, <1>5, <1>6, <1>7, <1>8 DEF Fits
<1> QED
  BY <1>4, <1>9, ThreadFits DEF Settled, Owes, m

-----------------------------------------------------------------------------
(* Every step keeps the invariant of every thread.                         *)

\* What the loop over the slots leaves of the locals.
LEMMA LoopFits ==
    ASSUME TypeOK, NEW t \in Threads, ThreadOK(t), Loops(loc[t], loc'[t]),
           loc[t].pc = "retireCas", loc'[t].pc \in RetireLabels, loc'[t].pc # "retireCas",
           UNCHANGED epochs
    PROVE  /\ Steady(loc[t], loc'[t]) /\ loc'[t].inside
           /\ ControlFits(t, loc'[t], todo[t], later[t])
           /\ EpochFits(loc'[t], access'[t], global')
<1> DEFINE l == loc[t]
           m == loc'[t]
<1>1. /\ ControlFits(t, l, todo[t], later[t]) /\ EpochFits(l, access[t], global)
  BY ThreadFits DEF Fits
<1>2. /\ Loops(l, m) /\ l.pc \in RetireLabels /\ m.pc \in RetireLabels
      /\ m.pc # "retireCas"
  BY DEF RetireLabels
<1> HIDE DEF l, m
<1>3. l.op = "retire" /\ l.inside
  BY <1>1, <1>2 DEF ControlFits
<1>4. ControlFits(t, m, todo[t], later[t])
  BY <1>1, <1>2, <1>3
     DEF ControlFits, Loops, SameClient, DerefLabels, RetireLabels, Walking
<1>5. EpochFits(m, access'[t], global')
  BY <1>1, <1>2 DEF EpochFits, DerefLabels, RetireLabels, epochs
<1>6. Steady(l, m) /\ m.inside
  BY <1>2, <1>3 DEF Steady, Loops, SameClient, Walking, RetireLabels
<1> QED
  BY <1>4, <1>5, <1>6 DEF l, m

\* A thread that owes one batch more, the head of its slot.
LEMMA Grows ==
    ASSUME TypeOK, NEW s \in Threads, ThreadOK(s), NEW b \in Batches, ~Owes(s, b),
           loc[s].inside, loc'[s].inside, Steady(loc[s], loc'[s]),
           ControlFits(s, loc'[s], todo[s], later[s]),
           EpochFits(loc'[s], access'[s], global'),
           head'[s].on = head[s].on, head'[s].ptr = b, held'[s] = <<b>> \o held[s],
           todo'[s] = todo[s], later'[s] = later[s], next'[b][s] = head[s].ptr,
           \A c \in Batches : c # b => next'[c][s] = next[c][s]
    PROVE  ThreadOK(s)' /\ \A c : Owes(s, c)' <=> Owes(s, c) \/ c = b
<1> DEFINE h == held[s]
           d == todo[s]
           r == later[s]
           n == <<b>> \o held[s]
           p == head[s].ptr
<1>1. /\ SlotFits(loc[s], head[s], h) /\ ChainFits(s, loc[s], next, p, h, d, r)
      /\ OnceFits(h, d, r)
  BY ThreadFits DEF Fits
<1>2. h \in Seq(Batches) /\ d \in Seq(Batches) /\ r \in Seq(Batches)
  BY OwedSeqs
<1>3. ~InSeq(b, h) /\ ~InSeq(b, d) /\ ~InSeq(b, r)
  BY DEF Owes
<1> HIDE DEF h, d, r, p
<1>4. ChainFits(s, loc'[s], next', b, <<b>> \o h, d, r)
  BY <1>1, <1>2, <1>3, ChainsGrow DEF p
<1>5. /\ n = <<b>> \o h
      /\ \A c : InSeq(c, n) <=> c = b \/ InSeq(c, h)
      /\ Distinct(n)
  <2>1. n = <<b>> \o h
    BY DEF h
  <2>2. /\ \A c : InSeq(c, <<b>> \o h) <=> c = b \/ InSeq(c, h)
        /\ Distinct(h) /\ ~InSeq(b, h) => Distinct(<<b>> \o h)
    BY <1>2, InCons
  <2> QED
    BY <1>1, <1>3, <2>1, <2>2 DEF OnceFits
<1> HIDE DEF n
<1>6. OnceFits(n, d, r)
  BY <1>1, <1>3, <1>5 DEF OnceFits, Disjoint
<1>7. SlotFits(loc'[s], head'[s], n)
  BY <1>1 DEF SlotFits
<1>8. Fits(s, loc'[s], head'[s], next', held'[s], todo'[s], later'[s], access'[s], global')
  BY <1>4, <1>5, <1>6, <1>7 DEF Fits, h, d, r
<1>9. \A c : Owes(s, c)' <=> Owes(s, c) \/ c = b
  BY <1>5 DEF Owes, h
<1> QED
  BY <1>8, <1>9, ThreadFits

LEMMA InsertSettles ==
    ASSUME TypeOK, ThreadInv, RetireInv, NEW t \in Threads, Inserts(t),
           NEW s \in Threads, s = loc[t].slot, NEW b \in Batches, b = loc[t].batch
    PROVE  /\ ThreadInv'
           /\ ~Owes(s, b)
           /\ \A u \in Threads : \A c :
                Owes(u, c)' <=> Owes(u, c) \/ (u = s /\ c = b)
<1>1. loc[t].pc = "retireCas" /\ head[s] = loc[t].last
  BY DEF Inserts, RetireCas, At
<1>2. ThreadOK(t) /\ s \in Slots
  BY Constants DEF ThreadInv
<1>3. /\ Others(t) /\ Loops(loc[t], loc'[t]) /\ Passes(loc[t], loc'[t]) /\ s \in Threads
      /\ head'[s].ptr = b /\ head'[s].on = head[s].on
      /\ \A u \in Threads : u # s => head'[u] = head[u]
      /\ next'[b][s] = head[s].ptr
      /\ \A c \in Batches, u \in Threads : c # b \/ u # s => next'[c][u] = next[c][u]
      /\ held'[s] = <<b>> \o held[s]
      /\ \A u \in Threads : u # s => held'[u] = held[u]
      /\ UNCHANGED <<epochs, todo, later>>
  BY <1>2, InsertDoes
<1>4. ~Owes(s, b)
  <2>1. Retiring(t, b)
    BY <1>1 DEF Retiring, RetireLabels
  <2>2. Owers(b) \cap Ahead(t) = {}
    BY <1>2, <2>1 DEF RetireInv
  <2>3. s \in Ahead(t)
    BY <1>1, <1>2, Constants DEF Ahead, At, Slots
  <2> QED
    BY <1>3, <2>2, <2>3 DEF Owers
<1>5. loc[s].inside /\ ThreadOK(s)
  <2>1. ThreadOK(s)
    BY <1>3 DEF ThreadInv
  <2>2. head[s].on
    BY <1>1, <1>2 DEF ThreadOK, ControlOK
  <2> QED
    BY <2>1, <2>2 DEF ThreadOK, SlotOK
<1>6. ASSUME NEW u \in Threads
      PROVE  /\ ThreadOK(u) /\ Steady(loc[u], loc'[u])
             /\ loc'[u].inside \/ loc'[u].holds = loc[u].holds
             /\ loc[u].inside => loc'[u].inside
             /\ ControlFits(u, loc'[u], todo[u], later[u])
             /\ EpochFits(loc'[u], access'[u], global')
  <2>1. ThreadOK(u)
    BY DEF ThreadInv
  <2>2. CASE u = t
    <3>1. loc'[t].pc \in RetireLabels /\ loc'[t].pc # "retireCas"
      BY <1>3 DEF Passes, RetireLabels
    <3> QED
      BY <1>1, <1>2, <1>3, <2>2, <3>1, LoopFits
  <2>3. CASE u # t
    <3>1. loc'[u] = loc[u]
      BY <1>3, <2>3 DEF Others
    <3>2. ControlFits(u, loc[u], todo[u], later[u]) /\ EpochFits(loc[u], access[u], global)
      BY <2>1, ThreadFits DEF Fits
    <3> QED
      BY <1>3, <2>1, <3>1, <3>2 DEF Steady, SameWalks, epochs
  <2> QED
    BY <2>2, <2>3
<1>7. ASSUME NEW u \in Threads, u # s
      PROVE  Settled(u)
  <2>1. head'[u] = head[u] /\ held'[u] = held[u] /\ todo'[u] = todo[u] /\ later'[u] = later[u]
    BY <1>3, <1>7
  <2>2. \A c \in Batches : Owes(u, c) => next'[c][u] = next[c][u]
    BY <1>3, <1>7
  <2> QED
    BY <1>6, <2>1, <2>2, Rests
<1>8. ThreadOK(s)' /\ \A c : Owes(s, c)' <=> Owes(s, c) \/ c = b
  <2>1. todo'[s] = todo[s] /\ later'[s] = later[s] /\ loc'[s].inside
        /\ \A c \in Batches : c # b => next'[c][s] = next[c][s]
    BY <1>3, <1>5, <1>6
  <2>2. /\ head'[s].on = head[s].on /\ head'[s].ptr = b /\ held'[s] = <<b>> \o held[s]
        /\ next'[b][s] = head[s].ptr /\ s \in Threads
    BY <1>3
  <2> QED
    BY <1>2, <1>4, <1>5, <1>6, <2>1, <2>2, Grows
<1>9. ThreadInv'
  BY <1>3, <1>7, <1>8 DEF ThreadInv, Settled
<1> QED
  BY <1>2, <1>3, <1>4, <1>7, <1>8, <1>9 DEF Settled

\* A step of t that decrements nothing and inserts nothing leaves every other
\* thread as it is.
LEMMA OthersRest ==
    ASSUME TypeOK, ThreadInv, RefsInv, NEW t \in Threads, Moves(t), ~Inserts(t),
           NEW u \in Threads, u # t
    PROVE  Settled(u)
<1> DEFINE Same == /\ access'[u] = access[u] /\ global' = global /\ head'[u] = head[u]
                   /\ held'[u] = held[u] /\ todo'[u] = todo[u] /\ later'[u] = later[u]
                   /\ \A b \in Batches : Owes(u, b) => next'[b][u] = next[b][u]
<1>1. ThreadOK(u) /\ loc'[u] = loc[u]
  BY LocType DEF Others, ThreadInv
<1>2. Same => Settled(u)
  <2>1. global \in Nat /\ global <= global
    BY OwedSeqs
  <2> QED
    BY <1>1, <2>1, OtherRests
<1>3. ASSUME Enter(t) PROVE Same
  BY <1>3 DEF Enter, epochs, memory, history, owed, TypeOK
<1>4. ASSUME Leave(t) PROVE Same
  <2>1. Takes(t, head[t].ptr) /\ UNCHANGED <<epochs, memory>>
        /\ head' = [head EXCEPT ![t] = Off]
    BY <1>4 DEF Leave
  <2> QED
    BY <2>1 DEF Takes, Returns, epochs, memory, TypeOK
<1>5. ASSUME Derefs(t) PROVE Same
  BY <1>5 DEF Derefs, Deref, epochs, memory, history, owed
<1>6. ASSUME DerefAccess(t) PROVE Same
  <2>1. UNCHANGED <<global, head, next, held, todo, later>>
    BY <1>6 DEF DerefAccess, memory, history, owed
  <2> QED
    BY <1>6, <2>1, DerefAccessDoes
<1>7. ASSUME Decrements(t) PROVE Same
  <2>1. UNCHANGED <<epochs, head, next, held>> /\ Drops(t)
    BY <1>7 DEF Decrements, TravDrop, Drops
  <2> QED
    BY <2>1 DEF Drops, epochs, TypeOK
<1>8. ASSUME Ack(t) PROVE Same
  <2>1. UNCHANGED <<epochs, head, memory, held>> /\ Returns(t)
    BY <1>8 DEF Ack
  <2> QED
    BY <2>1 DEF Returns, epochs, memory, TypeOK
<1>9. ASSUME Trims(t) PROVE Same
  <2>1. UNCHANGED <<epochs, head, memory>> /\ Keeps(t)
    BY <1>9 DEF Trims, Trim
  <2> QED
    BY <2>1 DEF Keeps, epochs, memory, TypeOK
<1>10. ASSUME Retires(t) PROVE Same
  BY <1>10 DEF Retires, RetireBegin, Retire, epochs, owed
<1>11. ASSUME RetireAccess(t) \/ RetireLoad(t) PROVE Same
  BY <1>11 DEF RetireAccess, RetireLoad, epochs, memory, history, owed
<1>12. ASSUME RetireCas(t) PROVE Same
  BY <1>12, InsertFails DEF epochs, memory, history, owed
<1>13. ASSUME RetireFinish(t) PROVE Same
  BY <1>13 DEF RetireFinish, epochs, history, owed
<1>14. ASSUME Frees(t) PROVE Same
  <2>1. PICK b \in Batches : Free(t, b)
    BY <1>14 DEF Frees
  <2>2. ~Owes(u, b)
    <3>1. Listed(b)
      BY <2>1, FreeDoes DEF Listed
    <3> QED
      BY <3>1 DEF RefsInv, Owers
  <2> QED
    BY <1>14, <2>1, <2>2, FreeLinks DEF Frees, Plain, epochs
<1>15. ASSUME Plain, \/ DerefLoad(t) \/ DerefEpoch(t) \/ TravRead(t) \/ TrimRead(t)
                     \/ EndCall(t, Off)
       PROVE  Same
  BY <1>15 DEF Plain, DerefLoad, DerefEpoch, TravRead, TrimRead, EndCall, epochs, memory
<1> HIDE DEF Same
<1> QED
  BY <1>2, <1>3, <1>4, <1>5, <1>6, <1>7, <1>8, <1>9, <1>10, <1>11, <1>12, <1>13, <1>14,
     <1>15 DEF Moves

\* And itself.
LEMMA SelfRests ==
    ASSUME TypeOK, ThreadInv, RefsInv, NEW t \in Threads, Moves(t), ~Inserts(t),
           ~Decrements(t)
    PROVE  Settled(t)
<1>1. ThreadOK(t)
  BY DEF ThreadInv
<1>2. CASE Frees(t)
  <2>1. PICK b \in Batches : Free(t, b)
    BY <1>2 DEF Frees
  <2>2. ~Owes(t, b)
    <3>1. Listed(b)
      BY <2>1, FreeDoes DEF Listed
    <3> QED
      BY <3>1 DEF RefsInv, Owers
  <2> QED
    BY <1>1, <1>2, <2>1, <2>2, FreeRests DEF Frees
<1>3. CASE ~Frees(t)
  BY <1>1, <1>3, EnterSettles, LeaveSettles, DerefRests, DerefAccessRests, AckSettles,
     TrimSettles, RetireRests, RetireAccessRests, RetireLoadRests, InsertFailsRests,
     RetireFinishRests, DerefLoadRests, DerefEpochRests, TravReadSettles, TrimReadSettles,
     EndCallRests DEF Moves
<1> QED
  BY <1>2, <1>3

LEMMA QuietSettles ==
    ASSUME TypeOK, ThreadInv, RefsInv, NEW t \in Threads, Moves(t), ~Inserts(t),
           ~Decrements(t)
    PROVE  ThreadInv' /\ \A u \in Threads : \A b : Owes(u, b)' <=> Owes(u, b)
<1>1. \A u \in Threads : Settled(u)
  BY OthersRest, SelfRests
<1> QED
  BY <1>1 DEF ThreadInv, Settled

LEMMA DropSettles ==
    ASSUME TypeOK, ThreadInv, RefsInv, NEW t \in Threads, Decrements(t)
    PROVE  /\ ThreadInv'
           /\ \A u \in Threads : \A b : Owes(u, b)' <=>
                Owes(u, b) /\ ~(u = t /\ b = loc[t].walk.curr)
           /\ Owes(t, loc[t].walk.curr)
<1>1. Moves(t) /\ ThreadOK(t) /\ ~Inserts(t)
  BY DEF Moves, ThreadInv, Inserts, RetireCas, Decrements, TravDrop, At
<1>2. \A u \in Threads : u # t => Settled(u)
  BY <1>1, OthersRest
<1>3. /\ ThreadOK(t)' /\ Owes(t, loc[t].walk.curr)
      /\ \A b : Owes(t, b)' <=> Owes(t, b) /\ b # loc[t].walk.curr
  BY <1>1, TravDropSettles
<1>4. ThreadInv'
  BY <1>2, <1>3 DEF ThreadInv, Settled
<1> QED
  BY <1>2, <1>3, <1>4 DEF Settled

\* The steps of the client that belong to no thread.
LEMMA StructureSettles ==
    ASSUME TypeOK, ThreadInv, Allocates \/ Links
    PROVE  ThreadInv' /\ \A u \in Threads : \A b : Owes(u, b)' <=> Owes(u, b)
<1>1. /\ UNCHANGED <<access, head, next, refs, loc, held, todo, later>>
      /\ global' \in Nat /\ global <= global'
  <2>1. CASE Allocates
    <3>1. UNCHANGED <<access, head, next, refs, loc, held, todo, later>>
      BY <2>1 DEF Allocates, Alloc, history, owed
    <3>2. global' = global \/ global' = global + 1
      BY <2>1 DEF Allocates, Alloc
    <3>3. global \in Nat
      BY Constants DEF TypeOK, Epoch
    <3> QED
      BY <3>1, <3>2, <3>3
  <2>2. CASE Links
    BY <2>2, Constants DEF Links, Link, history, owed, memory, epochs, TypeOK, Epoch
  <2> QED
    BY <2>1, <2>2
<1>2. ASSUME NEW u \in Threads PROVE Settled(u)
  BY <1>1, OtherRests DEF ThreadInv
<1> QED
  BY <1>2 DEF ThreadInv, Settled

-----------------------------------------------------------------------------
(* Counting the threads that owe a decrement.                              *)

LEMMA OwersCount ==
    ASSUME NEW b
    PROVE  /\ IsFiniteSet(Owers(b)) /\ Cardinality(Owers(b)) \in Nat
           /\ Cardinality(Owers(b)) <= NumSlots
           /\ Cardinality(Owers(b)) = 0 <=> Owers(b) = {}
<1>1. IsFiniteSet(Threads) /\ Cardinality(Threads) = NumSlots
  BY FS_Interval, Constants
<1>2. Owers(b) \subseteq Threads
  BY DEF Owers
<1>3. IsFiniteSet(Owers(b)) /\ Cardinality(Owers(b)) <= NumSlots
  BY <1>1, <1>2, FS_Subset
<1> QED
  BY <1>3, FS_CardinalityType, FS_EmptySet

SameOwers == \A b \in Batches : Owers(b)' = Owers(b)

LEMMA OwersStay ==
    ASSUME \A u \in Threads : \A b : Owes(u, b)' <=> Owes(u, b)
    PROVE  SameOwers
BY DEF SameOwers, Owers

-----------------------------------------------------------------------------
(* What a step that does not count leaves alone.                           *)

\* u retires what it retired before, and may have come some slots further.
Onward(u) ==
    \A b \in Batches :
        /\ Retiring(u, b)' <=> Retiring(u, b)
        /\ Retiring(u, b) =>
             /\ loc'[u].min = loc[u].min /\ loc'[u].adjs = loc[u].adjs
             /\ Ahead(u)' \subseteq Ahead(u)
             /\ loc'[u].pc # "retireFinish" =>
                  loc[u].pc # "retireFinish" /\ loc[u].slot <= loc'[u].slot

LEMMA SameOnward ==
    ASSUME NEW u \in Threads, TypeOK, loc'[u] = loc[u]
    PROVE  Onward(u) /\ Ahead(u)' = Ahead(u)
<1>1. loc[u].slot \in Nat
  BY OwedSeqs, Fields DEF Slots
<1> QED
  BY <1>1 DEF Onward, Retiring, Ahead, At

\* A call that is no retirement, before and after the step.
LEMMA ElseOnward ==
    ASSUME NEW u \in Threads, loc[u].pc \notin RetireLabels, loc'[u].pc \notin RetireLabels
    PROVE  Onward(u)
BY DEF Onward, Retiring

SameLists == \A u \in Threads : loc'[u].list = loc[u].list

LEMMA CountsFrame ==
    ASSUME TypeOK, RetireInv, RefsInv, UNCHANGED <<refs, birth, status>>, SameOwers,
           SameLists, loc' \in [Threads -> Local], \A u \in Threads : Onward(u)
    PROVE  RetireInv' /\ RefsInv'
<1>1. /\ \A b \in Batches : Listed(b)' <=> Listed(b)
      /\ \A b \in Batches, u \in Threads : Retiring(u, b)' <=> Retiring(u, b)
  BY DEF Listed, SameLists, Onward
<1>2. RetireInv'
  <2>1. SUFFICES ASSUME NEW u \in Threads, NEW b \in Batches, Retiring(u, b)
                 PROVE  /\ status[b] = "retired" /\ ~Listed(b)
                        /\ \A v \in Threads : Retiring(v, b) => v = u
                        /\ loc'[u].min <= birth[b]
                        /\ loc'[u].adjs <= NumSlots
                        /\ loc'[u].pc # "retireFinish" => loc'[u].adjs <= loc'[u].slot
                        /\ Owers(b) \cap Ahead(u)' = {}
    BY <1>1 DEF RetireInv, SameOwers, At
  <2>2. /\ loc'[u].min = loc[u].min /\ loc'[u].adjs = loc[u].adjs
        /\ Ahead(u)' \subseteq Ahead(u)
        /\ loc'[u].pc # "retireFinish" =>
             loc[u].pc # "retireFinish" /\ loc[u].slot <= loc'[u].slot
    BY <2>1 DEF Onward
  <2>3. /\ status[b] = "retired" /\ ~Listed(b)
        /\ \A v \in Threads : Retiring(v, b) => v = u
        /\ loc[u].min <= birth[b]
        /\ loc[u].adjs <= NumSlots
        /\ loc[u].pc # "retireFinish" => loc[u].adjs <= loc[u].slot
        /\ Owers(b) \cap Ahead(u) = {}
    BY <2>1 DEF RetireInv, At
  <2>4. loc'[u].pc # "retireFinish" => loc'[u].adjs <= loc'[u].slot
    <3>1. loc[u].adjs \in Int /\ loc[u].slot \in Int
      BY OwedSeqs, Fields, Constants DEF Word, Slots
    <3>2. SUFFICES ASSUME loc'[u].pc # "retireFinish" PROVE loc'[u].adjs <= loc'[u].slot
      OBVIOUS
    <3> DEFINE i == loc[u].slot
               j == loc'[u].slot
               a == loc[u].adjs
    <3>3. a <= i /\ i <= j /\ loc'[u].adjs = a /\ a \in Int /\ i \in Int
      BY <2>2, <2>3, <3>1, <3>2
    <3>4. j \in Int
      BY Fields, Constants DEF Slots
    <3> QED
      BY <3>3, <3>4
  <2> QED
    BY <2>2, <2>3, <2>4
<1>3. RefsInv'
  <2>1. SUFFICES ASSUME NEW b \in Batches
        PROVE  /\ status[b] # "retired" \/ Listed(b) => Owers(b) = {}
               /\ Listed(b) => status[b] = "retired"
               /\ \A u, v \in Threads : b \in loc'[u].list \cap loc'[v].list => u = v
               /\ \A u \in Threads : Retiring(u, b) =>
                    /\ Cardinality(Owers(b)) <= loc'[u].adjs
                    /\ refs[b] = NegW(loc'[u].adjs - Cardinality(Owers(b)))
               /\ (status[b] = "retired" /\ ~Listed(b)
                     /\ \A u \in Threads : ~Retiring(u, b)) =>
                    Owers(b) # {} /\ refs[b] = Cardinality(Owers(b))
    BY <1>1 DEF RefsInv, SameOwers
  <2>2. \A u \in Threads : Retiring(u, b) => loc'[u].adjs = loc[u].adjs
    BY DEF Onward
  <2> QED
    BY <2>2 DEF RefsInv, SameLists
<1> QED
  BY <1>2, <1>3

\* What a thread claims, by its locals.
ClaimsOf(l, g) ==
    l.holds \union IF l.pc = "derefEpoch" /\ l.acc = g THEN {l.value} \ {NULL} ELSE {}

LEMMA ClaimsAre ==
    ASSUME NEW v \in Threads
    PROVE  Claims(v) = ClaimsOf(loc[v], global) /\ Claims(v)' = ClaimsOf(loc'[v], global')
BY DEF Claims, ClaimsOf, At

\* Who claims is inside.
LEMMA ClaimsInside ==
    ASSUME TypeOK, NEW v \in Threads, ThreadOK(v), ~loc[v].inside
    PROVE  Claims(v) = {}
BY DEF Claims, ThreadOK, SlotOK, ControlOK, DerefLabels, At

LEMMA ClaimsTyped ==
    ASSUME TypeOK, NEW v \in Threads
    PROVE  Claims(v) \subseteq Batches /\ loc[v].acc \in Nat
<1>1. loc[v].holds \in SUBSET Batches /\ loc[v].value \in Ptr /\ loc[v].acc \in Epoch
  BY OwedSeqs, Fields
<1> QED
  BY <1>1, Constants DEF Claims, Ptr, Epoch

\* A step under which no claim is new, and whose retirements pass by no slot
\* with a claim.
LEMMA ClaimFrame ==
    ASSUME TypeOK, ClaimInv,
           \A v \in Threads : Claims(v)' \subseteq Claims(v),
           \A v \in Threads : access'[v] \in Nat /\ access[v] <= access'[v],
           \A v \in Threads : \A b \in Claims(v) :
               status'[b] = status[b] /\ birth'[b] = birth[b],
           \A v \in Threads : \A b \in Claims(v)' :
               InSeq(b, held[v]) => InSeq(b, held'[v]),
           \A v, u \in Threads : \A b \in Claims(v)' :
               Retiring(u, b) /\ v \in Ahead(u) =>
                   InSeq(b, held'[v]) \/ (Retiring(u, b)' /\ v \in Ahead(u)')
    PROVE  ClaimInv'
<1>1. SUFFICES ASSUME NEW v \in Threads, NEW b \in Claims(v)'
               PROVE  /\ status'[b] \in {"linked", "retired"} /\ birth'[b] <= access'[v]
                      /\ status'[b] = "retired" =>
                           InSeq(b, held'[v])
                           \/ \E u \in Threads : Retiring(u, b)' /\ v \in Ahead(u)'
  BY DEF ClaimInv
<1>2. b \in Claims(v) /\ b \in Batches
  BY ClaimsTyped
<1>3. /\ status[b] \in {"linked", "retired"} /\ birth[b] <= access[v]
      /\ status[b] = "retired" =>
           InSeq(b, held[v]) \/ \E u \in Threads : Retiring(u, b) /\ v \in Ahead(u)
  BY <1>2 DEF ClaimInv
<1>4. birth[b] \in Nat /\ access[v] \in Nat
  BY <1>2, Constants DEF TypeOK, Epoch
<1>5. birth'[b] <= access'[v] /\ status'[b] = status[b]
  BY <1>2, <1>3, <1>4
<1>6. status[b] = "retired" =>
        InSeq(b, held'[v]) \/ \E u \in Threads : Retiring(u, b)' /\ v \in Ahead(u)'
  BY <1>3
<1> QED
  BY <1>3, <1>5, <1>6

-----------------------------------------------------------------------------
(* The steps that count nothing.                                           *)

\* The calls other than a protected read's first half, retire and free.
Still(t) ==
    \/ Enter(t) \/ Leave(t) \/ Derefs(t) \/ DerefAccess(t) \/ Ack(t) \/ Trims(t)
    \/ Plain /\ (DerefEpoch(t) \/ TravRead(t) \/ TrimRead(t) \/ EndCall(t, Off))

LEMMA StillKeeps ==
    ASSUME TypeOK, ThreadInv, NEW t \in Threads, Still(t)
    PROVE  /\ loc[t].pc \notin RetireLabels /\ loc'[t].pc \notin RetireLabels
           /\ loc'[t].list = loc[t].list
           /\ loc'[t].pc # "derefEpoch" /\ loc'[t].holds \subseteq Claims(t)
<1>1. ThreadOK(t) /\ loc[t].holds \subseteq Claims(t)
  BY DEF ThreadInv, Claims
<1>2. CASE Enter(t)
  BY <1>1, <1>2, EnterDoes DEF RetireLabels
<1>3. CASE Leave(t)
  BY <1>1, <1>3, LeaveDoes DEF RetireLabels
<1>4. CASE Derefs(t)
  BY <1>1, <1>4, Ready, DerefDoes DEF Derefs, RetireLabels, SameClient
<1>5. CASE DerefAccess(t)
  BY <1>1, <1>5, DerefAccessDoes DEF RetireLabels, SameClient
<1>6. CASE Ack(t)
  BY <1>1, <1>6, AckDoes DEF RetireLabels, SameClient
<1>7. CASE Trims(t)
  BY <1>1, <1>7, Ready, TrimDoes DEF Trims, RetireLabels
<1>8. CASE DerefEpoch(t)
  <2>1. /\ loc[t].pc = "derefEpoch" /\ loc'[t].pc \in {"idle", "derefAccess"}
        /\ loc'[t].list = loc[t].list
        /\ loc'[t].holds = IF loc[t].acc = global
                           THEN loc[t].holds \union ({loc[t].value} \ {NULL})
                           ELSE loc[t].holds
    BY <1>8, DerefEpochDoes
  <2>2. loc'[t].holds \subseteq Claims(t)
    BY <2>1 DEF Claims, At
  <2> QED
    BY <2>1, <2>2 DEF RetireLabels
<1>9. CASE TravRead(t)
  BY <1>1, <1>9, Ready, TravReadDoes DEF RetireLabels, SameClient
<1>10. CASE TrimRead(t)
  <2>1. loc[t].pc = "trimRead"
    BY <1>10 DEF TrimRead, At
  <2> QED
    BY <1>1, <1>10, <2>1, Ready, TrimReadDoes DEF RetireLabels, SameClient
<1>11. CASE EndCall(t, Off)
  BY <1>1, <1>11, EndCallDoes DEF RetireLabels
<1> QED
  BY <1>2, <1>3, <1>4, <1>5, <1>6, <1>7, <1>8, <1>9, <1>10, <1>11 DEF Still

LEMMA StillWords ==
    ASSUME TypeOK, ThreadInv, NEW t \in Threads, Still(t)
    PROVE  /\ UNCHANGED <<global, refs, birth, root, status>>
           /\ \A v \in Threads : v # t => access'[v] = access[v] /\ held'[v] = held[v]
           /\ access'[t] \in Nat /\ access[t] <= access'[t]
           /\ held'[t] = held[t] \/ loc'[t].holds = {}
<1>1. /\ ThreadOK(t) /\ \A v \in Threads : access[v] \in Nat /\ access[v] <= access[v]
      /\ held \in [Threads -> Seq(Batches)]
  BY OwedSeqs DEF ThreadInv, TypeOK
<1>2. CASE Enter(t) \/ Derefs(t) \/ Ack(t)
  BY <1>1, <1>2
     DEF Enter, Derefs, Deref, Ack, epochs, memory, structure, history, owed
<1>3. CASE Leave(t)
  <2>1. UNCHANGED <<epochs, memory, structure>> /\ Takes(t, head[t].ptr)
    BY <1>3 DEF Leave
  <2>2. loc'[t].holds = {}
    BY <1>3, LeaveDoes
  <2> QED
    BY <1>1, <2>1, <2>2 DEF Takes, epochs, memory, structure
<1>4. CASE Trims(t)
  <2>1. UNCHANGED <<epochs, memory, structure>> /\ Keeps(t)
    BY <1>4 DEF Trims, Trim
  <2>2. loc'[t].holds = {}
    BY <1>1, <1>4, Ready, TrimDoes DEF Trims
  <2> QED
    BY <1>1, <2>1, <2>2 DEF Keeps, epochs, memory, structure
<1>5. CASE DerefAccess(t)
  <2>1. /\ loc[t].pc = "derefAccess" /\ access'[t] = loc[t].glob
        /\ \A u \in Threads : u # t => access'[u] = access[u]
    BY <1>5, DerefAccessDoes
  <2>2. access[t] <= loc[t].glob /\ loc[t].glob \in Nat
    BY <1>1, <2>1, OwedSeqs, Fields DEF ThreadOK, EpochOK, Epoch
  <2>3. UNCHANGED <<global, refs, birth, root, status, held>>
    BY <1>5 DEF DerefAccess, memory, structure, history, owed
  <2> QED
    BY <2>1, <2>2, <2>3
<1>6. CASE Plain /\ (DerefEpoch(t) \/ TravRead(t) \/ TrimRead(t) \/ EndCall(t, Off))
  BY <1>1, <1>6
     DEF Plain, DerefEpoch, TravRead, TrimRead, EndCall, epochs, memory, structure
<1> QED
  BY <1>2, <1>3, <1>4, <1>5, <1>6 DEF Still

LEMMA ObjectFrame ==
    ASSUME ObjectInv, UNCHANGED <<global, birth, root, status>>
    PROVE  ObjectInv'
BY DEF ObjectInv

LEMMA StillStep ==
    ASSUME TypeOK, ThreadInv, ObjectInv, RetireInv, RefsInv, ClaimInv,
           NEW t \in Threads, Still(t)
    PROVE  ObjectInv' /\ RetireInv' /\ RefsInv' /\ ClaimInv'
<1>1. Moves(t) /\ ~Inserts(t) /\ ~Decrements(t)
  <2>1. Moves(t)
    BY DEF Still, Moves
  <2>2. loc[t].pc \notin RetireLabels
    BY StillKeeps
  <2>3. ~Inserts(t)
    BY <2>2 DEF Inserts, RetireCas, At, RetireLabels
  <2>4. ~Decrements(t)
    <3>1. UNCHANGED refs
      BY StillWords
    <3>2. SUFFICES ASSUME Decrements(t) PROVE FALSE
      OBVIOUS
    <3>3. loc[t].pc = "travDrop" /\ Adjust(loc[t].walk.curr, MinusOne)
      BY <3>2 DEF Decrements, TravDrop, At
    <3>4. loc[t].walk.curr \in Batches
      BY <3>3, Ready DEF ThreadInv
    <3>5. refs[loc[t].walk.curr] \in Word
      BY <3>4 DEF TypeOK
    <3>6. refs'[loc[t].walk.curr] = AddW(refs[loc[t].walk.curr], MinusOne)
      BY <3>3, <3>4 DEF Adjust, TypeOK
    <3> QED
      BY <3>1, <3>5, <3>6, Constants DEF AddW, MinusOne, Word
  <2> QED
    BY <2>1, <2>3, <2>4
<1>2. Others(t) /\ loc' \in [Threads -> Local] /\ SameOwers
  BY <1>1, LocType, QuietSettles, OwersStay
<1>3. UNCHANGED <<global, refs, birth, root, status>>
  BY StillWords
<1>4. \A u \in Threads : Onward(u)
  BY <1>2, SameOnward, StillKeeps, ElseOnward DEF Others
<1>5. SameLists
  BY <1>2, StillKeeps DEF SameLists, Others
<1>6. RetireInv' /\ RefsInv'
  BY <1>2, <1>3, <1>4, <1>5, CountsFrame
<1>7. ObjectInv'
  BY <1>3, ObjectFrame
<1>8. ASSUME NEW v \in Threads
      PROVE  /\ Claims(v)' \subseteq Claims(v)
             /\ access'[v] \in Nat /\ access[v] <= access'[v]
             /\ held'[v] = held[v] \/ Claims(v)' = {}
  <2>1. CASE v = t
    <3>1. Claims(t)' = loc'[t].holds
      BY ClaimsAre, StillKeeps DEF ClaimsOf
    <3> QED
      BY <2>1, <3>1, StillKeeps, StillWords
  <2>2. CASE v # t
    <3>1. loc'[v] = loc[v] /\ access'[v] = access[v] /\ held'[v] = held[v]
      BY <1>2, <2>2, StillWords DEF Others
    <3> QED
      BY <1>3, <3>1, ClaimsAre, OwedSeqs
  <2> QED
    BY <2>1, <2>2
<1>9. \A u \in Threads, b \in Batches :
        Retiring(u, b) => Retiring(u, b)' /\ Ahead(u)' = Ahead(u)
  <2>1. \A b \in Batches : ~Retiring(t, b)
    BY StillKeeps DEF Retiring
  <2> QED
    BY <1>2, <1>4, <2>1, SameOnward DEF Others, Onward
<1>10. ClaimInv'
  <2>1. \A v, u \in Threads : \A b \in Claims(v)' :
               Retiring(u, b) /\ v \in Ahead(u) =>
                   InSeq(b, held'[v]) \/ (Retiring(u, b)' /\ v \in Ahead(u)')
    BY <1>8, <1>9, ClaimsTyped
  <2> QED
    BY <1>3, <1>8, <2>1, ClaimFrame
<1> QED
  BY <1>6, <1>7, <1>10

\* The pointer is read: what is reachable was born by the epoch of the slot, if
\* that is still the global one.
LEMMA DerefLoadStep ==
    ASSUME TypeOK, ThreadInv, ObjectInv, RetireInv, RefsInv, ClaimInv,
           NEW t \in Threads, DerefLoad(t), Plain
    PROVE  ObjectInv' /\ RetireInv' /\ RefsInv' /\ ClaimInv'
<1>1. /\ loc' \in [Threads -> Local] /\ Others(t)
      /\ loc[t].pc = "derefLoad" /\ loc'[t].pc = "derefEpoch"
      /\ loc'[t].value = root /\ loc'[t].acc = loc[t].acc /\ loc'[t].list = loc[t].list
      /\ loc'[t].holds = loc[t].holds
  BY DerefLoadDoes DEF SameClient
<1>2. UNCHANGED <<epochs, head, next, refs, birth, root, status, held, todo, later>>
  BY DEF DerefLoad, Plain, memory, structure
<1>3. SameOwers
  BY <1>2 DEF SameOwers, Owers, Owes
<1>4. \A u \in Threads : Onward(u)
  BY <1>1, SameOnward, ElseOnward DEF Others, RetireLabels
<1>5. RetireInv' /\ RefsInv' /\ ObjectInv'
  BY <1>1, <1>2, <1>3, <1>4, CountsFrame, ObjectFrame DEF SameLists, Others, epochs
<1>6. \A u \in Threads, b \in Batches :
        Retiring(u, b) => Retiring(u, b)' /\ Ahead(u)' = Ahead(u)
  <2>1. \A b \in Batches : ~Retiring(t, b)
    BY <1>1 DEF Retiring, RetireLabels
  <2> QED
    BY <1>1, <1>4, <2>1, SameOnward DEF Others, Onward
<1>7. SUFFICES ASSUME NEW v \in Threads, NEW b \in Claims(v)'
               PROVE  /\ status[b] \in {"linked", "retired"} /\ birth[b] <= access[v]
                      /\ status[b] = "retired" =>
                           InSeq(b, held[v])
                           \/ \E u \in Threads : Retiring(u, b)' /\ v \in Ahead(u)'
  BY <1>2, <1>5 DEF ClaimInv, epochs
<1>8. CASE b \in Claims(v)
  <2>1. b \in Batches
    BY <1>8, ClaimsTyped
  <2>2. /\ status[b] \in {"linked", "retired"} /\ birth[b] <= access[v]
        /\ status[b] = "retired" =>
             InSeq(b, held[v]) \/ \E u \in Threads : Retiring(u, b) /\ v \in Ahead(u)
    BY <1>8 DEF ClaimInv
  <2> QED
    BY <1>6, <2>1, <2>2
<1>9. CASE b \notin Claims(v)
  <2>1. v = t
    <3>1. v # t => Claims(v)' = Claims(v)
      BY <1>1, <1>2, ClaimsAre DEF Others, epochs
    <3> QED
      BY <1>9, <3>1
  <2>2. b = root /\ b # NULL /\ loc[t].acc = global
    <3>1. b \in ClaimsOf(loc'[t], global) /\ b \notin loc[t].holds
      BY <1>2, <1>9, <2>1, ClaimsAre DEF epochs, ClaimsOf
    <3> QED
      BY <1>1, <3>1 DEF ClaimsOf
  <2>3. loc[t].acc = access[t]
    BY <1>1 DEF ThreadInv, ThreadOK, EpochOK, DerefLabels
  <2>4. status[b] = "linked" /\ birth[b] <= global
    <3>1. b \in Batches
      BY <2>2 DEF TypeOK, Ptr
    <3> QED
      BY <2>2, <3>1 DEF ObjectInv
  <2> QED
    BY <2>1, <2>2, <2>3, <2>4
<1> QED
  BY <1>8, <1>9

-----------------------------------------------------------------------------
(* The loop over the slots.                                                *)

\* A step of the loop that inserts nothing: the slot it leaves behind, if it
\* does, is of a thread that does not claim the batch.
Skips(t) ==
    /\ Loops(loc[t], loc'[t]) /\ loc'[t].adjs = loc[t].adjs
    /\ loc[t].pc \in {"retireAccess", "retireLoad", "retireCas"}
    /\ loc'[t].pc \in RetireLabels
    /\ \/ loc'[t].slot = loc[t].slot /\ loc'[t].pc # "retireFinish"
       \/ Passes(loc[t], loc'[t]) /\ loc[t].batch \notin Claims(loc[t].slot)

LEMMA LooksSkip ==
    ASSUME TypeOK, ThreadInv, NEW t \in Threads, Looks(t),
           loc[t].pc \in {"retireLoad", "retireCas"}
    PROVE  Skips(t)
<1>1. loc[t].slot \in Threads
  BY OwedSeqs, Fields, Constants
<1>2. ~head[loc[t].slot].on => Claims(loc[t].slot) = {}
  BY <1>1, ClaimsInside DEF ThreadInv, ThreadOK, SlotOK
<1> QED
  BY <1>2, LooksAhead DEF Looks, Skips

LEMMA AccessSkips ==
    ASSUME TypeOK, ThreadInv, RetireInv, ClaimInv, NEW t \in Threads, RetireAccess(t)
    PROVE  Skips(t)
<1>1. /\ loc[t].pc = "retireAccess" /\ Loops(loc[t], loc'[t])
      /\ loc'[t].adjs = loc[t].adjs
      /\ \/ /\ access[loc[t].slot] >= loc[t].min
            /\ loc'[t].pc = "retireLoad" /\ loc'[t].slot = loc[t].slot
         \/ /\ ~(access[loc[t].slot] >= loc[t].min)
            /\ Passes(loc[t], loc'[t])
  BY RetireAccessDoes
<1>2. loc[t].batch \in Batches /\ loc[t].slot \in Threads /\ loc[t].min \in Nat
  BY <1>1, Ready, OwedSeqs, Fields, Constants DEF ThreadInv, RetireLabels, Epoch
<1>3. loc[t].min <= birth[loc[t].batch]
  BY <1>1, <1>2 DEF RetireInv, Retiring, RetireLabels
<1>4. ~(access[loc[t].slot] >= loc[t].min) => loc[t].batch \notin Claims(loc[t].slot)
  <2> DEFINE x == access[loc[t].slot]
             y == birth[loc[t].batch]
             z == loc[t].min
  <2>1. loc[t].batch \in Claims(loc[t].slot) => y <= x
    BY <1>2 DEF ClaimInv
  <2>2. x \in Nat /\ y \in Nat /\ z \in Nat /\ z <= y
    <3>1. x \in Nat
      BY <1>2, OwedSeqs
    <3>2. y \in Epoch
      BY <1>2 DEF TypeOK
    <3> QED
      BY <1>2, <1>3, <3>1, <3>2, Constants DEF Epoch
  <2> HIDE DEF x, y, z
  <2>3. ~(x >= z) => ~(y <= x)
    BY <2>2
  <2> QED
    BY <2>1, <2>3 DEF x, z
<1> QED
  BY <1>1, <1>4 DEF Skips, Passes, RetireLabels

LEMMA PassesAhead ==
    ASSUME TypeOK, NEW t \in Threads, loc' \in [Threads -> Local],
           loc[t].pc \in RetireLabels \ {"retireFinish"}, Passes(loc[t], loc'[t])
    PROVE  /\ Ahead(t)' = Ahead(t) \ {loc[t].slot} /\ loc[t].slot \in Ahead(t)
           /\ loc[t].slot <= loc'[t].slot
           /\ loc'[t].pc # "retireFinish" => loc'[t].slot = loc[t].slot + 1
<1>1. /\ loc[t].slot \in 0 .. NumSlots - 1 /\ loc'[t].slot \in 0 .. NumSlots - 1
      /\ NumSlots \in Nat
  BY OwedSeqs, Fields, Constants DEF Slots
<1>2. Ahead(t) = loc[t].slot .. NumSlots - 1
  BY DEF Ahead, At
<1>3. CASE loc[t].slot + 1 < NumSlots /\ loc'[t].slot = loc[t].slot + 1
             /\ loc'[t].pc = "retireAccess"
  <2>1. Ahead(t)' = loc[t].slot + 1 .. NumSlots - 1
    BY <1>3 DEF Ahead, At
  <2> QED
    BY <1>1, <1>2, <1>3, <2>1
<1>4. CASE loc[t].slot + 1 = NumSlots /\ loc'[t].slot = loc[t].slot
             /\ loc'[t].pc = "retireFinish"
  <2>1. Ahead(t)' = {}
    BY <1>4 DEF Ahead, At
  <2> QED
    BY <1>1, <1>2, <1>4, <2>1
<1> QED
  BY <1>3, <1>4 DEF Passes

LEMMA SkipStep ==
    ASSUME TypeOK, ThreadInv, ObjectInv, RetireInv, RefsInv, ClaimInv,
           NEW t \in Threads, Skips(t), Moves(t), ~Inserts(t), ~Decrements(t),
           UNCHANGED <<epochs, memory, structure, held>>
    PROVE  ObjectInv' /\ RetireInv' /\ RefsInv' /\ ClaimInv'
<1>1. Others(t) /\ loc' \in [Threads -> Local] /\ SameOwers
  BY LocType, QuietSettles, OwersStay
<1>2. UNCHANGED <<global, access, refs, birth, root, status, held>>
  BY DEF epochs, memory, structure
<1>3. /\ loc[t].slot \in 0 .. NumSlots - 1 /\ loc'[t].slot \in 0 .. NumSlots - 1
      /\ NumSlots \in Nat
  BY <1>1, OwedSeqs, Fields, Constants DEF Slots
<1>4. \/ Ahead(t)' = Ahead(t) /\ loc'[t].slot = loc[t].slot
      \/ /\ Ahead(t)' = Ahead(t) \ {loc[t].slot} /\ loc[t].slot <= loc'[t].slot
         /\ loc[t].batch \notin Claims(loc[t].slot)
  <2>1. loc[t].pc \in RetireLabels \ {"retireFinish"}
    BY DEF Skips, RetireLabels
  <2>2. CASE loc'[t].slot = loc[t].slot /\ loc'[t].pc # "retireFinish"
    BY <2>1, <2>2 DEF Ahead, At
  <2>3. CASE Passes(loc[t], loc'[t]) /\ loc[t].batch \notin Claims(loc[t].slot)
    BY <1>1, <2>1, <2>3, PassesAhead
  <2> QED
    BY <2>2, <2>3 DEF Skips
<1>5. Onward(t) /\ \A b \in Batches : Retiring(t, b)' <=> Retiring(t, b)
  <2>1. \A b \in Batches : Retiring(t, b)' <=> Retiring(t, b)
    BY DEF Skips, Retiring, Loops, RetireLabels
  <2>2. loc[t].slot <= loc'[t].slot
    BY <1>3, <1>4
  <2> QED
    BY <1>4, <2>1, <2>2 DEF Onward, Skips, Loops
<1>6. \A u \in Threads : Onward(u)
  BY <1>1, <1>5, SameOnward DEF Others
<1>7. SameLists
  BY <1>1 DEF SameLists, Others, Skips, Loops
<1>8. ObjectInv' /\ RetireInv' /\ RefsInv'
  BY <1>1, <1>2, <1>6, <1>7, CountsFrame, ObjectFrame
<1>9. \A v \in Threads : Claims(v)' \subseteq Claims(v)
  <2>1. loc'[t].holds = loc[t].holds /\ loc'[t].pc # "derefEpoch"
    BY DEF Skips, Loops, SameClient, RetireLabels
  <2> QED
    BY <1>1, <1>2, <2>1, ClaimsAre DEF Others, ClaimsOf
<1>10. ASSUME NEW v \in Threads, NEW u \in Threads, NEW b \in Claims(v)',
              Retiring(u, b), v \in Ahead(u)
       PROVE  Retiring(u, b)' /\ v \in Ahead(u)'
  <2>1. b \in Batches /\ b \in Claims(v)
    BY <1>9, ClaimsTyped
  <2>2. CASE u = t
    <3>1. b = loc[t].batch
      BY <1>10, <2>2 DEF Retiring
    <3> QED
      BY <1>4, <1>5, <1>10, <2>1, <2>2, <3>1
  <2>3. CASE u # t
    <3>1. Ahead(u)' = Ahead(u) /\ (Retiring(u, b)' <=> Retiring(u, b))
      BY <1>1, <1>6, <2>1, <2>3, SameOnward DEF Others, Onward
    <3> QED
      BY <1>10, <3>1
  <2> QED
    BY <2>2, <2>3
<1>11. ClaimInv'
  BY <1>2, <1>9, <1>10, OwedSeqs, ClaimFrame
<1> QED
  BY <1>8, <1>11

LEMMA LookStep ==
    ASSUME TypeOK, ThreadInv, ObjectInv, RetireInv, RefsInv, ClaimInv, NEW t \in Threads,
           RetireAccess(t) \/ RetireLoad(t) \/ (RetireCas(t) /\ ~Inserts(t))
    PROVE  ObjectInv' /\ RetireInv' /\ RefsInv' /\ ClaimInv'
<1>1. Skips(t)
  <2>1. RetireLoad(t) => Looks(t) /\ loc[t].pc = "retireLoad"
    BY RetireLoadDoes
  <2>2. RetireCas(t) /\ ~Inserts(t) => Looks(t) /\ loc[t].pc = "retireCas"
    BY InsertFails
  <2> QED
    BY <2>1, <2>2, AccessSkips, LooksSkip
<1>2. Moves(t) /\ ~Inserts(t) /\ ~Decrements(t)
  <2>1. ~Decrements(t)
    BY <1>1 DEF Skips, Decrements, TravDrop, At
  <2>2. RetireAccess(t) \/ RetireLoad(t) => ~RetireCas(t)
    BY DEF RetireAccess, RetireLoad, RetireCas, At
  <2> QED
    BY <2>1, <2>2 DEF Moves, Inserts
<1>3. UNCHANGED <<epochs, memory, structure, held>>
  BY InsertFails DEF RetireAccess, RetireLoad, history, owed
<1> QED
  BY <1>1, <1>2, <1>3, SkipStep

-----------------------------------------------------------------------------
(* The steps that change what is owed or what has been counted.            *)

LEMMA OthersSame ==
    ASSUME NEW t \in Threads, Others(t), NEW u \in Threads, u # t
    PROVE  /\ loc'[u] = loc[u] /\ Ahead(u)' = Ahead(u)
           /\ \A c : Retiring(u, c)' <=> Retiring(u, c)
BY DEF Others, Ahead, At, Retiring

\* Insert: one thread more owes a decrement, and adjs counts it.
LEMMA InsertCounts ==
    ASSUME TypeOK, ThreadInv, RetireInv, RefsInv, NEW t \in Threads, Inserts(t),
           NEW s \in Threads, s = loc[t].slot, NEW b \in Batches, b = loc[t].batch
    PROVE  RetireInv' /\ RefsInv'
<1>1. /\ loc' \in [Threads -> Local] /\ Others(t) /\ loc[t].pc = "retireCas"
      /\ Loops(loc[t], loc'[t]) /\ loc'[t].adjs = AddW(loc[t].adjs, 1)
      /\ Passes(loc[t], loc'[t])
      /\ UNCHANGED <<refs, birth, status>>
  BY InsertDoes DEF structure
<1>2. /\ ~Owes(s, b)
      /\ \A u \in Threads : \A c : Owes(u, c)' <=> Owes(u, c) \/ (u = s /\ c = b)
  BY InsertSettles
<1>3. /\ Owers(b)' = Owers(b) \union {s} /\ s \notin Owers(b)
      /\ \A c \in Batches : c # b => Owers(c)' = Owers(c)
  BY <1>2 DEF Owers
<1>4. Cardinality(Owers(b)') = Cardinality(Owers(b)) + 1 /\ Cardinality(Owers(b)) \in Nat
  <2>1. IsFiniteSet(Owers(b)) /\ Cardinality(Owers(b)) \in Nat
    BY OwersCount
  <2>2. Cardinality(Owers(b) \union {s}) = Cardinality(Owers(b)) + 1
    BY <1>3, <2>1, FS_AddElement
  <2> QED
    BY <1>3, <2>1, <2>2, Zenon
<1>5. /\ Ahead(t)' = Ahead(t) \ {s}
      /\ loc'[t].pc # "retireFinish" => loc'[t].slot = s + 1
  BY <1>1, PassesAhead DEF RetireLabels
<1>6. /\ Retiring(t, b) /\ Retiring(t, b)'
      /\ \A c : Retiring(t, c) \/ Retiring(t, c)' => c = b
  BY <1>1 DEF Retiring, Loops, Passes, RetireLabels
<1>7. /\ status[b] = "retired" /\ ~Listed(b) /\ loc[t].min <= birth[b]
      /\ \A u \in Threads : Retiring(u, b) => u = t
      /\ loc[t].adjs <= NumSlots /\ loc[t].adjs <= s
      /\ Owers(b) \cap Ahead(t) = {}
  BY <1>1, <1>6 DEF RetireInv, At
<1>8. /\ loc[t].adjs \in Nat /\ loc'[t].adjs = loc[t].adjs + 1
      /\ loc'[t].adjs <= NumSlots /\ s \in 0 .. NumSlots - 1
  <2>1. loc[t].adjs \in Nat /\ s \in 0 .. NumSlots - 1 /\ NumSlots \in Nat
    BY OwedSeqs, Fields, Constants DEF Word
  <2> QED
    BY <1>1, <1>7, <2>1, Constants DEF AddW
<1>9. /\ \A c \in Batches : Listed(c)' <=> Listed(c)
      /\ \A u \in Threads : loc'[u].list = loc[u].list
  BY <1>1 DEF Listed, Others, Loops
<1>10. \A u \in Threads, c \in Batches : Retiring(u, c)' <=> Retiring(u, c)
  BY <1>1, <1>6, OthersSame
<1>11. RetireInv'
  <2>1. SUFFICES ASSUME NEW u \in Threads, NEW c \in Batches, Retiring(u, c)
                 PROVE  /\ status[c] = "retired" /\ ~Listed(c)
                        /\ \A v \in Threads : Retiring(v, c) => v = u
                        /\ loc'[u].min <= birth[c]
                        /\ loc'[u].adjs <= NumSlots
                        /\ loc'[u].pc # "retireFinish" => loc'[u].adjs <= loc'[u].slot
                        /\ Owers(c)' \cap Ahead(u)' = {}
    BY <1>1, <1>9, <1>10 DEF RetireInv, At
  <2>2. CASE u = t
    <3>1. c = b
      BY <1>6, <2>1, <2>2
    <3>2. Owers(b)' \cap Ahead(t)' = {}
      BY <1>3, <1>5, <1>7
    <3>3. loc'[t].pc # "retireFinish" => loc'[t].adjs <= loc'[t].slot
      BY <1>5, <1>7, <1>8
    <3> QED
      BY <1>1, <1>7, <1>8, <2>2, <3>1, <3>2, <3>3 DEF Loops
  <2>3. CASE u # t
    <3>1. c # b
      BY <1>7, <2>1, <2>3
    <3>2. loc'[u] = loc[u] /\ Ahead(u)' = Ahead(u)
      BY <1>1, <2>3, OthersSame
    <3> QED
      BY <1>3, <2>1, <3>1, <3>2 DEF RetireInv, At
  <2> QED
    BY <2>2, <2>3
<1>12. RefsInv'
  <2>1. SUFFICES ASSUME NEW c \in Batches
        PROVE  /\ status[c] # "retired" \/ Listed(c) => Owers(c)' = {}
               /\ \A u \in Threads : Retiring(u, c) =>
                    /\ Cardinality(Owers(c)') <= loc'[u].adjs
                    /\ refs[c] = NegW(loc'[u].adjs - Cardinality(Owers(c)'))
               /\ (status[c] = "retired" /\ ~Listed(c)
                      /\ \A u \in Threads : ~Retiring(u, c)) =>
                     Owers(c)' # {} /\ refs[c] = Cardinality(Owers(c)')
    BY <1>1, <1>9, <1>10 DEF RefsInv
  <2>2. CASE c # b
    <3>1. \A u \in Threads : Retiring(u, c) => loc'[u] = loc[u]
      BY <1>1, <1>6, <2>2, OthersSame
    <3> QED
      BY <1>3, <2>2, <3>1 DEF RefsInv
  <2>3. CASE c = b
    <3>1. /\ Cardinality(Owers(b)) <= loc[t].adjs
          /\ refs[b] = NegW(loc[t].adjs - Cardinality(Owers(b)))
      BY <1>6 DEF RefsInv
    <3>2. loc'[t].adjs - Cardinality(Owers(b)') = loc[t].adjs - Cardinality(Owers(b))
      BY <1>4, <1>8
    <3>3. Cardinality(Owers(b)') <= loc'[t].adjs
      BY <1>4, <1>8, <3>1
    <3> QED
      BY <1>6, <1>7, <2>3, <3>1, <3>2, <3>3
  <2> QED
    BY <2>2, <2>3
<1> QED
  BY <1>11, <1>12

LEMMA InsertStep ==
    ASSUME TypeOK, ThreadInv, ObjectInv, RetireInv, RefsInv, ClaimInv,
           NEW t \in Threads, Inserts(t)
    PROVE  ObjectInv' /\ RetireInv' /\ RefsInv' /\ ClaimInv'
<1>1. PICK s \in Threads, b \in Batches : s = loc[t].slot /\ b = loc[t].batch
  <2>1. loc[t].pc \in RetireLabels
    BY DEF Inserts, RetireCas, At, RetireLabels
  <2> QED
    BY <2>1, Ready, OwedSeqs, Fields, Constants DEF ThreadInv
<1>2. /\ loc' \in [Threads -> Local] /\ Others(t) /\ loc[t].pc = "retireCas"
      /\ Loops(loc[t], loc'[t]) /\ Passes(loc[t], loc'[t])
      /\ held'[s] = <<b>> \o held[s] /\ \A u \in Threads : u # s => held'[u] = held[u]
      /\ UNCHANGED <<global, access, refs, birth, root, status>>
  BY <1>1, InsertDoes DEF structure, epochs
<1>3. RetireInv' /\ RefsInv'
  BY <1>1, InsertCounts
<1>4. ObjectInv'
  BY <1>2, ObjectFrame
<1>5. \A v \in Threads : Claims(v)' \subseteq Claims(v)
  <2>1. loc'[t].holds = loc[t].holds /\ loc'[t].pc # "derefEpoch"
    BY <1>2 DEF Loops, SameClient, Passes
  <2> QED
    BY <1>2, <2>1, ClaimsAre DEF Others, ClaimsOf
<1>6. ASSUME NEW v \in Threads
      PROVE  /\ \A c : InSeq(c, held[v]) => InSeq(c, held'[v])
             /\ v = s => InSeq(b, held'[v])
  <2>1. \A c : InSeq(c, <<b>> \o held[s]) <=> c = b \/ InSeq(c, held[s])
    <3>1. held[s] \in Seq(Batches)
      BY OwedSeqs
    <3> QED
      BY <3>1, InCons
  <2>2. \A c : InSeq(c, held'[s]) <=> c = b \/ InSeq(c, held[s])
    BY <1>2, <2>1, Zenon
  <2> QED
    BY <1>2, <2>2, Zenon
<1>7. ASSUME NEW v \in Threads, NEW u \in Threads, NEW c \in Claims(v)',
             Retiring(u, c), v \in Ahead(u)
      PROVE  InSeq(c, held'[v]) \/ (Retiring(u, c)' /\ v \in Ahead(u)')
  <2>1. CASE u = t
    <3>1. c = b /\ Retiring(t, c)'
      BY <1>1, <1>2, <1>7, <2>1 DEF Retiring, Loops, Passes, RetireLabels
    <3>2. Ahead(t)' = Ahead(t) \ {s}
      BY <1>1, <1>2, PassesAhead DEF RetireLabels
    <3> QED
      BY <1>6, <1>7, <2>1, <3>1, <3>2
  <2>2. CASE u # t
    BY <1>2, <1>7, <2>2, OthersSame
  <2> QED
    BY <2>1, <2>2
<1>8. ClaimInv'
  <2>1. \A v \in Threads : access'[v] \in Nat /\ access[v] <= access'[v]
    BY <1>2, OwedSeqs
  <2>2. /\ status' = status /\ birth' = birth
        /\ \A v \in Threads : \A c : InSeq(c, held[v]) => InSeq(c, held'[v])
    BY <1>2, <1>6
  <2> QED
    BY <1>5, <1>7, <2>1, <2>2, ClaimFrame
<1> QED
  BY <1>3, <1>4, <1>8

\* Retire: nobody owes the batch a decrement, and every slot lies ahead.
LEMMA RetireCounts ==
    ASSUME TypeOK, ThreadInv, ObjectInv, RetireInv, RefsInv, NEW t \in Threads, Retires(t),
           NEW b \in Batches, b = root
    PROVE  /\ RetireInv' /\ RefsInv' /\ ObjectInv'
           /\ Retiring(t, b)' /\ Ahead(t)' = Threads
           /\ \A c \in Batches : ~Retiring(t, c)
<1>1. PICK e \in 0 .. global : RetireBegin(t, e)
  BY DEF Retires
<1>2. /\ loc' \in [Threads -> Local] /\ Others(t) /\ b \in Batches
      /\ loc[t].pc = "idle" /\ loc'[t].pc = "retireAccess" /\ loc'[t].batch = b
      /\ loc'[t].slot = loc[t].slot /\ loc'[t].adjs = loc[t].adjs
      /\ loc'[t].list = loc[t].list /\ loc'[t].min <= birth[b]
  BY <1>1, RetireDoes DEF RetireBegin
<1>3. /\ root' = NULL /\ status' = [status EXCEPT ![b] = "retired"]
      /\ refs' = [refs EXCEPT ![b] = 0] /\ UNCHANGED <<epochs, birth>>
  BY <1>1 DEF RetireBegin, Retire
<1>4. loc'[t].slot = 0 /\ loc'[t].adjs = 0
  BY <1>2 DEF ThreadInv, ThreadOK, ControlOK
<1>5. SameOwers
  <2>1. Moves(t) /\ ~Inserts(t) /\ ~Decrements(t)
    BY <1>2 DEF Moves, Inserts, RetireCas, Decrements, TravDrop, At
  <2> QED
    BY <2>1, QuietSettles, OwersStay
<1>6. status[b] = "linked"
  BY <1>2, Constants DEF ObjectInv
<1>7. Owers(b) = {} /\ ~Listed(b) /\ \A u \in Threads : ~Retiring(u, b)
  BY <1>2, <1>6 DEF RefsInv, RetireInv
<1>8. /\ \A c \in Batches : Listed(c)' <=> Listed(c)
      /\ \A u \in Threads : loc'[u].list = loc[u].list
  BY <1>2 DEF Listed, Others
<1>9. /\ \A c \in Batches : ~Retiring(t, c) /\ (Retiring(t, c)' <=> c = b)
      /\ Ahead(t)' = Threads
  <2>1. Ahead(t)' = 0 .. NumSlots - 1
    BY <1>2, <1>4 DEF Ahead, At
  <2> QED
    BY <1>2, <2>1, Constants DEF Retiring, RetireLabels
<1>10. /\ status'[b] = "retired" /\ refs'[b] = 0
       /\ \A c \in Batches : c # b => status'[c] = status[c] /\ refs'[c] = refs[c]
  BY <1>2, <1>3 DEF TypeOK
<1>11. RetireInv'
  <2>1. SUFFICES ASSUME NEW u \in Threads, NEW c \in Batches, Retiring(u, c)'
                 PROVE  /\ status'[c] = "retired" /\ ~Listed(c)
                        /\ \A v \in Threads : Retiring(v, c)' => v = u
                        /\ loc'[u].min <= birth[c]
                        /\ loc'[u].adjs <= NumSlots
                        /\ loc'[u].pc # "retireFinish" => loc'[u].adjs <= loc'[u].slot
                        /\ Owers(c) \cap Ahead(u)' = {}
    BY <1>3, <1>5, <1>8 DEF RetireInv, At, SameOwers
  <2>2. CASE u = t
    <3>1. c = b
      BY <1>9, <2>1, <2>2
    <3>2. \A v \in Threads : Retiring(v, b)' => v = t
      BY <1>2, <1>7, OthersSame
    <3>3. 0 <= NumSlots /\ 0 <= 0
      BY Constants
    <3> QED
      BY <1>2, <1>4, <1>7, <1>10, <2>2, <3>1, <3>2, <3>3
  <2>3. CASE u # t
    <3>1. /\ Retiring(u, c) /\ c # b /\ loc'[u] = loc[u] /\ Ahead(u)' = Ahead(u)
      BY <1>2, <1>7, <2>1, <2>3, OthersSame
    <3>2. \A v \in Threads : Retiring(v, c)' => Retiring(v, c)
      BY <1>2, <1>9, <3>1, OthersSame
    <3> QED
      BY <1>10, <2>3, <3>1, <3>2 DEF RetireInv, At
  <2> QED
    BY <2>2, <2>3
<1>12. RefsInv'
  <2>1. SUFFICES ASSUME NEW c \in Batches
        PROVE  /\ status'[c] # "retired" \/ Listed(c) => Owers(c) = {}
               /\ Listed(c) => status'[c] = "retired"
               /\ \A u \in Threads : Retiring(u, c)' =>
                    /\ Cardinality(Owers(c)) <= loc'[u].adjs
                    /\ refs'[c] = NegW(loc'[u].adjs - Cardinality(Owers(c)))
               /\ (status'[c] = "retired" /\ ~Listed(c)
                      /\ \A u \in Threads : ~Retiring(u, c)') =>
                     Owers(c) # {} /\ refs'[c] = Cardinality(Owers(c))
    BY <1>5, <1>8 DEF RefsInv, SameOwers
  <2>2. CASE c = b
    <3>1. \A u \in Threads : Retiring(u, b)' <=> u = t
      BY <1>2, <1>7, <1>9, OthersSame
    <3>2. Cardinality(Owers(b)) = 0
      BY <1>7, FS_EmptySet
    <3>3. NegW(0) = 0 /\ 0 <= 0 /\ 0 - 0 = 0
      BY DEF NegW
    <3> QED
      BY <1>4, <1>7, <1>10, <2>2, <3>1, <3>2, <3>3
  <2>3. CASE c # b
    <3>1. \A u \in Threads : /\ Retiring(u, c)' <=> Retiring(u, c)
                             /\ Retiring(u, c) => loc'[u] = loc[u]
      BY <1>2, <1>9, <2>3, OthersSame
    <3> QED
      BY <1>10, <2>3, <3>1 DEF RefsInv
  <2> QED
    BY <2>2, <2>3
<1>13. ObjectInv'
  BY <1>3, <1>6, <1>10 DEF ObjectInv, epochs
<1> QED
  BY <1>2, <1>9, <1>11, <1>12, <1>13

LEMMA RetireStep ==
    ASSUME TypeOK, ThreadInv, ObjectInv, RetireInv, RefsInv, ClaimInv,
           NEW t \in Threads, Retires(t)
    PROVE  ObjectInv' /\ RetireInv' /\ RefsInv' /\ ClaimInv'
<1>0. PICK x \in Batches : x = root
  BY RetireDoes DEF Retires, RetireBegin
<1>1. /\ RetireInv' /\ RefsInv' /\ ObjectInv'
      /\ Retiring(t, x)' /\ Ahead(t)' = Threads
      /\ \A c \in Batches : ~Retiring(t, c)
  BY <1>0, RetireCounts
<1>2. /\ Others(t) /\ loc'[t].holds = loc[t].holds /\ loc'[t].pc = "retireAccess"
      /\ status' = [status EXCEPT ![x] = "retired"]
      /\ UNCHANGED <<epochs, birth, held>>
  BY <1>0, RetireDoes DEF Retires, RetireBegin, Retire, SameClient, owed
<1>3. SUFFICES ASSUME NEW v \in Threads, NEW b \in Claims(v)'
               PROVE  /\ status'[b] \in {"linked", "retired"} /\ birth[b] <= access[v]
                      /\ status'[b] = "retired" =>
                           InSeq(b, held[v])
                           \/ \E u \in Threads : Retiring(u, b)' /\ v \in Ahead(u)'
  BY <1>1, <1>2 DEF ClaimInv, epochs
<1>4. b \in Claims(v) /\ b \in Batches
  <2>1. b \in Claims(v)
    BY <1>2, <1>3, ClaimsAre DEF Others, ClaimsOf, epochs
  <2> QED
    BY <2>1, ClaimsTyped
<1>5. /\ status[b] \in {"linked", "retired"} /\ birth[b] <= access[v]
      /\ status[b] = "retired" =>
           InSeq(b, held[v]) \/ \E u \in Threads : Retiring(u, b) /\ v \in Ahead(u)
  BY <1>4 DEF ClaimInv
<1>6. CASE b = x
  <2>1. status'[b] = "retired"
    BY <1>2, <1>6 DEF TypeOK
  <2>2. Retiring(t, b)' /\ v \in Ahead(t)'
    BY <1>1, <1>6
  <2> QED
    BY <1>5, <2>1, <2>2
<1>7. CASE b # x
  <2>1. status'[b] = status[b]
    BY <1>2, <1>4, <1>7 DEF TypeOK
  <2>2. \A u \in Threads :
          Retiring(u, b) => Retiring(u, b)' /\ Ahead(u)' = Ahead(u)
    BY <1>1, <1>2, <1>4, OthersSame
  <2> QED
    BY <1>5, <2>1, <2>2
<1> QED
  BY <1>6, <1>7

\* The references counted so far are added; what was given back in the
\* meantime is already subtracted.
LEMMA FinishCounts ==
    ASSUME TypeOK, ThreadInv, RetireInv, RefsInv, NEW t \in Threads, RetireFinish(t),
           NEW b \in Batches, b = loc[t].batch, NEW n, n = loc[t].adjs
    PROVE  RetireInv' /\ RefsInv'
<1>1. /\ loc' \in [Threads -> Local] /\ Others(t)
      /\ loc[t].pc = "retireFinish" /\ loc'[t].pc = "free"
      /\ loc'[t].list = Collected(loc[t].list, b, n)
  BY RetireFinishDoes
<1>2. refs' = [refs EXCEPT ![b] = AddW(refs[b], n)] /\ UNCHANGED <<birth, status>>
  BY DEF RetireFinish, Adjust, structure
<1>3. SameOwers
  <2>1. Moves(t) /\ ~Inserts(t) /\ ~Decrements(t)
    BY <1>1 DEF Moves, Inserts, RetireCas, Decrements, TravDrop, At
  <2> QED
    BY <2>1, QuietSettles, OwersStay
<1>4. \A c \in Batches : (Retiring(t, c) <=> c = b) /\ ~Retiring(t, c)'
  BY <1>1 DEF Retiring, RetireLabels
<1>5. /\ status[b] = "retired" /\ ~Listed(b)
      /\ \A u \in Threads : Retiring(u, b) => u = t
      /\ n \in Nat /\ n <= NumSlots
  <2>1. n \in Nat
    BY OwedSeqs, Fields DEF Word
  <2> QED
    BY <1>4, <2>1 DEF RetireInv
<1>6. /\ Cardinality(Owers(b)) <= n
      /\ refs[b] = NegW(n - Cardinality(Owers(b)))
  BY <1>4 DEF RefsInv
<1>7. /\ refs'[b] = Cardinality(Owers(b))
      /\ refs[b] = NegW(n) <=> Owers(b) = {}
  <2> DEFINE m == Cardinality(Owers(b))
  <2>1. m \in Nat /\ m <= n /\ n \in Nat /\ n < Mod /\ (m = 0 <=> Owers(b) = {})
    BY <1>5, <1>6, OwersCount, Constants
  <2>2. refs[b] = NegW(n - m) /\ refs'[b] = AddW(refs[b], n)
    BY <1>2, <1>6 DEF TypeOK
  <2> HIDE DEF m
  <2>3. AddW(NegW(n - m), n) = m /\ (NegW(n - m) = NegW(n) <=> m = 0)
    BY <2>1, Constants, AddAll
  <2>4. refs'[b] = m /\ (refs[b] = NegW(n) <=> Owers(b) = {})
    BY <2>1, <2>2, <2>3
  <2> QED
    BY <2>4 DEF m
<1>8. /\ \A u \in Threads, c \in Batches : c \in loc'[u].list <=>
             c \in loc[u].list \/ (u = t /\ c = b /\ Owers(b) = {})
      /\ \A c \in Batches : c # b => refs'[c] = refs[c]
  <2>1. \A c \in Batches : c \in loc'[t].list <=>
             c \in loc[t].list \/ (c = b /\ Owers(b) = {})
    BY <1>1, <1>7 DEF Collected
  <2> QED
    BY <1>1, <1>2, <2>1 DEF TypeOK, Others
<1>9. /\ Listed(b)' <=> Owers(b) = {}
      /\ \A c \in Batches : c # b => (Listed(c)' <=> Listed(c))
  BY <1>5, <1>8 DEF Listed
<1>10. RetireInv'
  <2>1. SUFFICES ASSUME NEW u \in Threads, NEW c \in Batches, Retiring(u, c)'
                 PROVE  /\ status[c] = "retired" /\ ~Listed(c)'
                        /\ \A v \in Threads : Retiring(v, c)' => v = u
                        /\ loc'[u].min <= birth[c]
                        /\ loc'[u].adjs <= NumSlots
                        /\ loc'[u].pc # "retireFinish" => loc'[u].adjs <= loc'[u].slot
                        /\ Owers(c) \cap Ahead(u)' = {}
    BY <1>2, <1>3 DEF RetireInv, At, SameOwers
  <2>2. u # t /\ Retiring(u, c) /\ c # b /\ loc'[u] = loc[u] /\ Ahead(u)' = Ahead(u)
    BY <1>1, <1>4, <1>5, <2>1, OthersSame
  <2>3. \A v \in Threads : Retiring(v, c)' => Retiring(v, c)
    BY <1>1, <1>4, OthersSame
  <2> QED
    BY <1>9, <2>2, <2>3 DEF RetireInv, At
<1>11. RefsInv'
  <2>1. SUFFICES ASSUME NEW c \in Batches
        PROVE  /\ status[c] # "retired" \/ Listed(c)' => Owers(c) = {}
               /\ Listed(c)' => status[c] = "retired"
               /\ \A u, v \in Threads : c \in loc'[u].list \cap loc'[v].list => u = v
               /\ \A u \in Threads : Retiring(u, c)' =>
                    /\ Cardinality(Owers(c)) <= loc'[u].adjs
                    /\ refs'[c] = NegW(loc'[u].adjs - Cardinality(Owers(c)))
               /\ (status[c] = "retired" /\ ~Listed(c)'
                      /\ \A u \in Threads : ~Retiring(u, c)') =>
                     Owers(c) # {} /\ refs'[c] = Cardinality(Owers(c))
    BY <1>2, <1>3 DEF RefsInv, SameOwers
  <2>2. CASE c = b
    <3>1. \A u \in Threads : ~Retiring(u, b)'
      BY <1>1, <1>4, <1>5, OthersSame
    <3>2. \A u, v \in Threads : b \in loc'[u].list \cap loc'[v].list => u = v
      BY <1>5, <1>8 DEF Listed
    <3> QED
      BY <1>5, <1>7, <1>9, <2>2, <3>1, <3>2
  <2>3. CASE c # b
    <3>1. \A u \in Threads : /\ Retiring(u, c)' <=> Retiring(u, c)
                             /\ Retiring(u, c) => loc'[u] = loc[u]
      BY <1>1, <1>4, <2>3, OthersSame
    <3> QED
      BY <1>8, <1>9, <2>3, <3>1 DEF RefsInv
  <2> QED
    BY <2>2, <2>3
<1> QED
  BY <1>10, <1>11

LEMMA FinishStep ==
    ASSUME TypeOK, ThreadInv, ObjectInv, RetireInv, RefsInv, ClaimInv,
           NEW t \in Threads, RetireFinish(t)
    PROVE  ObjectInv' /\ RetireInv' /\ RefsInv' /\ ClaimInv'
<1>1. loc[t].batch \in Batches /\ loc[t].pc = "retireFinish"
  BY Ready DEF ThreadInv, RetireFinish, At, RetireLabels
<1>2. /\ Others(t) /\ loc'[t].holds = loc[t].holds /\ loc'[t].pc = "free"
      /\ UNCHANGED <<global, access, birth, root, status, held>>
  BY <1>1, RetireFinishDoes DEF RetireFinish, SameClient, epochs, structure, history, owed
<1>3. RetireInv' /\ RefsInv' /\ ObjectInv'
  BY <1>1, <1>2, FinishCounts, ObjectFrame
<1>4. \A v \in Threads : Claims(v)' \subseteq Claims(v)
  BY <1>2, ClaimsAre DEF Others, ClaimsOf
<1>5. \A u \in Threads : \A c :
        Retiring(u, c) /\ Ahead(u) # {} => Retiring(u, c)' /\ Ahead(u)' = Ahead(u)
  BY <1>1, <1>2, OthersSame DEF Ahead, At
<1>6. \A v \in Threads : access'[v] \in Nat /\ access[v] <= access'[v]
  BY <1>2, OwedSeqs
<1> QED
  BY <1>2, <1>3, <1>4, <1>5, <1>6, ClaimFrame

\* One thread less owes a decrement, and the counter shows it.
LEMMA DropCounts ==
    ASSUME TypeOK, ThreadInv, RetireInv, RefsInv, NEW t \in Threads, Decrements(t),
           NEW b \in Batches, b = loc[t].walk.curr,
           loc' \in [Threads -> Local], Others(t), loc[t].pc = "travDrop",
           loc'[t].pc \notin RetireLabels, loc'[t].list = Collected(loc[t].list, b, MinusOne)
    PROVE  RetireInv' /\ RefsInv'
<1>1. refs' = [refs EXCEPT ![b] = AddW(refs[b], MinusOne)] /\ UNCHANGED <<birth, status>>
  BY DEF Decrements, TravDrop, Adjust, structure
<1>2. \A u \in Threads, c \in Batches :
        /\ Retiring(u, c)' <=> Retiring(u, c)
        /\ Retiring(u, c) => loc'[u] = loc[u] /\ Ahead(u)' = Ahead(u)
  <2>1. \A c \in Batches : ~Retiring(t, c) /\ ~Retiring(t, c)'
    BY DEF Retiring, RetireLabels
  <2> QED
    BY <2>1, OthersSame
<1>3. /\ t \in Owers(b) /\ Owers(b)' = Owers(b) \ {t}
      /\ \A c \in Batches : c # b => Owers(c)' = Owers(c)
  BY DropSettles DEF Owers
<1>4. /\ Cardinality(Owers(b)) \in Nat /\ Cardinality(Owers(b)) > 0
      /\ Cardinality(Owers(b)) <= NumSlots
      /\ Cardinality(Owers(b)') = Cardinality(Owers(b)) - 1
      /\ Owers(b)' = {} <=> Cardinality(Owers(b)) = 1
  <2>1. /\ IsFiniteSet(Owers(b)) /\ Cardinality(Owers(b)) \in Nat
        /\ Cardinality(Owers(b)) # 0 /\ Cardinality(Owers(b)) <= NumSlots
    BY <1>3, OwersCount
  <2>2. /\ Cardinality(Owers(b) \ {t}) = Cardinality(Owers(b)) - 1
        /\ IsFiniteSet(Owers(b) \ {t})
    BY <1>3, <2>1, FS_RemoveElement
  <2>3. Owers(b) \ {t} = {} <=> Cardinality(Owers(b) \ {t}) = 0
    BY <2>2, FS_EmptySet
  <2> QED
    BY <1>3, <2>1, <2>2, <2>3
<1>5. status[b] = "retired" /\ ~Listed(b)
  BY <1>3 DEF RefsInv
<1>6. refs'[b] = AddW(refs[b], MinusOne) /\ \A c \in Batches : c # b => refs'[c] = refs[c]
  BY <1>1 DEF TypeOK
<1>7. ASSUME NEW u \in Threads, Retiring(u, b)
      PROVE  /\ Cardinality(Owers(b)') <= loc[u].adjs
             /\ refs'[b] = NegW(loc[u].adjs - Cardinality(Owers(b)'))
             /\ refs[b] # NegW(MinusOne)
  <2> DEFINE m == Cardinality(Owers(b))
             n == loc[u].adjs
  <2>1. /\ m \in Nat /\ 0 < m /\ m < Mod /\ n \in Nat /\ n < Mod /\ m <= n
        /\ refs[b] = NegW(n - m)
    <3>1. n \in Nat
      BY OwedSeqs, Fields DEF Word
    <3>2. n <= NumSlots
      BY <1>7 DEF RetireInv
    <3>3. m <= n /\ refs[b] = NegW(n - m)
      BY <1>7 DEF RefsInv
    <3> QED
      BY <1>4, <3>1, <3>2, <3>3, Constants
  <2>2. Cardinality(Owers(b)') = m - 1 /\ refs'[b] = AddW(refs[b], MinusOne)
    BY <1>4, <1>6
  <2> HIDE DEF m, n
  <2>3. /\ AddW(NegW(n - m), MinusOne) = NegW(n - (m - 1))
        /\ NegW(n - m) # NegW(MinusOne)
    BY <2>1, Constants, DropOne
  <2>4. /\ Cardinality(Owers(b)') <= n
        /\ refs'[b] = NegW(n - Cardinality(Owers(b)'))
        /\ refs[b] # NegW(MinusOne)
    BY <2>1, <2>2, <2>3
  <2> QED
    BY <2>4 DEF n
<1>8. ASSUME \A u \in Threads : ~Retiring(u, b)
      PROVE  /\ refs'[b] = Cardinality(Owers(b)')
             /\ refs[b] = NegW(MinusOne) <=> Owers(b)' = {}
  <2> DEFINE m == Cardinality(Owers(b))
  <2>1. m \in Nat /\ 0 < m /\ m < Mod /\ refs[b] = m
    BY <1>4, <1>5, <1>8, Constants DEF RefsInv
  <2>2. /\ Cardinality(Owers(b)') = m - 1 /\ (Owers(b)' = {} <=> m = 1)
        /\ refs'[b] = AddW(refs[b], MinusOne)
    BY <1>4, <1>6
  <2> HIDE DEF m
  <2>3. AddW(m, MinusOne) = m - 1 /\ (m = NegW(MinusOne) <=> m = 1)
    <3>1. 0 \in Nat /\ 0 < Mod
      BY Constants
    <3> QED
      BY <2>1, <3>1, Constants, DropOne
  <2> QED
    BY <2>1, <2>2, <2>3
<1>9. \A u \in Threads, c \in Batches : c \in loc'[u].list <=>
          c \in loc[u].list \/ (u = t /\ c = b /\ refs[b] = NegW(MinusOne))
  BY DEF Collected, Others
<1>10. /\ Listed(b)' <=> refs[b] = NegW(MinusOne)
       /\ \A c \in Batches : c # b => (Listed(c)' <=> Listed(c))
  BY <1>5, <1>9 DEF Listed
<1>11. RetireInv'
  <2>1. SUFFICES ASSUME NEW u \in Threads, NEW c \in Batches, Retiring(u, c)
                 PROVE  /\ status[c] = "retired" /\ ~Listed(c)'
                        /\ \A v \in Threads : Retiring(v, c) => v = u
                        /\ loc[u].min <= birth[c]
                        /\ loc[u].adjs <= NumSlots
                        /\ loc[u].pc # "retireFinish" => loc[u].adjs <= loc[u].slot
                        /\ Owers(c)' \cap Ahead(u) = {}
    BY <1>1, <1>2 DEF RetireInv, At
  <2>2. Owers(c)' \subseteq Owers(c)
    BY <1>3
  <2>3. ~Listed(c)'
    BY <1>7, <1>10, <2>1 DEF RetireInv
  <2> QED
    BY <2>1, <2>2, <2>3 DEF RetireInv, At
<1>12. RefsInv'
  <2>1. SUFFICES ASSUME NEW c \in Batches
        PROVE  /\ status[c] # "retired" \/ Listed(c)' => Owers(c)' = {}
               /\ Listed(c)' => status[c] = "retired"
               /\ \A u, v \in Threads : c \in loc'[u].list \cap loc'[v].list => u = v
               /\ \A u \in Threads : Retiring(u, c) =>
                    /\ Cardinality(Owers(c)') <= loc[u].adjs
                    /\ refs'[c] = NegW(loc[u].adjs - Cardinality(Owers(c)'))
               /\ (status[c] = "retired" /\ ~Listed(c)'
                      /\ \A u \in Threads : ~Retiring(u, c)) =>
                     Owers(c)' # {} /\ refs'[c] = Cardinality(Owers(c)')
    BY <1>1, <1>2 DEF RefsInv
  <2>2. CASE c = b
    <3>1. \A u, v \in Threads : b \in loc'[u].list \cap loc'[v].list => u = v
      BY <1>5, <1>9 DEF Listed
    <3> QED
      BY <1>5, <1>7, <1>8, <1>10, <2>2, <3>1
  <2>3. CASE c # b
    BY <1>3, <1>6, <1>9, <1>10, <2>3 DEF RefsInv
  <2> QED
    BY <2>2, <2>3
<1> QED
  BY <1>11, <1>12

LEMMA DropStep ==
    ASSUME TypeOK, ThreadInv, ObjectInv, RetireInv, RefsInv, ClaimInv,
           NEW t \in Threads, Decrements(t)
    PROVE  ObjectInv' /\ RetireInv' /\ RefsInv' /\ ClaimInv'
<1>1. PICK b \in Batches : b = loc[t].walk.curr
  <2>1. ThreadOK(t)
    BY DEF ThreadInv
  <2>2. loc[t].pc = "travDrop"
    BY DEF Decrements, TravDrop, At
  <2> QED
    BY <2>1, <2>2, Ready
<1>2. /\ loc' \in [Threads -> Local] /\ Others(t) /\ loc[t].pc = "travDrop"
      /\ loc'[t].pc \notin RetireLabels /\ loc'[t].pc # "derefEpoch"
      /\ loc'[t].list = Collected(loc[t].list, b, MinusOne)
      /\ loc'[t].holds = loc[t].holds
      /\ UNCHANGED <<global, access, birth, root, status, held>>
  BY <1>1, TravDropDoes
     DEF Decrements, TravDrop, Drops, RetireLabels, SameClient, epochs, structure
<1>3. RetireInv' /\ RefsInv' /\ ObjectInv'
  BY <1>1, <1>2, DropCounts, ObjectFrame
<1>4. \A v \in Threads : Claims(v)' \subseteq Claims(v)
  BY <1>2, ClaimsAre DEF Others, ClaimsOf
<1>5. \A u \in Threads : \A c :
        Retiring(u, c) => Retiring(u, c)' /\ Ahead(u)' = Ahead(u)
  BY <1>2, OthersSame DEF Retiring, RetireLabels
<1>6. \A v \in Threads : access'[v] \in Nat /\ access[v] <= access'[v]
  BY <1>2, OwedSeqs
<1> QED
  BY <1>2, <1>3, <1>4, <1>5, <1>6, ClaimFrame

\* The end of a batch: nobody claims what is on a free list.
LEMMA Unclaimed ==
    ASSUME TypeOK, RetireInv, RefsInv, ClaimInv, NEW b \in Batches,
           Listed(b) \/ status[b] \in {"freed", "new"}, NEW v \in Threads
    PROVE  /\ b \notin Claims(v) /\ Owers(b) = {}
           /\ \A u \in Threads : ~Retiring(u, b)
<1>1. Owers(b) = {} /\ \A u \in Threads : ~Retiring(u, b)
  BY DEF RefsInv, RetireInv
<1>2. Listed(b) => status[b] = "retired"
  BY DEF RefsInv
<1>3. ~InSeq(b, held[v])
  BY <1>1 DEF Owers, Owes
<1> QED
  BY <1>1, <1>2, <1>3 DEF ClaimInv

LEMMA FreeStep ==
    ASSUME TypeOK, ThreadInv, ObjectInv, RetireInv, RefsInv, ClaimInv,
           NEW t \in Threads, Frees(t)
    PROVE  ObjectInv' /\ RetireInv' /\ RefsInv' /\ ClaimInv'
<1>1. PICK b \in Batches : Free(t, b)
  BY DEF Frees
<1>2. /\ loc' \in [Threads -> Local] /\ Others(t)
      /\ loc[t].pc = "free" /\ loc'[t].pc = "free" /\ b \in loc[t].list
      /\ loc'[t].holds = loc[t].holds /\ loc'[t].list = loc[t].list \ {b}
  BY <1>1, FreeDoes DEF SameClient
<1>3. /\ status' = [status EXCEPT ![b] = "freed"] /\ birth' = [birth EXCEPT ![b] = 0]
      /\ UNCHANGED <<global, access, refs, root, held>>
  BY <1>1 DEF Free, Frees, Plain, epochs
<1>4. SameOwers
  <2>1. Moves(t) /\ ~Inserts(t) /\ ~Decrements(t)
    BY <1>2 DEF Moves, Inserts, RetireCas, Decrements, TravDrop, At
  <2> QED
    BY <2>1, QuietSettles, OwersStay
<1>5. /\ Listed(b) /\ status[b] = "retired" /\ \A u \in Threads : b \in loc[u].list => u = t
  BY <1>2 DEF Listed, RefsInv
<1>6. \A v \in Threads : b \notin Claims(v) /\ Owers(b) = {} /\ ~Retiring(v, b)
  BY <1>5, Unclaimed
<1>7. /\ status'[b] = "freed"
      /\ \A c \in Batches : c # b => status'[c] = status[c] /\ birth'[c] = birth[c]
  BY <1>3 DEF TypeOK
<1>8. \A u \in Threads, c \in Batches :
        /\ Retiring(u, c)' <=> Retiring(u, c)
        /\ Retiring(u, c) => loc'[u] = loc[u] /\ Ahead(u)' = Ahead(u)
  <2>1. \A c \in Batches : ~Retiring(t, c) /\ ~Retiring(t, c)'
    BY <1>2 DEF Retiring, RetireLabels
  <2> QED
    BY <1>2, <2>1, OthersSame
<1>9. \A u \in Threads, c \in Batches : c \in loc'[u].list <=>
          c \in loc[u].list /\ (u # t \/ c # b)
  BY <1>2 DEF Others
<1>10. ~Listed(b)' /\ \A c \in Batches : c # b => (Listed(c)' <=> Listed(c))
  BY <1>5, <1>9 DEF Listed
<1>11. ObjectInv'
  <2>1. root # b
    BY <1>5, Constants DEF ObjectInv
  <2> QED
    BY <1>3, <1>7, <2>1 DEF ObjectInv, TypeOK, Ptr
<1>12. RetireInv'
  <2>1. SUFFICES ASSUME NEW u \in Threads, NEW c \in Batches, Retiring(u, c)
                 PROVE  /\ status'[c] = "retired" /\ ~Listed(c)'
                        /\ \A v \in Threads : Retiring(v, c) => v = u
                        /\ loc[u].min <= birth'[c]
                        /\ loc[u].adjs <= NumSlots
                        /\ loc[u].pc # "retireFinish" => loc[u].adjs <= loc[u].slot
                        /\ Owers(c) \cap Ahead(u) = {}
    BY <1>4, <1>8 DEF RetireInv, At, SameOwers
  <2>2. c # b
    BY <1>6, <2>1
  <2> QED
    BY <1>7, <1>10, <2>1, <2>2 DEF RetireInv, At
<1>13. RefsInv'
  <2>1. SUFFICES ASSUME NEW c \in Batches
        PROVE  /\ status'[c] # "retired" \/ Listed(c)' => Owers(c) = {}
               /\ Listed(c)' => status'[c] = "retired"
               /\ \A u, v \in Threads : c \in loc'[u].list \cap loc'[v].list => u = v
               /\ \A u \in Threads : Retiring(u, c) =>
                    /\ Cardinality(Owers(c)) <= loc[u].adjs
                    /\ refs[c] = NegW(loc[u].adjs - Cardinality(Owers(c)))
               /\ (status'[c] = "retired" /\ ~Listed(c)'
                      /\ \A u \in Threads : ~Retiring(u, c)) =>
                     Owers(c) # {} /\ refs[c] = Cardinality(Owers(c))
    BY <1>3, <1>4, <1>8 DEF RefsInv, SameOwers
  <2>2. CASE c = b
    BY <1>5, <1>6, <1>7, <1>9, <1>10, <2>2
  <2>3. CASE c # b
    BY <1>7, <1>9, <1>10, <2>3 DEF RefsInv
  <2> QED
    BY <2>2, <2>3
<1>14. \A v \in Threads : Claims(v)' \subseteq Claims(v)
  BY <1>2, <1>3, ClaimsAre DEF Others, ClaimsOf
<1>15. ClaimInv'
  <2>1. \A v \in Threads : \A c \in Claims(v) :
               status'[c] = status[c] /\ birth'[c] = birth[c]
    BY <1>6, <1>7, ClaimsTyped
  <2>2. \A u, v \in Threads : \A c \in Claims(v)' :
               Retiring(u, c) /\ v \in Ahead(u) => Retiring(u, c)' /\ v \in Ahead(u)'
    BY <1>8, <1>14, ClaimsTyped
  <2>3. \A v \in Threads : access'[v] \in Nat /\ access[v] <= access'[v]
    BY <1>3, OwedSeqs
  <2> QED
    BY <1>3, <1>14, <2>1, <2>2, <2>3, ClaimFrame
<1> QED
  BY <1>11, <1>12, <1>13, <1>15

\* A new life of a batch.  An epoch that was not the global one does not
\* become it again.
LEMMA AllocStep ==
    ASSUME TypeOK, ThreadInv, ObjectInv, RetireInv, RefsInv, ClaimInv, Allocates
    PROVE  ObjectInv' /\ RetireInv' /\ RefsInv' /\ ClaimInv'
<1>1. PICK b \in Batches : Alloc(b)
  BY DEF Allocates
<1>2. /\ status[b] = "freed" /\ status' = [status EXCEPT ![b] = "new"]
      /\ birth' = [birth EXCEPT ![b] = global']
      /\ UNCHANGED <<access, refs, root, loc, held, todo, later>>
  BY <1>1 DEF Alloc, Allocates, history, owed
<1>3. global' \in Nat /\ global \in Nat /\ global <= global'
  BY <1>1, Constants DEF Alloc, TypeOK, Epoch
<1>4. SameOwers
  BY <1>2 DEF SameOwers, Owers, Owes
<1>5. \A v \in Threads : b \notin Claims(v) /\ Owers(b) = {} /\ ~Retiring(v, b)
  BY <1>2, Unclaimed
<1>6. ~Listed(b)
  BY <1>2 DEF RefsInv
<1>7. /\ status'[b] = "new" /\ birth'[b] = global'
      /\ \A c \in Batches : c # b => status'[c] = status[c] /\ birth'[c] = birth[c]
  BY <1>2 DEF TypeOK
<1>8. /\ \A u \in Threads, c \in Batches :
           (Retiring(u, c)' <=> Retiring(u, c)) /\ Ahead(u)' = Ahead(u)
      /\ \A c \in Batches : Listed(c)' <=> Listed(c)
  BY <1>2 DEF Retiring, Ahead, Listed, At
<1>9. ObjectInv'
  <2>1. root # NULL => root \in Batches /\ root # b /\ status[root] = "linked"
    BY <1>2 DEF ObjectInv, TypeOK, Ptr
  <2>2. ASSUME NEW c \in Batches, status'[c] # "freed" PROVE birth'[c] <= global'
    <3>1. CASE c = b
      BY <1>3, <1>7, <3>1
    <3>2. CASE c # b
      <4>1. birth[c] <= global /\ birth[c] \in Nat
        BY <1>7, <2>2, <3>2, Constants DEF ObjectInv, TypeOK, Epoch
      <4> QED
        BY <1>3, <1>7, <3>2, <4>1
    <3> QED
      BY <3>1, <3>2
  <2> QED
    BY <1>2, <1>7, <2>1, <2>2 DEF ObjectInv
<1>10. RetireInv'
  BY <1>2, <1>4, <1>5, <1>7, <1>8 DEF RetireInv, SameOwers, At
<1>11. RefsInv'
  <2>1. SUFFICES ASSUME NEW c \in Batches
        PROVE  /\ status'[c] # "retired" \/ Listed(c) => Owers(c) = {}
               /\ Listed(c) => status'[c] = "retired"
               /\ \A u, v \in Threads : c \in loc[u].list \cap loc[v].list => u = v
               /\ \A u \in Threads : Retiring(u, c) =>
                    /\ Cardinality(Owers(c)) <= loc[u].adjs
                    /\ refs[c] = NegW(loc[u].adjs - Cardinality(Owers(c)))
               /\ (status'[c] = "retired" /\ ~Listed(c)
                      /\ \A u \in Threads : ~Retiring(u, c)) =>
                     Owers(c) # {} /\ refs[c] = Cardinality(Owers(c))
    BY <1>2, <1>4, <1>8 DEF RefsInv, SameOwers
  <2>2. CASE c = b
    BY Constants, <1>5, <1>6, <1>7, <2>2 DEF Listed
  <2>3. CASE c # b
    BY <1>7, <2>3 DEF RefsInv
  <2> QED
    BY <2>2, <2>3
<1>12. \A v \in Threads : Claims(v)' \subseteq Claims(v)
  <2>1. ASSUME NEW v \in Threads, loc[v].pc = "derefEpoch", loc[v].acc = global'
        PROVE  loc[v].acc = global
    <3>1. loc[v].acc \in Nat /\ loc[v].acc <= global
      BY <2>1, ClaimsTyped DEF ThreadInv, ThreadOK, EpochOK, DerefLabels
    <3> QED
      BY <1>3, <2>1, <3>1
  <2> QED
    BY <1>2, <2>1, ClaimsAre DEF ClaimsOf
<1>13. ClaimInv'
  <2>1. \A v \in Threads : \A c \in Claims(v) :
               status'[c] = status[c] /\ birth'[c] = birth[c]
    BY <1>5, <1>7, ClaimsTyped
  <2>2. \A u, v \in Threads : \A c \in Claims(v)' :
               Retiring(u, c) /\ v \in Ahead(u) => Retiring(u, c)' /\ v \in Ahead(u)'
    BY <1>8, <1>12, ClaimsTyped
  <2>3. \A v \in Threads : access'[v] \in Nat /\ access[v] <= access'[v]
    BY <1>2, OwedSeqs
  <2> QED
    BY <1>2, <1>12, <2>1, <2>2, <2>3, ClaimFrame
<1> QED
  BY <1>9, <1>10, <1>11, <1>13

LEMMA LinkStep ==
    ASSUME TypeOK, ThreadInv, ObjectInv, RetireInv, RefsInv, ClaimInv, Links
    PROVE  ObjectInv' /\ RetireInv' /\ RefsInv' /\ ClaimInv'
<1>1. PICK b \in Batches : Link(b)
  BY DEF Links
<1>2. /\ status[b] = "new" /\ status' = [status EXCEPT ![b] = "linked"] /\ root' = b
      /\ UNCHANGED <<global, access, birth, refs, loc, held, todo, later>>
  BY <1>1 DEF Link, Links, history, owed, epochs, memory
<1>3. SameOwers
  BY <1>2 DEF SameOwers, Owers, Owes
<1>4. \A v \in Threads : b \notin Claims(v) /\ Owers(b) = {} /\ ~Retiring(v, b)
  BY <1>2, Unclaimed
<1>5. ~Listed(b)
  BY <1>2 DEF RefsInv
<1>6. /\ status'[b] = "linked"
      /\ \A c \in Batches : c # b => status'[c] = status[c]
  BY <1>2 DEF TypeOK
<1>7. /\ \A u \in Threads, c \in Batches :
           (Retiring(u, c)' <=> Retiring(u, c)) /\ Ahead(u)' = Ahead(u)
      /\ \A c \in Batches : Listed(c)' <=> Listed(c)
  BY <1>2 DEF Retiring, Ahead, Listed, At
<1>8. ObjectInv'
  BY <1>2, <1>6 DEF ObjectInv
<1>9. RetireInv'
  BY <1>2, <1>3, <1>4, <1>6, <1>7 DEF RetireInv, SameOwers, At
<1>10. RefsInv'
  <2>1. SUFFICES ASSUME NEW c \in Batches
        PROVE  /\ status'[c] # "retired" \/ Listed(c) => Owers(c) = {}
               /\ Listed(c) => status'[c] = "retired"
               /\ \A u, v \in Threads : c \in loc[u].list \cap loc[v].list => u = v
               /\ \A u \in Threads : Retiring(u, c) =>
                    /\ Cardinality(Owers(c)) <= loc[u].adjs
                    /\ refs[c] = NegW(loc[u].adjs - Cardinality(Owers(c)))
               /\ (status'[c] = "retired" /\ ~Listed(c)
                      /\ \A u \in Threads : ~Retiring(u, c)) =>
                     Owers(c) # {} /\ refs[c] = Cardinality(Owers(c))
    BY <1>2, <1>3, <1>7 DEF RefsInv, SameOwers
  <2>2. CASE c = b
    BY Constants, <1>4, <1>5, <1>6, <2>2 DEF Listed
  <2>3. CASE c # b
    BY <1>6, <2>3 DEF RefsInv
  <2> QED
    BY <2>2, <2>3
<1>11. \A v \in Threads : Claims(v)' \subseteq Claims(v)
  BY <1>2, ClaimsAre DEF ClaimsOf
<1>12. ClaimInv'
  <2>1. \A v \in Threads : \A c \in Claims(v) :
               status'[c] = status[c] /\ birth'[c] = birth[c]
    BY <1>2, <1>4, <1>6, ClaimsTyped
  <2>2. \A u, v \in Threads : \A c \in Claims(v)' :
               Retiring(u, c) /\ v \in Ahead(u) => Retiring(u, c)' /\ v \in Ahead(u)'
    BY <1>7, <1>11, ClaimsTyped
  <2>3. \A v \in Threads : access'[v] \in Nat /\ access[v] <= access'[v]
    BY <1>2, OwedSeqs
  <2> QED
    BY <1>2, <1>11, <2>1, <2>2, <2>3, ClaimFrame
<1> QED
  BY <1>8, <1>9, <1>10, <1>12

-----------------------------------------------------------------------------
(* The inductive invariant.                                                *)

LEMMA InvInit == Init => IInv
<1> SUFFICES ASSUME Init PROVE IInv
  OBVIOUS
<1>1. TypeOK
  BY InitType
<1>2. ASSUME NEW t \in Threads
      PROVE  /\ loc[t].vec = t /\ loc[t].pc = "idle" /\ loc[t].op = "none"
             /\ loc[t].inside = FALSE /\ loc[t].holds = {} /\ loc[t].list = {}
             /\ loc[t].batch = NULL /\ loc[t].slot = 0 /\ loc[t].adjs = 0
             /\ head[t] = Off /\ access[t] = 0 /\ global = 0
             /\ held[t] = <<>> /\ todo[t] = <<>> /\ later[t] = <<>>
  BY Constants DEF Init, Between
<1>3. ThreadInv
  <2>1. ASSUME NEW t \in Threads PROVE ThreadOK(t)
    <3>1. SlotOK(t) /\ ControlOK(t)
      BY <1>2, Constants DEF SlotOK, ControlOK, DerefLabels, RetireLabels
    <3>2. ChainOK(t) /\ OnceOK(t)
      BY <1>2, InEmpty, Zenon DEF ChainOK, OnceOK
    <3>3. EpochOK(t)
      <4>1. access[t] = 0 /\ global = 0 /\ loc[t].pc \notin DerefLabels
        BY <1>2 DEF DerefLabels
      <4>2. access[t] <= global
        BY <4>1
      <4> QED
        BY <4>1, <4>2 DEF EpochOK, DerefLabels
    <3> QED
      BY <3>1, <3>2, <3>3 DEF ThreadOK
  <2> QED
    BY <2>1 DEF ThreadInv
<1>4. \A t \in Threads : Claims(t) = {} /\ \A b : ~Retiring(t, b) /\ ~Owes(t, b)
  <2>1. \A t \in Threads : Claims(t) = {} /\ \A b : ~Retiring(t, b)
    BY <1>2 DEF Claims, At, Retiring, RetireLabels
  <2>2. \A t \in Threads : \A b : ~Owes(t, b)
    BY <1>2, InEmpty, Zenon DEF Owes
  <2> QED
    BY <2>1, <2>2
<1>5. ObjectInv
  BY DEF Init, ObjectInv
<1>6. RetireInv /\ ClaimInv
  BY <1>4 DEF RetireInv, ClaimInv
<1>7. RefsInv
  BY <1>2, <1>4 DEF RefsInv, Listed, Owers, Init
<1> QED
  BY <1>1, <1>3, <1>5, <1>6, <1>7 DEF IInv

LEMMA MovesStep ==
    ASSUME TypeOK, ThreadInv, ObjectInv, RetireInv, RefsInv, ClaimInv,
           NEW t \in Threads, Moves(t)
    PROVE  ThreadInv' /\ ObjectInv' /\ RetireInv' /\ RefsInv' /\ ClaimInv'
<1>1. ThreadInv'
  <2>1. CASE Inserts(t)
    <3>1. PICK s \in Threads, b \in Batches : s = loc[t].slot /\ b = loc[t].batch
      <4>1. loc[t].pc \in RetireLabels
        BY <2>1 DEF Inserts, RetireCas, At, RetireLabels
      <4> QED
        BY <4>1, Ready, OwedSeqs, Fields, Constants DEF ThreadInv
    <3> QED
      BY <2>1, <3>1, InsertSettles
  <2> QED
    BY <2>1, DropSettles, QuietSettles
<1>2. CASE Still(t)
  BY <1>1, <1>2, StillStep
<1>3. CASE DerefLoad(t) /\ Plain
  BY <1>1, <1>3, DerefLoadStep
<1>4. CASE RetireAccess(t) \/ RetireLoad(t) \/ RetireCas(t)
  BY <1>1, <1>4, LookStep, InsertStep
<1>5. CASE Retires(t) \/ RetireFinish(t) \/ Decrements(t) \/ Frees(t)
  BY <1>1, <1>5, RetireStep, FinishStep, DropStep, FreeStep
<1> QED
  BY <1>1, <1>2, <1>3, <1>4, <1>5 DEF Moves, Still

LEMMA StutterStep ==
    ASSUME TypeOK, ThreadInv, ObjectInv, RetireInv, RefsInv, ClaimInv, UNCHANGED vars
    PROVE  ThreadInv' /\ ObjectInv' /\ RetireInv' /\ RefsInv' /\ ClaimInv'
<1>1. /\ UNCHANGED <<global, access, head, next, refs, birth, root, status, loc>>
      /\ UNCHANGED <<held, todo, later>>
  BY DEF vars
<1>2. ASSUME NEW u \in Threads
      PROVE  Settled(u) /\ Onward(u) /\ Ahead(u)' = Ahead(u) /\ Claims(u)' = Claims(u)
  BY <1>1, OwedSeqs, OtherRests, SameOnward, ClaimsAre DEF ThreadInv
<1>3. ThreadInv' /\ SameOwers
  BY <1>2, OwersStay DEF ThreadInv, Settled
<1>4. ObjectInv' /\ RetireInv' /\ RefsInv'
  <2>1. SameLists /\ loc' \in [Threads -> Local]
    BY <1>1 DEF SameLists, TypeOK, Local
  <2> QED
    BY <1>1, <1>2, <1>3, <2>1, CountsFrame, ObjectFrame
<1>5. ClaimInv'
  <2>1. \A u, v \in Threads : \A c \in Claims(v)' :
               Retiring(u, c) /\ v \in Ahead(u) => Retiring(u, c)' /\ v \in Ahead(u)'
    BY <1>1, <1>2 DEF Retiring
  <2>2. \A v \in Threads : access'[v] \in Nat /\ access[v] <= access'[v]
    BY <1>1, OwedSeqs
  <2> QED
    BY <1>1, <1>2, <2>1, <2>2, ClaimFrame
<1> QED
  BY <1>3, <1>4, <1>5

LEMMA InvStep == IInv /\ [Next]_vars => IInv'
<1> SUFFICES ASSUME IInv, [Next]_vars PROVE IInv'
  OBVIOUS
<1>1. TypeOK /\ ThreadInv /\ ObjectInv /\ RetireInv /\ RefsInv /\ ClaimInv
  BY DEF IInv
<1>2. TypeOK'
  BY <1>1, TypeStep
<1>3. ThreadInv' /\ ObjectInv' /\ RetireInv' /\ RefsInv' /\ ClaimInv'
  <2>1. CASE UNCHANGED vars
    BY <1>1, <2>1, StutterStep
  <2>2. CASE Allocates \/ Links
    BY <1>1, <2>2, AllocStep, LinkStep, StructureSettles
  <2>3. ASSUME NEW t \in Threads, Moves(t)
        PROVE  ThreadInv' /\ ObjectInv' /\ RetireInv' /\ RefsInv' /\ ClaimInv'
    BY <1>1, <2>3, MovesStep
  <2> QED
    BY <2>1, <2>2, <2>3, NextMoves
<1> QED
  BY <1>2, <1>3 DEF IInv

\* Every reachable state satisfies the inductive invariant.
THEOREM Invariance == Spec => []IInv
BY InvInit, InvStep, PTL DEF Spec

-----------------------------------------------------------------------------
(* What the client can rely on.                                            *)

\* The variables always have their types: no call dereferences or links the
\* null pointer where a batch is needed, and no counter leaves its word.
THEOREM TypeCorrect == Spec => []TypeOK
BY Invariance, PTL DEF IInv

LEMMA HeadIn ==
    ASSUME NEW S, NEW q \in Seq(S), q # <<>>
    PROVE  q[1] \in S /\ InSeq(q[1], q)
<1>1. Len(q) \in Nat \ {0} /\ q[1] \in S
  BY TailFacts
<1>2. 1 \in 1 .. Len(q)
  BY <1>1
<1> QED
  BY <1>1, <1>2 DEF InSeq

LEMMA InvTouches == IInv => TouchesOnlyRetired
<1> SUFFICES ASSUME IInv, NEW t \in Threads, NEW b \in Target(t)
             PROVE  b # NULL /\ status[b] = "retired" /\ ~Listed(b)
  BY DEF TouchesOnlyRetired, Listed
<1>1. /\ TypeOK /\ RetireInv /\ RefsInv /\ ThreadOK(t)
      /\ held[t] \in Seq(Batches) /\ todo[t] \in Seq(Batches)
      /\ loc[t].op = "retire" => loc[t].pc \in RetireLabels \union {"free"}
  BY OwedSeqs DEF IInv, ThreadInv, ThreadOK, ControlOK
<1>2. ASSUME b \in Batches, Owes(t, b) \/ Retiring(t, b)
      PROVE  b # NULL /\ status[b] = "retired" /\ ~Listed(b)
  BY <1>1, <1>2, Constants DEF RefsInv, RetireInv, Owers
<1>3. CASE loc[t].pc = "trimRead"
  <2>1. b = loc[t].smr /\ InSeq(loc[t].smr, held[t])
    BY <1>1, <1>3 DEF Target, ThreadOK, ChainOK, RetireLabels
  <2>2. b \in Batches
    BY <1>1, <1>3, <2>1, Ready
  <2> QED
    BY <1>2, <2>1, <2>2 DEF Owes
<1>4. CASE loc[t].pc = "travRead"
  <2>1. b = loc[t].walk.nxt /\ b # NULL
    BY <1>1, <1>4 DEF Target, RetireLabels
  <2>2. todo[t] # <<>> /\ b = todo[t][1]
    BY <1>1, <1>4, <2>1 DEF ThreadOK, ChainOK, Chain
  <2>3. b \in Batches /\ InSeq(b, todo[t])
    BY <1>1, <2>2, HeadIn
  <2> QED
    BY <1>2, <2>3 DEF Owes
<1>5. CASE loc[t].pc = "travDrop"
  <2>1. b = loc[t].walk.curr
    BY <1>1, <1>5 DEF Target, RetireLabels
  <2>2. todo[t] # <<>> /\ b = todo[t][1]
    BY <1>1, <1>5, <2>1, Ready
  <2>3. b \in Batches /\ InSeq(b, todo[t])
    BY <1>1, <2>2, HeadIn
  <2> QED
    BY <1>2, <2>3 DEF Owes
<1>6. CASE loc[t].pc \notin {"trimRead", "travRead", "travDrop"}
  <2>1. loc[t].op = "retire" /\ loc[t].pc # "free" /\ b = loc[t].batch
    BY <1>6 DEF Target
  <2>2. loc[t].pc \in RetireLabels
    BY <1>1, <2>1 DEF ThreadOK, ControlOK
  <2>3. b \in Batches /\ Retiring(t, b)
    BY <1>1, <2>1, <2>2, Ready DEF Retiring
  <2> QED
    BY <1>2, <2>3
<1> QED
  BY <1>3, <1>4, <1>5, <1>6

\* traverse, trim and retire never dereference memory that was given back, or
\* is about to be, nor the null pointer.
THEOREM TouchesSafe == Spec => []TouchesOnlyRetired
BY Invariance, InvTouches, PTL

LEMMA InvQuiet == IInv => QuietIsClean
<1> SUFFICES ASSUME IInv, \A t \in Threads : loc[t].pc = "idle" /\ ~loc[t].inside
             PROVE  /\ head = [s \in Slots |-> Off]
                    /\ \A b \in Batches : status[b] # "retired"
  BY DEF QuietIsClean
<1>1. \A t \in Threads : /\ head[t] = Off /\ held[t] = <<>> /\ todo[t] = <<>>
                         /\ later[t] = <<>> /\ loc[t].list = {}
  BY DEF IInv, ThreadInv, ThreadOK, SlotOK, ControlOK
<1>2. head = [s \in Slots |-> Off]
  BY <1>1, Constants DEF IInv, TypeOK
<1>3. ASSUME NEW b \in Batches PROVE status[b] # "retired"
  <2>1. Owers(b) = {} /\ ~Listed(b) /\ \A t \in Threads : ~Retiring(t, b)
    BY <1>1, InEmpty DEF Owers, Owes, Listed, Retiring, RetireLabels
  <2> QED
    BY <2>1 DEF IInv, RefsInv
<1> QED
  BY <1>2, <1>3

\* When every thread has left and all calls have returned, nothing that was
\* retired is still waiting to be freed, and the slots are off.
THEOREM QuietClean == Spec => []QuietIsClean
BY Invariance, InvQuiet, PTL

-----------------------------------------------------------------------------
(* Refinement.                                                             *)

\* What the client of thread t sees of a step of t that frees nothing and
\* retires nothing.
Sees(t) ==
    /\ Others(t) /\ UNCHANGED status
    /\ \/ loc'[t].holds = loc[t].holds
       \/ loc'[t].holds = {}
       \/ \E b \in Claims(t) : loc'[t].holds = loc[t].holds \union {b}

LEMMA StillSees ==
    ASSUME TypeOK, ThreadInv, NEW t \in Threads, Still(t)
    PROVE  Sees(t)
<1>1. ThreadOK(t) /\ Moves(t) /\ UNCHANGED status
  BY StillWords DEF ThreadInv, Still, Moves
<1>2. Others(t)
  BY <1>1, LocType
<1>3. CASE Enter(t) \/ Leave(t) \/ Ack(t) \/ DerefAccess(t)
  BY <1>1, <1>2, <1>3, EnterDoes, LeaveDoes, AckDoes, DerefAccessDoes DEF Sees, SameClient
<1>4. CASE Derefs(t) \/ Trims(t)
  BY <1>1, <1>2, <1>4, Ready, DerefDoes, TrimDoes DEF Sees, Derefs, Trims, SameClient
<1>5. CASE DerefEpoch(t)
  <2>1. CASE loc[t].acc = global /\ loc[t].value # NULL
    <3>1. loc'[t].holds = loc[t].holds \union {loc[t].value} /\ loc[t].pc = "derefEpoch"
      BY <1>5, <2>1, DerefEpochDoes
    <3>2. loc[t].value \in Claims(t)
      BY <2>1, <3>1 DEF Claims, At
    <3> QED
      BY <1>1, <1>2, <3>1, <3>2 DEF Sees
  <2>2. CASE ~(loc[t].acc = global /\ loc[t].value # NULL)
    <3>1. loc'[t].holds = loc[t].holds
      BY <1>5, <2>2, DerefEpochDoes
    <3> QED
      BY <1>1, <1>2, <3>1 DEF Sees
  <2> QED
    BY <2>1, <2>2
<1>6. CASE TravRead(t) \/ EndCall(t, Off)
  BY <1>1, <1>2, <1>6, Ready, TravReadDoes, EndCallDoes DEF Sees, SameClient
<1>7. CASE TrimRead(t)
  <2>1. loc[t].pc = "trimRead"
    BY <1>7 DEF TrimRead, At
  <2> QED
    BY <1>1, <1>2, <1>7, <2>1, Ready, TrimReadDoes DEF Sees, SameClient
<1> QED
  BY <1>3, <1>4, <1>5, <1>6, <1>7 DEF Still

LEMMA MoveSees ==
    ASSUME TypeOK, ThreadInv, RetireInv, ClaimInv, NEW t \in Threads, Moves(t)
    PROVE  Sees(t) \/ Retires(t) \/ Frees(t)
<1>1. Others(t) /\ ThreadOK(t)
  BY LocType DEF ThreadInv
<1>2. CASE Still(t)
  BY <1>2, StillSees
<1>3. CASE DerefLoad(t)
  <2>1. loc'[t].holds = loc[t].holds /\ UNCHANGED status
    BY <1>3, DerefLoadDoes DEF DerefLoad, structure, SameClient
  <2> QED
    BY <1>1, <2>1 DEF Sees
<1>4. CASE RetireAccess(t) \/ RetireLoad(t) \/ (RetireCas(t) /\ ~Inserts(t))
  <2>1. Skips(t)
    BY <1>4, AccessSkips, LooksSkip, RetireLoadDoes, InsertFails
  <2>2. loc'[t].holds = loc[t].holds
    BY <2>1 DEF Skips, Loops, SameClient
  <2>3. UNCHANGED status
    BY <1>4 DEF RetireAccess, RetireLoad, RetireCas, structure
  <2> QED
    BY <1>1, <2>2, <2>3 DEF Sees
<1>5. CASE Inserts(t)
  <2>1. loc[t].batch \in Batches
    BY <1>1, <1>5, Ready DEF Inserts, RetireCas, At, RetireLabels
  <2>2. loc'[t].holds = loc[t].holds /\ UNCHANGED status
    BY <1>5, <2>1, InsertDoes DEF Loops, SameClient, structure
  <2> QED
    BY <1>1, <2>2 DEF Sees
<1>6. CASE RetireFinish(t)
  <2>1. loc[t].batch \in Batches
    BY <1>1, <1>6, Ready DEF RetireFinish, At, RetireLabels
  <2>2. loc'[t].holds = loc[t].holds
    BY <1>6, <2>1, RetireFinishDoes DEF SameClient
  <2>3. UNCHANGED status
    BY <1>6 DEF RetireFinish, structure
  <2> QED
    BY <1>1, <2>2, <2>3 DEF Sees
<1>7. CASE Decrements(t)
  <2>1. loc[t].walk.curr \in Batches
    BY <1>1, <1>7, Ready DEF Decrements, TravDrop, At
  <2>2. loc'[t].holds = loc[t].holds
    BY <1>7, <2>1, TravDropDoes DEF Decrements, SameClient
  <2>3. UNCHANGED status
    BY <1>7 DEF Decrements, TravDrop, structure
  <2> QED
    BY <1>1, <2>2, <2>3 DEF Sees
<1> QED
  BY <1>2, <1>3, <1>4, <1>5, <1>6, <1>7 DEF Moves, Still

\* The abstract pointers after a step of t.
LEMMA HoldsOf ==
    ASSUME NEW t \in Threads, Others(t)
    PROVE  [u \in Threads |-> loc[u].holds]'
             = [[u \in Threads |-> loc[u].holds] EXCEPT ![t] = loc'[t].holds]
BY DEF Others

LEMMA SeesStep ==
    ASSUME TypeOK, ClaimInv, NEW t \in Threads, Sees(t)
    PROVE  Abstract!Next
<1> DEFINE h == [u \in Threads |-> loc[u].holds]
<1>1. h' = [h EXCEPT ![t] = loc'[t].holds] /\ h[t] = loc[t].holds /\ UNCHANGED status
  BY HoldsOf DEF Sees
<1>2. CASE loc'[t].holds = loc[t].holds \/ loc'[t].holds = {}
  <2>1. \E kept \in SUBSET h[t] : h' = [h EXCEPT ![t] = kept]
    BY <1>1, <1>2
  <2>2. Abstract!Release(t)
    BY <1>1, <2>1 DEF Abstract!Release
  <2> QED
    BY <2>2 DEF Abstract!Next
<1>3. ASSUME NEW b \in Claims(t), loc'[t].holds = loc[t].holds \union {b}
      PROVE  Abstract!Next
  <2>1. b \in Batches /\ status[b] \in {"linked", "retired"}
    BY ClaimsTyped DEF ClaimInv
  <2>2. h' = [h EXCEPT ![t] = @ \union {b}]
    BY <1>1, <1>3
  <2>3. Abstract!Read(t, b)
    BY <1>1, <2>1, <2>2 DEF Abstract!Read
  <2> QED
    BY <2>1, <2>3 DEF Abstract!Next
<1> QED
  BY <1>2, <1>3 DEF Sees

LEMMA AbstractStep == IInv /\ [Next]_vars => [Abstract!Next]_(Abstract!vars)
<1> SUFFICES ASSUME IInv, [Next]_vars
             PROVE  \/ Abstract!Next
                    \/ UNCHANGED <<status, [u \in Threads |-> loc[u].holds]>>
  BY DEF Abstract!vars
<1>1. TypeOK /\ ThreadInv /\ ObjectInv /\ RetireInv /\ RefsInv /\ ClaimInv
  BY DEF IInv
<1>2. CASE UNCHANGED vars
  BY <1>2 DEF vars
<1>3. CASE Allocates \/ Links
  <2>1. PICK b \in Batches : Alloc(b) \/ Link(b)
    BY <1>3 DEF Allocates, Links
  <2>2. Abstract!Alloc(b) \/ Abstract!Link(b)
    BY <2>1 DEF Alloc, Link, Abstract!Alloc, Abstract!Link, Abstract!Becomes
  <2> QED
    BY <2>2 DEF Abstract!Next
<1>4. ASSUME NEW t \in Threads, Retires(t) PROVE Abstract!Next
  <2>1. PICK b \in Batches : b = root
    BY <1>1, <1>4, RetireDoes DEF Retires, RetireBegin
  <2>2. /\ Others(t) /\ loc'[t].holds = loc[t].holds
        /\ status' = [status EXCEPT ![b] = "retired"]
    BY <1>1, <1>4, <2>1, RetireDoes DEF Retires, RetireBegin, Retire, SameClient
  <2>3. status[b] = "linked"
    BY <1>1, <2>1, Constants DEF ObjectInv
  <2>4. [u \in Threads |-> loc[u].holds]' = [u \in Threads |-> loc[u].holds]
    BY <2>2 DEF Others
  <2>5. Abstract!Retire(b)
    BY <2>2, <2>3, <2>4 DEF Abstract!Retire, Abstract!Becomes
  <2> QED
    BY <2>5 DEF Abstract!Next
<1>5. ASSUME NEW t \in Threads, Frees(t) PROVE Abstract!Next
  <2>1. PICK b \in Batches : Free(t, b)
    BY <1>5 DEF Frees
  <2>2. /\ Others(t) /\ loc'[t].holds = loc[t].holds
        /\ status' = [status EXCEPT ![b] = "freed"] /\ b \in loc[t].list
    BY <1>1, <2>1, FreeDoes DEF Free, SameClient
  <2>3. status[b] = "retired" /\ Listed(b)
    BY <1>1, <2>2 DEF RefsInv, Listed
  <2>4. \A u \in Threads : b \notin loc[u].holds
    BY <1>1, <2>3, Unclaimed DEF Claims
  <2>5. [u \in Threads |-> loc[u].holds]' = [u \in Threads |-> loc[u].holds]
    BY <2>2 DEF Others
  <2>6. Abstract!Free(b)
    BY <2>2, <2>3, <2>4, <2>5 DEF Abstract!Free, Abstract!Becomes
  <2> QED
    BY <2>6 DEF Abstract!Next
<1>6. ASSUME NEW t \in Threads, Moves(t) PROVE Abstract!Next
  BY <1>1, <1>4, <1>5, <1>6, MoveSees, SeesStep
<1> QED
  BY <1>2, <1>3, <1>6, NextMoves

\* Hyaline-1S implements the abstract scheme: what a thread has read through
\* deref is not freed before it gives it up by leave or trim.
THEOREM Implements == Spec => ImplementsSafePointers
<1>1. Init => Abstract!Init
  BY Constants DEF Init, Between, Abstract!Init
<1> QED
  BY <1>1, AbstractStep, Invariance, PTL
     DEF Spec, ImplementsSafePointers, Abstract!Spec
=============================================================================
