--------------------------- MODULE TrackersProofs ---------------------------
(***************************************************************************)
(* Proofs about the trackers: the types, the reservations that a thread    *)
(* outside an operation does not have, the intervals of 2GEIBR, and, for   *)
(* each of the schemes, that what a thread has read is not freed before    *)
(* the thread gives it up.                                                 *)
(***************************************************************************)
EXTENDS Trackers, TLAPS

\* The bounds of the epochs, as the numbers they are.
LEMMA Constants ==
    ASSUME scheme \in Schemes
    PROVE  /\ NumThreads \in Nat \ {0} /\ Ticks \in Nat /\ NULL \notin Objects
           /\ scheme \in SchemeNames
           /\ FirstEpoch \in {0, 1} /\ MaxEpoch \in Nat /\ Infinity = MaxEpoch + 1
           /\ FirstEpoch <= MaxEpoch
           /\ 0 \in Threads /\ 0 \in Epoch
           /\ None \in Reservation
BY TrackersAssumption
   DEF SchemeNames, FirstEpoch, MaxEpoch, Infinity, Threads, Epoch, None, Reservation, Ptr

\* next, which goes round the threads, is a thread.
LEMMA Remainder ==
    ASSUME NEW n \in Nat \ {0}, NEW a \in Nat
    PROVE  a % n \in 0 .. n - 1 /\ (a < n => a % n = a)
OBVIOUS

\* A thread that returns from a call has locals of the right types.
LEMMA LocalsType ==
    ASSUME scheme \in Schemes, NEW inside \in BOOLEAN, NEW ended \in BOOLEAN,
           NEW holds \in [Index -> SUBSET Objects]
    PROVE  Locals(inside, holds, ended) \in Local
BY Constants DEF Locals, Local, Labels, Ptr, Index

\* The constructors give every variable a value of its type.
LEMMA InitType == Init => TypeOK
<1> SUFFICES ASSUME Init PROVE TypeOK
  OBVIOUS
<1>1. scheme \in Schemes /\ epoch = FirstEpoch /\ FirstEpoch \in FirstEpoch .. MaxEpoch
  BY Constants DEF Init
<1>2. NoHolds \in [Index -> SUBSET Objects]
  BY DEF NoHolds
<1>3. Locals(FALSE, NoHolds, FALSE) \in Local
  BY <1>1, <1>2, LocalsType
<1> QED
  BY <1>1, <1>3, Constants DEF Init, TypeOK, Ptr

\* A step that assigns the locals of one thread.
LEMMA GoesTo ==
    ASSUME TypeOK, NEW t \in Threads, NEW l, Goes(t, l)
    PROVE  /\ loc'[t] = l
           /\ \A u \in Threads : u # t => loc'[u] = loc[u]
           /\ l \in Local => loc' \in [Threads -> Local]
BY DEF TypeOK, Goes

\* A store into one reservation.
LEMMA Publishing ==
    ASSUME TypeOK, NEW t \in Threads, NEW i \in Index, NEW x \in Reservation,
           Publish(t, i, x)
    PROVE  /\ entry' \in [Threads -> [Index -> Reservation]]
           /\ entry'[t][i] = x
           /\ \A u \in Threads, j \in Index :
                u # t \/ j # i => entry'[u][j] = entry[u][j]
           /\ \A u \in Threads : u # t => entry'[u] = entry[u]
BY DEF TypeOK, Publish

-----------------------------------------------------------------------------
(* What each step does to the locals of its thread.                        *)

Others(t) == \A u \in Threads : u # t => loc'[u] = loc[u]

\* The locals that only a step of the calls that use them changes.
SameLocals(t) ==
    /\ loc'[t].inside = loc[t].inside /\ loc'[t].ended = loc[t].ended
    /\ loc'[t].holds = loc[t].holds

\* start_op, in one step or in the first of several.
LEMMA StartDoes ==
    ASSUME TypeOK, NEW t \in Threads, Start(t)
    PROVE  /\ loc' \in [Threads -> Local] /\ Others(t)
           /\ loc[t].pc = "idle" /\ ~loc[t].inside
           /\ loc'[t].holds = loc[t].holds /\ loc'[t].ended = loc[t].ended
           /\ loc'[t].i = loc[t].i
           /\ \/ /\ scheme \in {"RCU", "2GEIBR"}
                 /\ loc'[t].pc = "startStore" /\ loc'[t].inside = loc[t].inside
                 /\ loc'[t].e = epoch
              \/ /\ scheme \notin {"RCU", "2GEIBR"}
                 /\ loc'[t].pc = "idle" /\ loc'[t].inside = TRUE
<1> DEFINE l == IF scheme \in {"RCU", "2GEIBR"}
                THEN [loc[t] EXCEPT !.e = epoch, !.pc = "startStore"]
                ELSE [loc[t] EXCEPT !.inside = TRUE]
<1>1. Goes(t, l) /\ loc[t].pc = "idle" /\ ~loc[t].inside
  BY DEF Start, At
<1>2. loc[t] \in Local /\ epoch \in Epoch
  BY Constants DEF TypeOK, Epoch, Infinity
<1>3. l \in Local
  BY <1>2 DEF Local, Labels
<1>4. loc'[t] = l /\ Others(t) /\ loc' \in [Threads -> Local]
  BY <1>1, <1>3, GoesTo DEF Others
<1> QED
  BY <1>1, <1>2, <1>4 DEF Local

\* The stores of start_op.
LEMMA StartStoreDoes ==
    ASSUME TypeOK, NEW t \in Threads, StartStore(t)
    PROVE  /\ loc' \in [Threads -> Local] /\ Others(t)
           /\ loc[t].pc = "startStore"
           /\ loc'[t].holds = loc[t].holds /\ loc'[t].ended = loc[t].ended
           /\ \/ /\ scheme = "2GEIBR" /\ loc[t].i = 1
                 /\ loc'[t].pc = "startStore" /\ loc'[t].inside = loc[t].inside
                 /\ loc'[t].e = loc[t].e /\ loc'[t].i = 2
              \/ /\ ~(scheme = "2GEIBR" /\ loc[t].i = 1)
                 /\ loc'[t].pc = "idle" /\ loc'[t].inside = TRUE /\ loc'[t].i = 1
<1> DEFINE l == IF scheme = "2GEIBR" /\ loc[t].i = 1 THEN [loc[t] EXCEPT !.i = 2]
                ELSE [Between(loc[t]) EXCEPT !.inside = TRUE]
<1>1. Goes(t, l) /\ loc[t].pc = "startStore"
  BY DEF StartStore, At
<1>2. loc[t] \in Local /\ Between(loc[t]) \in Local
  BY LocalsType DEF TypeOK, Between, Local
<1>3. l \in Local
  BY <1>2 DEF Local, Index
<1> QED
  BY <1>1, <1>2, <1>3, GoesTo DEF Others, Local, Between, Locals

\* end_op takes the pointers of the caller back.
LEMMA EndDoes ==
    ASSUME TypeOK, NEW t \in Threads, End(t)
    PROVE  /\ loc' \in [Threads -> Local] /\ Others(t)
           /\ loc[t].pc = "idle" /\ loc[t].inside
           /\ loc'[t].pc = "endStore" /\ loc'[t].inside = FALSE
           /\ loc'[t].holds = NoHolds /\ loc'[t].ended = loc[t].ended
           /\ loc'[t].e = IF scheme = "QSBR" THEN epoch ELSE 0
           /\ loc'[t].i = IF scheme = "2GEIBR" THEN 2 ELSE 1
<1> DEFINE l == [loc[t] EXCEPT !.holds = NoHolds, !.inside = FALSE,
                               !.e = IF scheme = "QSBR" THEN epoch ELSE 0,
                               !.i = IF scheme = "2GEIBR" THEN 2 ELSE 1,
                               !.pc = "endStore"]
<1>1. Goes(t, l) /\ loc[t].pc = "idle" /\ loc[t].inside
  BY DEF End, At
<1>2. loc[t] \in Local /\ epoch \in Epoch /\ 0 \in Epoch
  BY Constants DEF TypeOK, Epoch, Infinity
<1>3. l \in Local
  BY <1>2 DEF Local, Labels, Index, NoHolds
<1>4. loc'[t] = l /\ Others(t) /\ loc' \in [Threads -> Local]
  BY <1>1, <1>3, GoesTo DEF Others
<1> QED
  BY <1>1, <1>2, <1>4 DEF Local

\* The stores of end_op and of clear_all.
LEMMA EndStoreDoes ==
    ASSUME TypeOK, NEW t \in Threads, EndStore(t)
    PROVE  /\ loc' \in [Threads -> Local] /\ Others(t)
           /\ loc[t].pc = "endStore"
           /\ loc'[t].holds = loc[t].holds /\ loc'[t].inside = loc[t].inside
           /\ \/ /\ loc'[t].pc = "endStore" /\ loc'[t].e = loc[t].e
                 /\ loc'[t].ended = loc[t].ended
                 /\ \/ scheme = "2GEIBR" /\ loc[t].i = 2 /\ loc'[t].i = 1
                    \/ PerSlot /\ loc[t].i = 1 /\ loc'[t].i = 2
              \/ /\ loc'[t].pc = "idle" /\ loc'[t].i = 1
                 /\ loc'[t].ended = (scheme = "QSBR")
                 /\ scheme = "2GEIBR" => loc[t].i = 1
                 /\ PerSlot => loc[t].i = 2
<1> DEFINE m == [loc[t] EXCEPT !.i = AfterEnd(loc[t].i)]
           n == [Between(loc[t]) EXCEPT !.ended = (scheme = "QSBR")]
<1>1. /\ loc[t].pc = "endStore"
      /\ Goes(t, IF AfterEnd(loc[t].i) # 0 THEN m ELSE n)
  BY DEF EndStore, At
<1>2. loc[t] \in Local /\ Between(loc[t]) \in Local
  BY LocalsType DEF TypeOK, Between, Local
<1>3. CASE AfterEnd(loc[t].i) # 0
  <2>1. \/ scheme = "2GEIBR" /\ loc[t].i = 2 /\ AfterEnd(loc[t].i) = 1
        \/ PerSlot /\ loc[t].i = 1 /\ AfterEnd(loc[t].i) = 2
    BY <1>2, <1>3 DEF AfterEnd, Local, Index, PerSlot
  <2>2. m \in Local
    BY <1>2, <2>1 DEF Local, Index
  <2>3. loc'[t] = m /\ Others(t) /\ loc' \in [Threads -> Local]
    BY <1>1, <1>3, <2>2, GoesTo DEF Others
  <2> QED
    BY <1>1, <1>2, <2>1, <2>3 DEF Local
<1>4. CASE ~(AfterEnd(loc[t].i) # 0)
  <2>1. /\ scheme = "2GEIBR" => loc[t].i = 1
        /\ PerSlot => loc[t].i = 2
    BY <1>2, <1>4 DEF AfterEnd, Local, Index, PerSlot
  <2>2. n \in Local
    BY <1>2 DEF Local
  <2>3. loc'[t] = n /\ Others(t) /\ loc' \in [Threads -> Local]
    BY <1>1, <1>4, <2>2, GoesTo DEF Others
  <2> QED
    BY <1>1, <1>2, <2>1, <2>3 DEF Local, Between, Locals
<1> QED
  BY <1>3, <1>4

\* The slot of the caller's that read returns a pointer into.
SlotOf(t) == IF PerSlot THEN loc[t].i ELSE 1

\* read returns a pointer.
LEMMA ReturnsDoes ==
    ASSUME TypeOK, NEW t \in Threads, NEW b \in Ptr, Returns(t, b)
    PROVE  /\ loc' \in [Threads -> Local] /\ Others(t)
           /\ loc'[t].pc = "idle" /\ loc'[t].i = 1
           /\ loc'[t].inside = loc[t].inside /\ loc'[t].ended = loc[t].ended
           /\ \A j \in Index : j # SlotOf(t) => loc'[t].holds[j] = loc[t].holds[j]
           /\ loc'[t].holds[SlotOf(t)] =
                loc[t].holds[SlotOf(t)] \union (IF b = NULL THEN {} ELSE {b})
<1> DEFINE s == SlotOf(t)
           new == IF b = NULL THEN {} ELSE {b}
           l == [Between(loc[t]) EXCEPT !.holds[s] = @ \union new]
<1>1. Goes(t, l)
  BY DEF Returns, SlotOf
<1>2. loc[t] \in Local /\ Between(loc[t]) \in Local
  BY LocalsType DEF TypeOK, Between, Local
<1>3. s \in Index /\ new \subseteq Objects
  BY <1>2 DEF SlotOf, Local, Index, Ptr
<1>4. Between(loc[t]).holds = loc[t].holds /\ loc[t].holds \in [Index -> SUBSET Objects]
  BY <1>2 DEF Between, Locals, Local
<1> HIDE DEF s, new
<1>5. l \in Local /\ l.holds = [loc[t].holds EXCEPT ![s] = @ \union new]
  BY <1>2, <1>3, <1>4 DEF Local
<1>6. loc'[t] = l /\ Others(t) /\ loc' \in [Threads -> Local]
  BY <1>1, <1>5, GoesTo DEF Others
<1>7. /\ l.pc = "idle" /\ l.i = 1 /\ l.inside = loc[t].inside /\ l.ended = loc[t].ended
  BY <1>2 DEF Between, Locals
<1>8. /\ l.holds[s] = loc[t].holds[s] \union new
      /\ \A j \in Index : j # s => l.holds[j] = loc[t].holds[j]
  BY <1>3, <1>4, <1>5
<1> QED
  BY <1>6, <1>7, <1>8 DEF s, new

\* read begins, and gives up the pointer in its slot.
LEMMA ReadDoes ==
    ASSUME TypeOK, NEW t \in Threads, NEW i \in Index, Read(t, i)
    PROVE  /\ loc' \in [Threads -> Local] /\ Others(t)
           /\ loc[t].pc = "idle" /\ loc[t].inside /\ Publishes
           /\ ~PerSlot => i = 2
           /\ loc'[t].pc = "readLoad" /\ loc'[t].i = i
           /\ loc'[t].inside = loc[t].inside /\ loc'[t].ended = loc[t].ended
           /\ \A j \in Index : j # i => loc'[t].holds[j] = loc[t].holds[j]
           /\ loc'[t].holds[i] = IF PerSlot THEN {} ELSE loc[t].holds[i]
           /\ scheme # "Hazard" => loc'[t].e = entry[t][i]
<1> DEFINE h == IF PerSlot THEN {} ELSE loc[t].holds[i]
           x == IF scheme = "Hazard" THEN 0 ELSE entry[t][i]
           l == [loc[t] EXCEPT !.i = i, !.pc = "readLoad", !.holds[i] = h, !.e = x]
<1>1. Goes(t, l) /\ loc[t].pc = "idle" /\ loc[t].inside /\ Publishes /\ (~PerSlot => i = 2)
  BY DEF Read, At
<1>2. loc[t] \in Local /\ loc[t].holds \in [Index -> SUBSET Objects]
  BY DEF TypeOK, Local
<1>3. h \in SUBSET Objects /\ x \in Epoch
  BY <1>2, Constants DEF TypeOK, Reservation
<1> HIDE DEF h, x
<1>4. l \in Local /\ l.holds = [loc[t].holds EXCEPT ![i] = h]
  BY <1>2, <1>3 DEF Local, Labels
<1>5. loc'[t] = l /\ Others(t) /\ loc' \in [Threads -> Local]
  BY <1>1, <1>4, GoesTo DEF Others
<1>6. /\ l.pc = "readLoad" /\ l.i = i /\ l.inside = loc[t].inside
      /\ l.ended = loc[t].ended /\ l.e = x
  BY <1>2 DEF Local
<1>7. /\ l.holds[i] = h /\ \A j \in Index : j # i => l.holds[j] = loc[t].holds[j]
  BY <1>2, <1>4
<1> QED
  BY ZenonT(60), <1>1, <1>5, <1>6, <1>7 DEF h, x

\* read loads the cell.
LEMMA ReadLoadDoes ==
    ASSUME TypeOK, NEW t \in Threads, ReadLoad(t)
    PROVE  /\ loc' \in [Threads -> Local] /\ Others(t) /\ SameLocals(t)
           /\ loc[t].pc = "readLoad"
           /\ loc'[t].pc = IF scheme = "Hazard" THEN "hazardStore" ELSE "readEpoch"
           /\ loc'[t].ptr = root
           /\ loc'[t].e = loc[t].e /\ loc'[t].i = loc[t].i
<1> DEFINE l == [loc[t] EXCEPT !.ptr = root,
                   !.pc = IF scheme = "Hazard" THEN "hazardStore" ELSE "readEpoch"]
<1>1. Goes(t, l) /\ loc[t].pc = "readLoad"
  BY DEF ReadLoad, At
<1>2. loc[t] \in Local /\ root \in Ptr
  BY DEF TypeOK
<1>3. l \in Local
  BY <1>2 DEF Local, Labels
<1>4. loc'[t] = l /\ Others(t) /\ loc' \in [Threads -> Local]
  BY <1>1, <1>3, GoesTo DEF Others
<1> QED
  BY <1>1, <1>2, <1>4 DEF Local, SameLocals

\* read sees whether the epoch has moved on.
LEMMA ReadEpochDoes ==
    ASSUME TypeOK, NEW t \in Threads, ReadEpoch(t)
    PROVE  /\ loc' \in [Threads -> Local] /\ Others(t)
           /\ loc[t].pc = "readEpoch"
           /\ \/ epoch = loc[t].e /\ Returns(t, loc[t].ptr) /\ loc[t].ptr \in Ptr
              \/ /\ epoch # loc[t].e
                 /\ SameLocals(t) /\ loc'[t].pc = "readPublish"
                 /\ loc'[t].e = epoch /\ loc'[t].i = loc[t].i /\ loc'[t].ptr = loc[t].ptr
<1> DEFINE l == [loc[t] EXCEPT !.e = epoch, !.pc = "readPublish"]
<1>1. /\ loc[t].pc = "readEpoch"
      /\ IF epoch = loc[t].e THEN Returns(t, loc[t].ptr) ELSE Goes(t, l)
  BY DEF ReadEpoch, At
<1>2. loc[t] \in Local /\ epoch \in Epoch /\ loc[t].ptr \in Ptr
  BY Constants DEF TypeOK, Epoch, Infinity, Local
<1>3. CASE epoch = loc[t].e
  BY <1>1, <1>2, <1>3, ReturnsDoes
<1>4. CASE epoch # loc[t].e
  <2>1. l \in Local
    BY <1>2 DEF Local, Labels
  <2>2. loc'[t] = l /\ Others(t) /\ loc' \in [Threads -> Local]
    BY <1>1, <1>4, <2>1, GoesTo DEF Others
  <2> QED
    BY <1>1, <1>2, <1>4, <2>2 DEF Local, SameLocals
<1> QED
  BY <1>3, <1>4

\* read publishes the epoch and loads the cell again.
LEMMA ReadPublishDoes ==
    ASSUME TypeOK, NEW t \in Threads, ReadPublish(t)
    PROVE  /\ loc' \in [Threads -> Local] /\ Others(t) /\ SameLocals(t)
           /\ loc[t].pc = "readPublish" /\ loc'[t].pc = "readLoad"
           /\ loc'[t].e = loc[t].e /\ loc'[t].i = loc[t].i
<1> DEFINE l == [loc[t] EXCEPT !.pc = "readLoad", !.ptr = NULL]
<1>1. Goes(t, l) /\ loc[t].pc = "readPublish"
  BY DEF ReadPublish, At
<1>2. loc[t] \in Local
  BY DEF TypeOK
<1>3. l \in Local
  BY <1>2 DEF Local, Labels, Ptr
<1>4. loc'[t] = l /\ Others(t) /\ loc' \in [Threads -> Local]
  BY <1>1, <1>3, GoesTo DEF Others
<1> QED
  BY <1>1, <1>2, <1>4 DEF Local, SameLocals

\* read publishes the pointer.
LEMMA HazardStoreDoes ==
    ASSUME TypeOK, NEW t \in Threads, HazardStore(t)
    PROVE  /\ loc' \in [Threads -> Local] /\ Others(t) /\ SameLocals(t)
           /\ loc[t].pc = "hazardStore" /\ loc'[t].pc = "hazardCheck"
           /\ loc'[t].ptr = loc[t].ptr /\ loc'[t].i = loc[t].i
<1> DEFINE l == [loc[t] EXCEPT !.pc = "hazardCheck"]
<1>1. Goes(t, l) /\ loc[t].pc = "hazardStore"
  BY DEF HazardStore, At
<1>2. loc[t] \in Local
  BY DEF TypeOK
<1>3. l \in Local
  BY <1>2 DEF Local, Labels
<1>4. loc'[t] = l /\ Others(t) /\ loc' \in [Threads -> Local]
  BY <1>1, <1>3, GoesTo DEF Others
<1> QED
  BY <1>1, <1>2, <1>4 DEF Local, SameLocals

\* read sees whether the cell has changed.
LEMMA HazardCheckDoes ==
    ASSUME TypeOK, NEW t \in Threads, HazardCheck(t)
    PROVE  /\ loc' \in [Threads -> Local] /\ Others(t)
           /\ loc[t].pc = "hazardCheck"
           /\ \/ root = loc[t].ptr /\ Returns(t, root) /\ root \in Ptr
              \/ /\ root # loc[t].ptr
                 /\ SameLocals(t) /\ loc'[t].pc = "readLoad" /\ loc'[t].i = loc[t].i
<1> DEFINE l == [loc[t] EXCEPT !.pc = "readLoad", !.ptr = NULL]
<1>1. /\ loc[t].pc = "hazardCheck"
      /\ IF root = loc[t].ptr THEN Returns(t, root) ELSE Goes(t, l)
  BY DEF HazardCheck, At
<1>2. loc[t] \in Local /\ root \in Ptr
  BY DEF TypeOK
<1>3. CASE root = loc[t].ptr
  BY <1>1, <1>2, <1>3, ReturnsDoes
<1>4. CASE root # loc[t].ptr
  <2>1. l \in Local
    BY <1>2 DEF Local, Labels, Ptr
  <2>2. loc'[t] = l /\ Others(t) /\ loc' \in [Threads -> Local]
    BY <1>1, <1>4, <2>1, GoesTo DEF Others
  <2> QED
    BY <1>1, <1>2, <1>4, <2>2 DEF Local, SameLocals
<1> QED
  BY <1>3, <1>4

\* The client takes an object out of its structure.
LEMMA UnlinkDoes ==
    ASSUME TypeOK, NEW t \in Threads, Unlink(t)
    PROVE  /\ loc' \in [Threads -> Local] /\ Others(t) /\ SameLocals(t)
           /\ loc[t].pc = "idle" /\ loc[t].inside /\ root \in Objects
           /\ loc'[t].pc = "retire" /\ loc'[t].ptr = root
<1> DEFINE l == [loc[t] EXCEPT !.ptr = root, !.pc = "retire"]
<1>1. Goes(t, l) /\ loc[t].pc = "idle" /\ loc[t].inside /\ root # NULL
  BY DEF Unlink, At
<1>2. loc[t] \in Local /\ root \in Ptr
  BY DEF TypeOK
<1>3. l \in Local
  BY <1>2 DEF Local, Labels
<1>4. loc'[t] = l /\ Others(t) /\ loc' \in [Threads -> Local]
  BY <1>1, <1>3, GoesTo DEF Others
<1> QED
  BY ZenonT(60), <1>1, <1>2, <1>4 DEF Local, SameLocals, Ptr

\* retire, with or without a scan to follow.
LEMMA RetireDoes ==
    ASSUME TypeOK, NEW t \in Threads, Retire(t)
    PROVE  /\ loc' \in [Threads -> Local] /\ Others(t) /\ SameLocals(t)
           /\ loc[t].pc = "retire" /\ loc'[t].pc \in {"idle", "copy"}
           /\ loc'[t].i = 1 /\ loc'[t].next = 0 /\ loc'[t].kept = {}
<1>1. PICK c \in {"idle", "copy"} : Goes(t, [Between(loc[t]) EXCEPT !.pc = c])
  BY DEF Retire
<1> DEFINE l == [Between(loc[t]) EXCEPT !.pc = c]
<1>2. loc[t].pc = "retire"
  BY DEF Retire, At
<1>3. loc[t] \in Local /\ Between(loc[t]) \in Local
  BY LocalsType DEF TypeOK, Between, Local
<1>4. l \in Local
  BY <1>3 DEF Local, Labels
<1>5. loc'[t] = l /\ Others(t) /\ loc' \in [Threads -> Local]
  BY <1>1, <1>4, GoesTo DEF Others
<1> QED
  BY <1>2, <1>3, <1>5 DEF Local, SameLocals, Between, Locals

\* The scan is over.
LEMMA EmptyEndDoes ==
    ASSUME TypeOK, NEW t \in Threads, EmptyEnd(t)
    PROVE  /\ loc' \in [Threads -> Local] /\ Others(t) /\ SameLocals(t)
           /\ loc[t].pc = "sweep" /\ loc'[t].pc = "idle" /\ loc'[t].i = 1
<1>1. Goes(t, Between(loc[t])) /\ loc[t].pc = "sweep"
  BY DEF EmptyEnd, At
<1>2. loc[t] \in Local /\ Between(loc[t]) \in Local
  BY LocalsType DEF TypeOK, Between, Local
<1>3. loc'[t] = Between(loc[t]) /\ Others(t) /\ loc' \in [Threads -> Local]
  BY <1>1, <1>2, GoesTo DEF Others
<1> QED
  BY <1>1, <1>2, <1>3 DEF SameLocals, Between, Locals

\* The objects of its list that a thread keeps for the reservation it copies.
KeptFor(t) ==
    {b \in retired[t] : Keeps(loc[t].e, entry[loc[t].next][loc[t].i], b)}

\* A reservation is copied: the lower of two, and the loop goes on with the
\* other, or the last of a thread, and the loop goes on with the next thread.
LEMMA CopyDoes ==
    ASSUME TypeOK, NEW t \in Threads, Copy(t)
    PROVE  /\ loc' \in [Threads -> Local] /\ Others(t) /\ SameLocals(t)
           /\ loc[t].pc = "copy"
           /\ \/ /\ loc[t].i = 1 /\ Publishes
                 /\ loc'[t].pc = "copy" /\ loc'[t].i = 2 /\ loc'[t].next = loc[t].next
                 /\ scheme = "2GEIBR" => /\ loc'[t].e = entry[loc[t].next][1]
                                         /\ loc'[t].kept = loc[t].kept
                 /\ scheme # "2GEIBR" => loc'[t].kept = loc[t].kept \union KeptFor(t)
              \/ /\ loc[t].i = 1 => ~Publishes
                 /\ scheme = "2GEIBR" => loc[t].i = 2
                 /\ loc'[t].kept = loc[t].kept \union KeptFor(t)
                 /\ loc'[t].i = 1
                 /\ \/ /\ loc[t].next + 1 < NumThreads /\ loc'[t].pc = "copy"
                       /\ loc'[t].next = loc[t].next + 1
                    \/ /\ loc[t].next + 1 = NumThreads /\ loc'[t].pc = "sweep"
<1> DEFINE u == loc[t].next
           i == loc[t].i
           more == i = 1 /\ Publishes
           lower == scheme = "2GEIBR" /\ i = 1
           keeps == IF lower THEN {} ELSE KeptFor(t)
           e == IF lower THEN entry[u][i] ELSE 0
           n == IF more THEN u ELSE (u + 1) % NumThreads
           p == IF more \/ u + 1 < NumThreads THEN "copy" ELSE "sweep"
           l == [loc[t] EXCEPT !.kept = @ \union keeps, !.e = e,
                               !.i = IF more THEN 2 ELSE 1, !.next = n, !.pc = p]
<1>1. Goes(t, l) /\ loc[t].pc = "copy"
  BY DEF Copy, At, KeptFor
<1>2. loc[t] \in Local /\ u \in Threads /\ i \in Index
  BY DEF TypeOK, Local
<1>3. keeps \in SUBSET Objects
  BY DEF TypeOK, KeptFor
<1>4. e \in Epoch
  BY <1>2, Constants DEF TypeOK, Reservation
<1>5. /\ n \in Threads
      /\ u + 1 < NumThreads => (u + 1) % NumThreads = u + 1
      /\ ~(u + 1 < NumThreads) => u + 1 = NumThreads
  <2>1. NumThreads \in Nat \ {0} /\ u \in Nat /\ u + 1 <= NumThreads
    BY <1>2, Constants DEF Threads, TypeOK
  <2>2. u + 1 \in Nat
    BY <2>1
  <2>3. /\ (u + 1) % NumThreads \in 0 .. NumThreads - 1
        /\ u + 1 < NumThreads => (u + 1) % NumThreads = u + 1
    BY ONLY <2>1, <2>2, Remainder
  <2> QED
    BY <1>2, <2>1, <2>2, <2>3 DEF Threads
<1> HIDE DEF keeps, e, n
<1>6. l \in Local
  BY <1>2, <1>3, <1>4, <1>5 DEF Local, Labels, Index
<1>7. loc'[t] = l /\ Others(t) /\ loc' \in [Threads -> Local]
  BY <1>1, <1>6, GoesTo DEF Others
<1>8. /\ l.kept = loc[t].kept \union keeps /\ l.e = e /\ l.i = (IF more THEN 2 ELSE 1)
      /\ l.next = n /\ l.pc = p
      /\ l.inside = loc[t].inside /\ l.ended = loc[t].ended /\ l.holds = loc[t].holds
  BY <1>2 DEF Local
<1>9. SameLocals(t)
  BY <1>7, <1>8 DEF SameLocals
<1>10. CASE more
  BY <1>1, <1>7, <1>8, <1>9, <1>10 DEF keeps, e, n
<1>11. CASE ~more
  <2>1. scheme = "2GEIBR" => loc[t].i = 2
    BY <1>2, <1>11 DEF Publishes, Index
  <2>2. loc'[t].kept = loc[t].kept \union KeptFor(t)
    BY <1>7, <1>8, <2>1 DEF keeps
  <2> QED
    BY <1>1, <1>2, <1>5, <1>7, <1>8, <1>9, <1>11, <2>1, <2>2 DEF n, Index
<1> QED
  BY <1>10, <1>11

-----------------------------------------------------------------------------
(* Types.                                                                  *)

\* What depends on the scheme alone does not change.
LEMMA SameScheme ==
    ASSUME scheme' = scheme
    PROVE  /\ Epoch' = Epoch /\ Reservation' = Reservation /\ Local' = Local
           /\ FirstEpoch' = FirstEpoch /\ MaxEpoch' = MaxEpoch /\ None' = None
           /\ PerSlot' = PerSlot /\ Publishes' = Publishes
<1>1. FirstEpoch' = FirstEpoch /\ PerSlot' = PerSlot /\ Publishes' = Publishes
  BY DEF FirstEpoch, PerSlot, Publishes
<1>2. Infinity' = Infinity /\ MaxEpoch' = MaxEpoch /\ Epoch' = Epoch
  BY <1>1 DEF Infinity, MaxEpoch, Epoch
<1>3. None' = None
  BY <1>2 DEF None
<1>4. Reservation' = Reservation /\ Local' = Local
  BY <1>2, Zenon DEF Reservation, Local
<1> QED
  BY <1>1, <1>2, <1>3, <1>4

\* Every step keeps the types.
LEMMA TypeStep == TypeOK /\ ThreadInv /\ [Next]_vars => TypeOK'
<1> SUFFICES ASSUME TypeOK, ThreadInv, [Next]_vars PROVE TypeOK'
  OBVIOUS
<1>1. scheme' = scheme
  BY ZenonT(60) DEF Next, Step, Start, StartStore, End, EndStore, ReadPlain, Read, ReadLoad,
         ReadEpoch, ReadPublish, HazardStore, HazardCheck, Tick, Alloc, Link, Unlink,
         Retire, Copy, Free, EmptyEnd, vars
<1>2. /\ Epoch' = Epoch /\ Reservation' = Reservation /\ Local' = Local
      /\ FirstEpoch' = FirstEpoch /\ MaxEpoch' = MaxEpoch
  BY <1>1, SameScheme
<1>3. scheme \in Schemes /\ epoch \in Epoch /\ 0 \in Epoch /\ epoch \in Nat
  BY Constants DEF TypeOK, Epoch, Infinity
<1> DEFINE Entries == entry' \in [Threads -> [Index -> Reservation]]
           Locs == loc' \in [Threads -> Local]
<1>4. ASSUME NEW t \in Threads, Step(t) PROVE Entries /\ Locs
  <2>1. loc[t] \in Local /\ loc[t].i \in Index /\ loc[t].e \in Epoch /\ loc[t].ptr \in Ptr
    BY DEF TypeOK, Local
  <2>2. ControlOK(t)
    BY DEF ThreadInv
  <2>3. entry' = entry => Entries
    BY DEF TypeOK
  <2>4. loc' = loc => Locs
    BY DEF TypeOK
  <2> HIDE DEF Entries, Locs
  <2>5. CASE Start(t)
    BY <2>3, <2>5, StartDoes DEF Start, Locs
  <2>6. CASE StartStore(t)
    <3>1. Publish(t, loc[t].i, loc[t].e) /\ loc[t].e \in Reservation
      BY <2>1, <2>2, <2>6 DEF StartStore, At, ControlOK, Reservation
    <3> QED
      BY <2>1, <2>6, <3>1, StartStoreDoes, Publishing DEF Locs, Entries
  <2>7. CASE End(t)
    BY <2>3, <2>7, EndDoes DEF End, Locs
  <2>8. CASE EndStore(t)
    <3>1. /\ Publish(t, loc[t].i, IF scheme = "QSBR" THEN loc[t].e ELSE None)
          /\ (IF scheme = "QSBR" THEN loc[t].e ELSE None) \in Reservation
      BY <1>3, <2>1, <2>8, Constants DEF EndStore, Reservation
    <3> QED
      BY <2>1, <2>8, <3>1, EndStoreDoes, Publishing DEF Locs, Entries
  <2>9. CASE ReadPlain(t)
    BY <2>3, <2>9, ReturnsDoes DEF ReadPlain, Locs, TypeOK
  <2>10. CASE \E i \in Index : Read(t, i)
    BY <2>3, <2>10, ReadDoes DEF Read, Locs
  <2>11. CASE ReadLoad(t)
    BY <2>3, <2>11, ReadLoadDoes DEF ReadLoad, Locs
  <2>12. CASE ReadEpoch(t)
    BY <2>3, <2>12, ReadEpochDoes DEF ReadEpoch, Locs
  <2>13. CASE ReadPublish(t)
    <3>1. Publish(t, loc[t].i, loc[t].e) /\ loc[t].e \in Reservation
      BY <2>1, <2>2, <2>13 DEF ReadPublish, At, ControlOK, Reservation
    <3> QED
      BY <2>1, <2>13, <3>1, ReadPublishDoes, Publishing DEF Locs, Entries
  <2>14. CASE HazardStore(t)
    <3>1. Publish(t, loc[t].i, loc[t].ptr) /\ loc[t].ptr \in Reservation
      BY <2>1, <2>2, <2>14 DEF HazardStore, At, ControlOK, Reservation
    <3> QED
      BY <2>1, <2>14, <3>1, HazardStoreDoes, Publishing DEF Locs, Entries
  <2>15. CASE HazardCheck(t)
    BY <2>3, <2>15, HazardCheckDoes DEF HazardCheck, Locs
  <2>16. CASE Unlink(t)
    BY <2>3, <2>16, UnlinkDoes DEF Unlink, Locs
  <2>17. CASE Retire(t)
    BY <2>3, <2>17, RetireDoes DEF Retire, Locs
  <2>18. CASE Copy(t)
    BY <2>3, <2>18, CopyDoes DEF Copy, Locs
  <2>19. CASE \E b \in Objects : Free(t, b)
    BY <2>3, <2>4, <2>19 DEF Free
  <2>20. CASE EmptyEnd(t)
    BY <2>3, <2>20, EmptyEndDoes DEF EmptyEnd, Locs
  <2> QED
    BY <1>4, <2>5, <2>6, <2>7, <2>8, <2>9, <2>10, <2>11, <2>12, <2>13, <2>14, <2>15,
       <2>16, <2>17, <2>18, <2>19, <2>20 DEF Step
<1>5. Entries /\ Locs
  <2>1. Tick \/ (\E b \in Objects : Alloc(b) \/ Link(b)) \/ UNCHANGED vars =>
          entry' = entry /\ loc' = loc
    BY DEF Tick, Alloc, Link, vars
  <2>2. entry' = entry /\ loc' = loc => Entries /\ Locs
    BY DEF TypeOK
  <2> QED
    BY <1>4, <2>1, <2>2 DEF Next
<1> HIDE DEF Entries, Locs
<1> DEFINE Statuses == {"freed", "new", "linked", "retired"}
<1>6. /\ epoch' \in FirstEpoch .. MaxEpoch /\ root' \in Ptr
      /\ status' \in [Objects -> Statuses]
      /\ birth' \in [Objects -> Epoch] /\ retireEpoch' \in [Objects -> Epoch]
      /\ retired' \in [Threads -> SUBSET Objects]
  <2> DEFINE Rest == /\ epoch' \in FirstEpoch .. MaxEpoch /\ root' \in Ptr
                     /\ status' \in [Objects -> Statuses]
                     /\ birth' \in [Objects -> Epoch] /\ retireEpoch' \in [Objects -> Epoch]
                     /\ retired' \in [Threads -> SUBSET Objects]
  <2>1. UNCHANGED <<epoch, root, object>> => Rest
    BY DEF TypeOK, object
  <2>2. Tick => Rest
    BY Constants DEF TypeOK, object, Tick
  <2>3. ASSUME NEW b \in Objects, Alloc(b) \/ Link(b) PROVE Rest
    <3>1. status' \in [Objects -> Statuses]
      BY <2>3 DEF TypeOK, Alloc, Link
    <3>2. birth' \in [Objects -> Epoch]
      BY <2>3, <1>3 DEF TypeOK, Alloc, Link
    <3> QED
      BY <2>3, <3>1, <3>2 DEF TypeOK, Alloc, Link, Ptr
  <2>4. ASSUME NEW t \in Threads, Unlink(t) PROVE Rest
    <3>1. status' \in [Objects -> Statuses]
      BY <2>4 DEF TypeOK, Unlink
    <3> QED
      BY <2>4, <3>1 DEF TypeOK, Unlink, Ptr
  <2>5. ASSUME NEW t \in Threads, Retire(t) PROVE Rest
    <3>1. loc[t].ptr \in Objects
      BY <2>5 DEF Retire, At, ThreadInv, ControlOK, TypeOK, Local, Ptr
    <3>2. retireEpoch' \in [Objects -> Epoch]
      BY <1>3, <2>5 DEF TypeOK, Retire
    <3>3. retired' \in [Threads -> SUBSET Objects]
      BY <2>5, <3>1 DEF TypeOK, Retire
    <3> QED
      BY <2>5, <3>2, <3>3 DEF TypeOK, Retire
  <2>6. ASSUME NEW t \in Threads, NEW b \in Objects, Free(t, b) PROVE Rest
    <3>1. status' \in [Objects -> Statuses]
      BY <2>6 DEF TypeOK, Free
    <3>2. birth' \in [Objects -> Epoch] /\ retireEpoch' \in [Objects -> Epoch]
      BY <1>3, <2>6 DEF TypeOK, Free
    <3>3. retired' \in [Threads -> SUBSET Objects]
      BY <2>6 DEF TypeOK, Free
    <3> QED
      BY <2>6, <3>1, <3>2, <3>3 DEF TypeOK, Free
  <2>7. ASSUME NEW t \in Threads, Step(t) PROVE Rest
    <3> HIDE DEF Rest
    <3> QED
      BY <2>1, <2>4, <2>5, <2>6, <2>7
         DEF Step, Start, StartStore, End, EndStore, ReadPlain, Read, ReadLoad,
         ReadEpoch, ReadPublish, HazardStore, HazardCheck, Copy, EmptyEnd
  <2> HIDE DEF Rest
  <2>8. UNCHANGED vars => Rest
    BY <2>1 DEF vars, object
  <2>9. Rest
    BY <2>2, <2>3, <2>7, <2>8 DEF Next
  <2> QED
    BY <2>9 DEF Rest
<1>7. scheme' \in Schemes
  BY <1>1, <1>3
<1> QED
  BY <1>2, <1>5, <1>6, <1>7 DEF TypeOK, Entries, Locs

-----------------------------------------------------------------------------
(* A thread and what it has published.                                     *)

\* The epochs among the locals and the reservations are numbers.
LEMMA Numbers ==
    ASSUME TypeOK, NEW t \in Threads
    PROVE  /\ loc[t] \in Local /\ loc[t].i \in {1, 2} /\ loc[t].e \in Nat
           /\ loc[t].holds \in [Index -> SUBSET Objects]
           /\ loc[t].inside \in BOOLEAN /\ loc[t].ended \in BOOLEAN
           /\ epoch \in Nat /\ Infinity \in Nat /\ epoch < Infinity
           /\ scheme # "Hazard" =>
                /\ entry[t][1] \in Nat /\ entry[t][2] \in Nat
                /\ entry[t][1] <= Infinity /\ entry[t][2] <= Infinity
<1>1. loc[t] \in Local
  BY DEF TypeOK
<1>2. scheme # "Hazard" => entry[t][1] \in Epoch /\ entry[t][2] \in Epoch
  BY DEF TypeOK, Reservation, Index
<1>3. MaxEpoch \in Nat /\ Infinity = MaxEpoch + 1 /\ FirstEpoch \in {0, 1}
  BY Constants DEF TypeOK
<1> QED
  BY <1>1, <1>2, <1>3 DEF Local, Index, Epoch, TypeOK

\* A step of another thread, or of the epoch.
LEMMA ThreadFrame ==
    ASSUME TypeOK, NEW u \in Threads, scheme' = scheme, loc'[u] = loc[u],
           entry'[u] = entry[u], epoch' \in Nat, epoch <= epoch',
           ControlOK(u), ReservesOK(u)
    PROVE  ControlOK(u)' /\ ReservesOK(u)'
<1>1. None' = None /\ PerSlot' = PerSlot /\ Publishes' = Publishes
  BY SameScheme
<1>2. ControlOK(u)'
  BY <1>1 DEF ControlOK
<1>3. ReservesOK(u)'
  BY <1>1, Numbers DEF ReservesOK, Publishes, PerSlot
<1> QED
  BY <1>2, <1>3

\* A step of t leads where its locals say it may be.
LEMMA ControlStep ==
    ASSUME TypeOK, ThreadInv, NEW t \in Threads, Step(t), scheme' = scheme
    PROVE  ControlOK(t)'
<1>1. PerSlot' = PerSlot /\ Publishes' = Publishes
  BY SameScheme
<1>2. ControlOK(t) /\ loc[t] \in Local /\ loc[t].i \in {1, 2}
  BY Numbers DEF ThreadInv
<1>3. loc[t].holds \in [Index -> SUBSET Objects] /\ NoHolds = [i \in Index |-> {}]
  BY Numbers DEF NoHolds
<1>4. CASE Start(t)
  BY <1>1, <1>2, <1>4, StartDoes DEF ControlOK, ReadLabels, Publishes, PerSlot
<1>5. CASE StartStore(t)
  BY <1>1, <1>2, <1>5, StartStoreDoes DEF ControlOK, ReadLabels, Publishes, PerSlot
<1>6. CASE End(t)
  BY ZenonT(60), <1>1, <1>2, <1>6, EndDoes
     DEF ControlOK, ReadLabels, Publishes, PerSlot, NoHolds, Index
<1>7. CASE EndStore(t)
  BY <1>1, <1>2, <1>7, EndStoreDoes DEF ControlOK, ReadLabels, Publishes, PerSlot
<1>8. ASSUME NEW b \in Ptr, Returns(t, b), loc[t].inside PROVE ControlOK(t)'
  BY <1>1, <1>2, <1>8, ReturnsDoes DEF ControlOK, ReadLabels, PerSlot, SlotOf, Index
<1>9. CASE ReadPlain(t)
  BY <1>8, <1>9 DEF ReadPlain, TypeOK
<1>10. ASSUME NEW i \in Index, Read(t, i) PROVE ControlOK(t)'
  BY <1>1, <1>2, <1>10, ReadDoes DEF ControlOK, ReadLabels, Publishes, PerSlot, Index
<1>11. CASE ReadLoad(t)
  BY <1>1, <1>2, <1>11, ReadLoadDoes DEF ControlOK, ReadLabels, SameLocals, Publishes, PerSlot
<1>12. CASE ReadEpoch(t)
  <2>1. loc[t].inside
    BY <1>2, <1>12, ReadEpochDoes DEF ControlOK
  <2> QED
    BY <1>1, <1>2, <1>8, <1>12, <2>1, ReadEpochDoes DEF ControlOK, ReadLabels, SameLocals
<1>13. CASE ReadPublish(t)
  BY <1>1, <1>2, <1>13, ReadPublishDoes DEF ControlOK, ReadLabels, SameLocals
<1>14. CASE HazardStore(t)
  BY <1>1, <1>2, <1>14, HazardStoreDoes DEF ControlOK, ReadLabels, SameLocals
<1>15. CASE HazardCheck(t)
  <2>1. loc[t].inside
    BY <1>2, <1>15, HazardCheckDoes DEF ControlOK
  <2> QED
    BY <1>1, <1>2, <1>8, <1>15, <2>1, HazardCheckDoes DEF ControlOK, ReadLabels, SameLocals
<1>16. CASE Unlink(t)
  BY <1>1, <1>2, <1>16, UnlinkDoes, Constants DEF ControlOK, ReadLabels, SameLocals, TypeOK
<1>17. CASE Retire(t)
  BY <1>1, <1>2, <1>17, RetireDoes DEF ControlOK, ReadLabels, SameLocals
<1>18. CASE Copy(t)
  BY <1>1, <1>2, <1>18, CopyDoes DEF ControlOK, ReadLabels, SameLocals
<1>19. ASSUME NEW b \in Objects, Free(t, b) PROVE ControlOK(t)'
  BY <1>1, <1>2, <1>19 DEF ControlOK, Free
<1>20. CASE EmptyEnd(t)
  BY <1>1, <1>2, <1>20, EmptyEndDoes DEF ControlOK, ReadLabels, SameLocals
<1> QED
  BY <1>4, <1>5, <1>6, <1>7, <1>9, <1>10, <1>11, <1>12, <1>13, <1>14, <1>15, <1>16,
     <1>17, <1>18, <1>19, <1>20 DEF Step

\* A step of t keeps what is known of its reservations.
LEMMA ReservesStep ==
    ASSUME TypeOK, ThreadInv, NEW t \in Threads, Step(t), scheme' = scheme
    PROVE  ReservesOK(t)'
<1>1. None' = None /\ PerSlot' = PerSlot /\ Publishes' = Publishes
  BY SameScheme
<1>2. ControlOK(t) /\ ReservesOK(t) /\ loc[t] \in Local /\ loc[t].i \in {1, 2}
  BY Numbers DEF ThreadInv
<1>3. /\ epoch \in Nat /\ loc[t].e \in Nat /\ Infinity \in Nat /\ epoch < Infinity
      /\ scheme # "Hazard" => /\ entry[t][1] \in Nat /\ entry[t][2] \in Nat
                              /\ entry[t][1] <= Infinity /\ entry[t][2] <= Infinity
  BY Numbers
<1>4. scheme \in SchemeNames
  BY Constants DEF TypeOK
<1>5. /\ scheme = "HE" => None = 0
      /\ scheme \in {"RCU", "QSBR", "2GEIBR"} => None = Infinity
  BY <1>4 DEF None, SchemeNames
<1>6. CASE Start(t)
  <2>1. entry' = entry /\ epoch' = epoch
    BY <1>6 DEF Start
  <2>2. loc[t].pc = "idle" /\ ~loc[t].inside /\ loc[t].i = 1
    BY <1>2, <1>6, StartDoes DEF ControlOK
  <2>3. CASE scheme \in {"RCU", "2GEIBR"}
    <3>1. loc'[t].pc = "startStore" /\ ~loc'[t].inside /\ loc'[t].e = epoch /\ loc'[t].i = 1
      BY <1>6, <2>2, <2>3, StartDoes
    <3>2. entry[t][1] = None /\ entry[t][2] = None
      BY <1>2, <2>2, <2>3 DEF ReservesOK
    <3> QED
      BY <1>1, <1>3, <1>5, <2>1, <2>3, <3>1, <3>2 DEF ReservesOK, PerSlot
  <2>4. CASE scheme \notin {"RCU", "2GEIBR"}
    <3>1. loc'[t].pc = "idle" /\ loc'[t].inside /\ loc'[t].ended = loc[t].ended
      BY <1>6, <2>4, StartDoes
    <3> QED
      BY <1>1, <1>2, <1>3, <2>1, <2>4, <3>1 DEF ReservesOK
  <2> QED
    BY <2>3, <2>4
<1>7. ASSUME NEW i \in Index, NEW x, Publish(t, i, x), x \in Reservation
      PROVE  entry'[t][i] = x /\ \A j \in Index : j # i => entry'[t][j] = entry[t][j]
  BY <1>7, Publishing
<1>8. CASE StartStore(t)
  <2>1. Publish(t, loc[t].i, loc[t].e) /\ loc[t].e \in Reservation /\ loc[t].i \in Index
    BY <1>2, <1>8 DEF StartStore, At, ControlOK, Reservation, Local
  <2>2. entry'[t][loc[t].i] = loc[t].e
        /\ \A j \in Index : j # loc[t].i => entry'[t][j] = entry[t][j]
    BY <1>7, <2>1
  <2>3. /\ epoch' = epoch /\ loc[t].pc = "startStore" /\ scheme \in {"RCU", "2GEIBR"}
        /\ scheme = "RCU" => loc[t].i = 1
    BY <1>2, <1>8 DEF StartStore, At, ControlOK
  <2>4. /\ loc[t].e <= epoch /\ entry[t][2] = Infinity
        /\ entry[t][1] = IF loc[t].i = 1 THEN Infinity ELSE loc[t].e
    BY <1>2, <1>5, <2>3 DEF ReservesOK
  <2>5. CASE scheme = "2GEIBR" /\ loc[t].i = 1
    <3>1. /\ loc'[t].pc = "startStore" /\ ~loc'[t].inside /\ loc'[t].e = loc[t].e
          /\ loc'[t].i = 2
      BY <1>2, <1>8, <2>5, StartStoreDoes DEF ControlOK
    <3>2. entry'[t][1] = loc[t].e /\ entry'[t][2] = Infinity
      BY <2>2, <2>4, <2>5 DEF Index
    <3> QED
      BY <1>1, <1>3, <1>5, <2>3, <2>4, <2>5, <3>1, <3>2 DEF ReservesOK, Publishes, PerSlot
  <2>6. CASE ~(scheme = "2GEIBR" /\ loc[t].i = 1)
    <3>1. loc'[t].pc = "idle" /\ loc'[t].inside
      BY <1>8, <2>6, StartStoreDoes
    <3>2. /\ entry'[t][1] = loc[t].e
          /\ entry'[t][2] = IF scheme = "RCU" THEN Infinity ELSE loc[t].e
      BY <1>2, <2>2, <2>3, <2>4, <2>6 DEF Index
    <3> QED
      BY <1>1, <1>3, <1>5, <2>3, <2>4, <3>1, <3>2 DEF ReservesOK, Publishes, PerSlot
  <2> QED
    BY <2>5, <2>6
<1>9. CASE End(t)
  <2>1. /\ epoch' = epoch /\ entry' = entry /\ loc[t].pc = "idle" /\ loc[t].inside
        /\ loc'[t].pc = "endStore" /\ loc'[t].inside = FALSE /\ loc'[t].ended = loc[t].ended
        /\ loc'[t].e = IF scheme = "QSBR" THEN epoch ELSE 0
        /\ loc'[t].i = IF scheme = "2GEIBR" THEN 2 ELSE 1
    BY <1>9, EndDoes DEF End
  <2> QED
    BY <1>1, <1>2, <1>3, <1>5, <2>1 DEF ReservesOK, PerSlot
<1>10. CASE EndStore(t)
  <2> DEFINE x == IF scheme = "QSBR" THEN loc[t].e ELSE None
  <2>1. Publish(t, loc[t].i, x) /\ x \in Reservation /\ loc[t].i \in Index
    BY <1>2, <1>10, Constants DEF EndStore, Reservation, Local, TypeOK
  <2>2. entry'[t][loc[t].i] = x
        /\ \A j \in Index : j # loc[t].i => entry'[t][j] = entry[t][j]
    BY <1>7, <2>1
  <2> QED
    BY <1>1, <1>2, <1>3, <1>4, <1>5, <1>10, <2>2, EndStoreDoes
       DEF EndStore, ControlOK, ReservesOK, Index, Publishes, PerSlot, SchemeNames
<1>11. ASSUME NEW b \in Ptr, Returns(t, b), loc[t].inside,
              scheme' = scheme, entry' = entry, epoch' = epoch
       PROVE  ReservesOK(t)'
  BY <1>1, <1>2, <1>3, <1>5, <1>11, ReturnsDoes DEF ReservesOK
<1>12. CASE ReadPlain(t)
  BY <1>11, <1>12 DEF ReadPlain, TypeOK
<1>13. ASSUME NEW i \in Index, Read(t, i) PROVE ReservesOK(t)'
  <2>1. /\ loc'[t].pc = "readLoad" /\ loc'[t].i = i /\ loc[t].pc = "idle" /\ loc[t].inside
        /\ loc'[t].inside = loc[t].inside /\ loc'[t].ended = loc[t].ended
        /\ scheme # "Hazard" => loc'[t].e = entry[t][i]
    BY <1>13, ReadDoes
  <2>2. epoch' = epoch /\ entry' = entry
    BY <1>13 DEF Read
  <2> QED
    BY <1>1, <1>2, <1>3, <2>1, <2>2 DEF ReservesOK
<1>14. CASE ReadLoad(t)
  BY <1>1, <1>2, <1>3, <1>14, ReadLoadDoes DEF ReadLoad, ReservesOK, SameLocals, Publishes
<1>15. CASE ReadEpoch(t)
  <2>1. loc[t].inside /\ loc[t].pc = "readEpoch" /\ scheme \in {"2GEIBR", "HE"}
    BY <1>2, <1>15, ReadEpochDoes DEF ControlOK
  <2>2. CASE loc[t].e = epoch
    BY <1>11, <1>15, <2>1, <2>2, ReadEpochDoes DEF ReadEpoch
  <2>3. CASE loc[t].e # epoch
    <3>1. entry[t][loc[t].i] <= epoch
      BY <1>2, <1>3, <2>1 DEF ReservesOK
    <3> QED
      <4>1. /\ epoch' = epoch /\ entry' = entry /\ loc'[t].pc = "readPublish"
            /\ loc'[t].inside = loc[t].inside /\ loc'[t].ended = loc[t].ended
            /\ loc'[t].e = epoch /\ loc'[t].i = loc[t].i
        BY <1>15, <2>3, ReadEpochDoes DEF ReadEpoch, SameLocals
      <4> QED
        BY <1>1, <1>2, <1>3, <2>1, <3>1, <4>1 DEF ReservesOK, Publishes, PerSlot
  <2> QED
    BY <2>2, <2>3
<1>16. CASE ReadPublish(t)
  <2>1. /\ Publish(t, loc[t].i, loc[t].e) /\ loc[t].e \in Reservation /\ loc[t].i \in Index
        /\ scheme \in {"2GEIBR", "HE"} /\ loc[t].pc = "readPublish" /\ loc[t].inside
        /\ ~PerSlot => loc[t].i = 2
    BY <1>2, <1>16 DEF ReadPublish, At, ControlOK, Reservation, Local, ReadLabels
  <2>2. entry'[t][loc[t].i] = loc[t].e
        /\ \A j \in Index : j # loc[t].i => entry'[t][j] = entry[t][j]
    BY <1>7, <2>1
  <2>3. /\ epoch' = epoch /\ loc'[t].pc = "readLoad" /\ loc'[t].inside
        /\ loc'[t].e = loc[t].e /\ loc'[t].i = loc[t].i
    BY <1>16, <2>1, ReadPublishDoes DEF ReadPublish, SameLocals
  <2>4. entry[t][loc[t].i] <= loc[t].e /\ loc[t].e <= epoch
    BY <1>2, <2>1 DEF ReservesOK
  <2>5. CASE scheme = "2GEIBR"
    <3>1. entry'[t][2] = loc[t].e /\ entry'[t][1] = entry[t][1] /\ loc[t].i = 2
      BY <2>1, <2>2, <2>5 DEF Index, PerSlot
    <3> QED
      BY <1>1, <1>2, <1>3, <2>1, <2>3, <2>4, <2>5, <3>1 DEF ReservesOK, Publishes, PerSlot
  <2>6. CASE scheme = "HE"
    <3>1. entry'[t][1] <= epoch /\ entry'[t][2] <= epoch
      BY <1>2, <2>2, <2>4, <2>6 DEF Index, ReservesOK
    <3> QED
      BY <1>1, <1>2, <1>3, <2>2, <2>1, <2>3, <2>4, <2>6, <3>1 DEF ReservesOK, Publishes, PerSlot
  <2> QED
    BY <2>1, <2>5, <2>6
<1>17. CASE HazardStore(t)
  <2>1. /\ Publish(t, loc[t].i, loc[t].ptr) /\ loc[t].ptr \in Reservation /\ loc[t].i \in Index
        /\ scheme = "Hazard" /\ loc[t].pc = "hazardStore" /\ loc[t].inside
    BY <1>2, <1>17 DEF HazardStore, At, ControlOK, Reservation, Local, ReadLabels
  <2>2. entry'[t][loc[t].i] = loc[t].ptr
    BY <1>7, <2>1
  <2> QED
    BY <1>1, <1>2, <1>17, <2>1, <2>2, HazardStoreDoes
       DEF HazardStore, ReservesOK, SameLocals, Publishes, PerSlot
<1>18. CASE HazardCheck(t)
  <2>1. loc[t].inside
    BY <1>2, <1>18, HazardCheckDoes DEF ControlOK
  <2> QED
    BY <1>1, <1>2, <1>3, <1>11, <1>18, <2>1, HazardCheckDoes
       DEF HazardCheck, ControlOK, ReservesOK, SameLocals
<1>19. CASE Unlink(t)
  BY <1>1, <1>2, <1>3, <1>19, UnlinkDoes DEF Unlink, ReservesOK, SameLocals
<1>20. CASE Retire(t)
  BY <1>1, <1>2, <1>3, <1>20, RetireDoes DEF Retire, ControlOK, ReservesOK, SameLocals
<1>21. CASE Copy(t)
  BY <1>1, <1>2, <1>3, <1>21, CopyDoes DEF Copy, ControlOK, ReservesOK, SameLocals
<1>22. ASSUME NEW b \in Objects, Free(t, b) PROVE ReservesOK(t)'
  BY <1>1, <1>2, <1>22 DEF ReservesOK, Free
<1>23. CASE EmptyEnd(t)
  BY <1>1, <1>2, <1>3, <1>23, EmptyEndDoes DEF EmptyEnd, ControlOK, ReservesOK, SameLocals
<1> QED
  BY <1>6, <1>8, <1>9, <1>10, <1>12, <1>13, <1>14, <1>15, <1>16, <1>17, <1>18, <1>19,
     <1>20, <1>21, <1>22, <1>23 DEF Step

\* What a step of t leaves to the others.
LEMMA StepOthers ==
    ASSUME TypeOK, ThreadInv, NEW t \in Threads, Step(t)
    PROVE  /\ scheme' = scheme /\ epoch' = epoch
           /\ \A u \in Threads : u # t => loc'[u] = loc[u] /\ entry'[u] = entry[u]
<1>1. scheme' = scheme /\ epoch' = epoch
  BY DEF Step, Start, StartStore, End, EndStore, ReadPlain, Read, ReadLoad, ReadEpoch,
         ReadPublish, HazardStore, HazardCheck, Unlink, Retire, Copy, Free, EmptyEnd
<1>2. Others(t)
  <2>1. \/ loc' = loc
        \/ \E l : Goes(t, l)
    BY DEF Step, Start, StartStore, End, EndStore, ReadPlain, Read, ReadLoad, ReadEpoch,
           ReadPublish, HazardStore, HazardCheck, Unlink, Retire, Copy, Free, EmptyEnd,
           Returns
  <2> QED
    BY <2>1, GoesTo DEF Others
<1>3. \A u \in Threads : u # t => entry'[u] = entry[u]
  <2>1. \/ entry' = entry
        \/ \E i, x : Publish(t, i, x)
    BY DEF Step, Start, StartStore, End, EndStore, ReadPlain, Read, ReadLoad, ReadEpoch,
           ReadPublish, HazardStore, HazardCheck, Unlink, Retire, Copy, Free, EmptyEnd
  <2>2. ASSUME NEW i, NEW x, Publish(t, i, x), NEW u \in Threads, u # t
        PROVE  entry'[u] = entry[u]
    BY <2>2 DEF Publish, TypeOK
  <2> QED
    BY <2>1, <2>2
<1> QED
  BY <1>1, <1>2, <1>3 DEF Others

\* Every step keeps what is known of every thread.
LEMMA ThreadStep == TypeOK /\ ThreadInv /\ [Next]_vars => ThreadInv'
<1> SUFFICES ASSUME TypeOK, ThreadInv, [Next]_vars, NEW u \in Threads
             PROVE  ControlOK(u)' /\ ReservesOK(u)'
  BY DEF ThreadInv
<1>1. ControlOK(u) /\ ReservesOK(u) /\ epoch \in Nat
  BY Numbers DEF ThreadInv
<1>2. ASSUME NEW t \in Threads, Step(t) PROVE ControlOK(u)' /\ ReservesOK(u)'
  <2>1. CASE t = u
    BY <1>2, <2>1, StepOthers, ControlStep, ReservesStep
  <2>2. CASE t # u
    BY <1>1, <1>2, <2>2, StepOthers, ThreadFrame
  <2> QED
    BY <2>1, <2>2
<1>3. CASE Tick \/ (\E b \in Objects : Alloc(b) \/ Link(b)) \/ UNCHANGED vars
  <2>1. scheme' = scheme /\ loc'[u] = loc[u] /\ entry'[u] = entry[u]
        /\ epoch' \in {epoch, epoch + 1}
    BY <1>3 DEF Tick, Alloc, Link, vars
  <2> QED
    BY <1>1, <2>1, ThreadFrame
<1> QED
  BY <1>2, <1>3 DEF Next

\* Threads start between two operations.
LEMMA InitThreads == Init => ThreadInv
<1> SUFFICES ASSUME Init, NEW t \in Threads PROVE ControlOK(t) /\ ReservesOK(t)
  BY DEF ThreadInv
<1>1. loc[t] = Locals(FALSE, NoHolds, FALSE) /\ scheme \in Schemes /\ epoch = FirstEpoch
  BY DEF Init
<1>2. entry[t][1] = None /\ entry[t][2] = None
  BY DEF Init, Index
<1>3. /\ loc[t].pc = "idle" /\ ~loc[t].inside /\ ~loc[t].ended /\ loc[t].i = 1
      /\ loc[t].holds = NoHolds /\ NoHolds[2] = {}
  BY <1>1 DEF Locals, NoHolds, Index
<1>4. ControlOK(t)
  BY <1>3 DEF ControlOK, ReadLabels
<1>5. epoch \in Nat /\ None \in Reservation /\ Infinity \in Nat /\ FirstEpoch \in Nat
  BY <1>1, Constants
<1>6. (scheme = "2GEIBR" => None = Infinity) /\ (scheme = "HE" => None = 0)
  BY DEF None
<1>7. ReservesOK(t)
  <2>1. scheme = "HE" => epoch = 1
    BY <1>1 DEF FirstEpoch
  <2>2. scheme \in {"RCU", "QSBR", "2GEIBR", "HE"} \/ scheme = "Hazard"
    BY <1>1, Constants DEF SchemeNames
  <2> QED
    <3>1. CASE scheme = "Hazard"
      BY <1>2, <1>3, <3>1 DEF ReservesOK, Publishes
    <3>2. CASE scheme = "HE"
      BY <1>2, <1>3, <1>6, <2>1, <3>2 DEF ReservesOK, Publishes
    <3>3. CASE scheme \in {"RCU", "QSBR", "2GEIBR"}
      BY <1>2, <1>3, <1>5, <1>6, <3>3 DEF ReservesOK, Publishes
    <3> QED
      BY <2>2, <3>1, <3>2, <3>3
<1> QED
  BY <1>4, <1>7

-----------------------------------------------------------------------------
(* The objects, and where each of them is.                                 *)

\* Between unlinking an object and having put it in its list, a thread is at
\* "retire"; no other step leads there, and no other step moves an object.
LEMMA StepObjects ==
    ASSUME TypeOK, ThreadInv, NEW t \in Threads, Step(t)
    PROVE  \/ Unlink(t) \/ Retire(t) \/ \E b \in Objects : Free(t, b)
           \/ UNCHANGED <<root, status, birth, retireEpoch, retired>> /\ loc'[t].pc # "retire"
<1> DEFINE Same == UNCHANGED <<root, status, birth, retireEpoch, retired>>
<1>1. CASE Start(t)
  BY <1>1, StartDoes DEF Start, object
<1>2. CASE StartStore(t)
  BY <1>2, StartStoreDoes DEF StartStore, object
<1>3. CASE End(t)
  BY <1>3, EndDoes DEF End, object
<1>4. CASE EndStore(t)
  BY <1>4, EndStoreDoes DEF EndStore, object
<1>5. CASE ReadPlain(t)
  <2>1. Returns(t, root) /\ root \in Ptr
    BY <1>5 DEF ReadPlain, TypeOK
  <2> QED
    BY <1>5, <2>1, ReturnsDoes DEF ReadPlain, object
<1>6. ASSUME NEW i \in Index, Read(t, i) PROVE Same /\ loc'[t].pc # "retire"
  BY <1>6, ReadDoes DEF Read, object
<1>7. CASE ReadLoad(t)
  BY <1>7, ReadLoadDoes DEF ReadLoad, object
<1>8. CASE ReadEpoch(t)
  BY <1>8, ReadEpochDoes, ReturnsDoes DEF ReadEpoch, object
<1>9. CASE ReadPublish(t)
  BY <1>9, ReadPublishDoes DEF ReadPublish, object
<1>10. CASE HazardStore(t)
  BY <1>10, HazardStoreDoes DEF HazardStore, object
<1>11. CASE HazardCheck(t)
  BY <1>11, HazardCheckDoes, ReturnsDoes DEF HazardCheck, object
<1>12. CASE Copy(t)
  BY <1>12, CopyDoes DEF Copy, object
<1>13. CASE EmptyEnd(t)
  BY <1>13, EmptyEndDoes DEF EmptyEnd, object
<1> QED
  BY <1>1, <1>2, <1>3, <1>4, <1>5, <1>6, <1>7, <1>8, <1>9, <1>10, <1>11, <1>12, <1>13 DEF Step

\* A step that moves no object.
LEMMA ObjectFrame ==
    ASSUME TypeOK, ObjectInv, UNCHANGED <<root, status, birth, retireEpoch, retired>>,
           epoch' \in Nat, epoch <= epoch',
           \A t \in Threads : loc'[t].pc = "retire" => loc'[t] = loc[t]
    PROVE  ObjectInv'
BY Constants DEF ObjectInv, At, TypeOK, Epoch

\* Every step leaves every object in one place.
LEMMA ObjectStep == TypeOK /\ ThreadInv /\ ObjectInv /\ [Next]_vars => ObjectInv'
<1> SUFFICES ASSUME TypeOK, ThreadInv, ObjectInv, [Next]_vars PROVE ObjectInv'
  OBVIOUS
<1>1. /\ epoch \in Nat /\ birth \in [Objects -> Epoch] /\ NULL \notin Objects
      /\ \A b \in Objects : birth[b] \in Nat
  BY Constants DEF TypeOK, Epoch
<1>2. CASE UNCHANGED vars
  BY <1>1, <1>2, ObjectFrame DEF vars
<1>3. CASE Tick
  BY <1>1, <1>3, ObjectFrame DEF Tick, object
<1>4. ASSUME NEW b \in Objects, Alloc(b) PROVE ObjectInv'
  <2>1. /\ status[b] = "freed" /\ status' = [status EXCEPT ![b] = "new"]
        /\ birth' = [birth EXCEPT ![b] = IF scheme \in {"2GEIBR", "HE"} THEN epoch ELSE 0]
        /\ UNCHANGED <<epoch, root, retired, loc>>
    BY <1>4 DEF Alloc
  <2>2. \A c \in Objects : /\ status'[c] = IF c = b THEN "new" ELSE status[c]
                           /\ birth'[c] <= epoch
    BY <1>1, <2>1 DEF TypeOK, ObjectInv
  <2> QED
    BY <2>1, <2>2 DEF ObjectInv, At
<1>5. ASSUME NEW b \in Objects, Link(b) PROVE ObjectInv'
  <2>1. /\ status[b] = "new" /\ root = NULL /\ root' = b
        /\ status' = [status EXCEPT ![b] = "linked"]
        /\ UNCHANGED <<epoch, birth, retired, loc>>
    BY <1>5 DEF Link
  <2>2. \A c \in Objects : status'[c] = IF c = b THEN "linked" ELSE status[c]
    BY <2>1 DEF TypeOK
  <2> QED
    BY <1>1, <2>1, <2>2 DEF ObjectInv, At
<1>6. ASSUME NEW t \in Threads, Unlink(t) PROVE ObjectInv'
  <2>1. /\ root \in Objects /\ root' = NULL /\ status' = [status EXCEPT ![root] = "retired"]
        /\ UNCHANGED <<epoch, birth, retired>>
        /\ loc'[t].pc = "retire" /\ loc'[t].ptr = root /\ Others(t)
    BY <1>6, UnlinkDoes DEF Unlink
  <2>2. \A c \in Objects : status'[c] = IF c = root THEN "retired" ELSE status[c]
    BY <2>1 DEF TypeOK
  <2>3. status[root] = "linked"
    BY <2>1 DEF ObjectInv
  <2>4. \A u \in Threads : root \notin retired[u] /\ ~(At(u, "retire") /\ loc[u].ptr = root)
    BY <2>1, <2>3 DEF ObjectInv
  <2>5. \A u \in Threads : At(u, "retire")' /\ loc'[u].ptr # root =>
          At(u, "retire") /\ loc'[u].ptr = loc[u].ptr
    BY <2>1 DEF At, Others
  <2>6. \A u \in Threads : At(u, "retire")' /\ loc'[u].ptr = root => u = t
    BY <2>1, <2>4 DEF At, Others
  <2> QED
    BY <1>1, <2>1, <2>2, <2>3, <2>4, <2>5, <2>6 DEF ObjectInv
<1>7. ASSUME NEW t \in Threads, Retire(t) PROVE ObjectInv'
  <2> DEFINE b == loc[t].ptr
  <2>1. /\ loc[t].pc = "retire" /\ loc'[t].pc # "retire" /\ Others(t)
        /\ retired' = [retired EXCEPT ![t] = @ \union {b}]
        /\ UNCHANGED <<epoch, root, status, birth>>
    BY <1>7, RetireDoes DEF Retire
  <2>2. \A u \in Threads : retired'[u] = IF u = t THEN retired[t] \union {b} ELSE retired[u]
    BY <2>1 DEF TypeOK
  <2>3. \A u \in Threads : At(u, "retire")' => u # t /\ At(u, "retire") /\ loc'[u] = loc[u]
    BY <2>1 DEF At, Others
  <2>4. At(t, "retire")
    BY <2>1 DEF At
  <2> QED
    BY <2>1, <2>2, <2>3, <2>4 DEF ObjectInv
<1>8. ASSUME NEW t \in Threads, NEW b \in Objects, Free(t, b) PROVE ObjectInv'
  <2>1. /\ b \in retired[t] /\ status' = [status EXCEPT ![b] = "freed"]
        /\ retired' = [retired EXCEPT ![t] = @ \ {b}]
        /\ birth' = [birth EXCEPT ![b] = 0]
        /\ UNCHANGED <<epoch, root, loc>>
    BY <1>8 DEF Free
  <2>2. \A u \in Threads : retired'[u] = IF u = t THEN retired[t] \ {b} ELSE retired[u]
    BY <2>1 DEF TypeOK
  <2>3. \A c \in Objects : /\ status'[c] = IF c = b THEN "freed" ELSE status[c]
                           /\ birth'[c] = IF c = b THEN 0 ELSE birth[c]
    BY <2>1 DEF TypeOK
  <2>4. /\ status[b] = "retired" /\ \A u \in Threads : b \in retired[u] => u = t
        /\ \A u \in Threads : ~(At(u, "retire") /\ loc[u].ptr = b)
    BY <2>1 DEF ObjectInv
  <2> QED
    BY <1>1, <2>1, <2>2, <2>3, <2>4 DEF ObjectInv, At
<1>9. ASSUME NEW t \in Threads, Step(t) PROVE ObjectInv'
  <2>1. CASE /\ UNCHANGED <<root, status, birth, retireEpoch, retired>>
             /\ loc'[t].pc # "retire"
    BY <1>1, <1>9, <2>1, StepOthers, ObjectFrame
  <2> QED
    BY <1>6, <1>7, <1>8, <1>9, <2>1, StepObjects
<1> QED
  BY <1>2, <1>3, <1>4, <1>5, <1>9 DEF Next

-----------------------------------------------------------------------------
(* Claims, and how a step changes them.                                    *)

InUse(t, i, b) == (scheme = "QSBR" => loc[t].ended) /\ b \in loc[t].holds[i]
InReach(t, i, b) == Pending(t) /\ i = SlotOf(t) /\ b = loc[t].ptr

\* A claim is to an object in use, or to one that is within reach.
LEMMA ClaimsAre ==
    ASSUME NEW t, NEW i, NEW b
    PROVE  /\ b \in Claims(t, i) <=> InUse(t, i, b) \/ InReach(t, i, b)
           /\ b \in Claims(t, i)' <=> InUse(t, i, b)' \/ InReach(t, i, b)'
<1>1. b \in Claims(t, i) <=> InUse(t, i, b) \/ InReach(t, i, b)
  BY DEF Claims, InUse, InReach, SlotOf
<1>2. b \in Claims(t, i)' <=> InUse(t, i, b)' \/ InReach(t, i, b)'
  BY DEF Claims, InUse, InReach, SlotOf
<1> QED
  BY <1>1, <1>2

\* A thread with a claim is inside; a claim is under a reservation that the
\* scheme has.
LEMMA ClaimsInside ==
    ASSUME TypeOK, ThreadInv, NEW t \in Threads, NEW i \in Index, NEW b \in Claims(t, i)
    PROVE  loc[t].inside /\ (~PerSlot => i = 1) /\ b \in Objects
<1>1. ControlOK(t) /\ loc[t] \in Local
  BY Numbers DEF ThreadInv
<1>2. CASE InUse(t, i, b)
  BY <1>1, <1>2 DEF ControlOK, InUse, Local, NoHolds, Index
<1>3. CASE InReach(t, i, b)
  BY <1>1, <1>3 DEF ControlOK, InReach, Pending, At, SlotOf, Local, Ptr
<1> QED
  BY <1>2, <1>3, ClaimsAre

\* A step of another thread changes no claim.
LEMMA ClaimsSame ==
    ASSUME NEW t, NEW i, loc'[t] = loc[t], scheme' = scheme, epoch' = epoch
    PROVE  Claims(t, i)' = Claims(t, i)
BY DEF Claims, Pending, At, PerSlot

\* What t reads while it is linked is protected from then on.
Acquires(t, i, b) ==
    /\ UNCHANGED <<entry, status, birth, retireEpoch, retired>>
    /\ b \in Objects /\ b = root
    /\ scheme \in {"2GEIBR", "HE"} => birth[b] <= Reserved(t, i)
    /\ scheme = "HE" => Reserved(t, i) # 0
    /\ scheme = "Hazard" => Reserved(t, i) = b

\* The reservation i of t goes on covering what it did.
Covers(t, i) ==
    IF scheme = "2GEIBR" THEN entry'[t][1] = entry[t][1] /\ entry[t][2] <= entry'[t][2]
    ELSE entry'[t][i] = entry[t][i]

\* A step that publishes nothing.
LEMMA CoversSame ==
    ASSUME TypeOK, entry' = entry, NEW t \in Threads, NEW i \in Index
    PROVE  Covers(t, i)
BY Numbers DEF Covers

\* read adds no more than the pointer it returns.
LEMMA ReturnsClaims ==
    ASSUME TypeOK, scheme' = scheme, NEW t \in Threads, NEW b \in Ptr, Returns(t, b),
           NEW i \in Index, NEW c \in Claims(t, i)'
    PROVE  c \in Claims(t, i) \/ (c = b /\ b # NULL /\ i = SlotOf(t))
<1>1. /\ loc'[t].pc = "idle" /\ loc'[t].ended = loc[t].ended
      /\ \A j \in Index : j # SlotOf(t) => loc'[t].holds[j] = loc[t].holds[j]
      /\ loc'[t].holds[SlotOf(t)] =
           loc[t].holds[SlotOf(t)] \union (IF b = NULL THEN {} ELSE {b})
  BY ReturnsDoes
<1>2. InUse(t, i, c)'
  BY <1>1, ClaimsAre DEF InReach, Pending, At
<1> QED
  BY <1>1, <1>2, ClaimsAre DEF InUse

\* A claim after a step of t was one before, and is as well covered, or has
\* just been acquired: ReadEpoch only turns what is within reach into what is in
\* use, and what ReadPublish and HazardStore overwrite nothing is claimed under.
LEMMA StepClaims ==
    ASSUME TypeOK, ThreadInv, ObjectInv, NEW t \in Threads, Step(t),
           NEW i \in Index, NEW b \in Claims(t, i)'
    PROVE  (b \in Claims(t, i) /\ Covers(t, i)) \/ Acquires(t, i, b)
<1>1. scheme' = scheme /\ epoch' = epoch
  BY StepOthers
<1>2. ControlOK(t) /\ ReservesOK(t) /\ loc[t] \in Local /\ loc[t].i \in Index
  BY Numbers DEF ThreadInv, Index
<1>3. PerSlot' = PerSlot /\ Publishes' = Publishes
  BY <1>1, SameScheme
<1>4. InUse(t, i, b)' \/ InReach(t, i, b)'
  BY ClaimsAre
<1>5. ASSUME InUse(t, i, b)', loc'[t].ended = loc[t].ended, loc'[t].holds = loc[t].holds
      PROVE  b \in Claims(t, i)
  BY <1>1, <1>5, ClaimsAre DEF InUse
<1>6. entry' = entry => Covers(t, i)
  BY CoversSame
<1>7. ASSUME entry' = entry, loc'[t].pc # "readEpoch", SameLocals(t)
      PROVE  b \in Claims(t, i) /\ Covers(t, i)
  BY <1>4, <1>5, <1>6, <1>7 DEF InReach, Pending, At, SameLocals
<1>8. CASE Start(t)
  BY <1>4, <1>5, <1>6, <1>8, StartDoes DEF Start, InReach, Pending, At
<1>9. ASSUME loc'[t].pc = "idle" \/ loc'[t].pc = "startStore" \/ loc'[t].pc = "endStore",
             loc'[t].holds = NoHolds
      PROVE  FALSE
  BY <1>4, <1>9 DEF InReach, Pending, At, InUse, NoHolds, Index
<1>10. CASE StartStore(t)
  BY <1>2, <1>9, <1>10, StartStoreDoes DEF ControlOK
<1>11. CASE End(t)
  BY <1>9, <1>11, EndDoes
<1>12. CASE EndStore(t)
  BY <1>2, <1>9, <1>12, EndStoreDoes DEF ControlOK
<1>13. CASE ReadPlain(t)
  <2>1. /\ Returns(t, root) /\ root \in Ptr /\ ~Publishes
        /\ UNCHANGED <<entry, status, birth, retireEpoch, retired>>
    BY <1>13 DEF ReadPlain, TypeOK, object
  <2>2. b \in Claims(t, i) \/ (b = root /\ root # NULL)
    BY <1>1, <2>1, ReturnsClaims
  <2> QED
    BY <1>6, <2>1, <2>2 DEF Acquires, Ptr, Publishes
<1>14. ASSUME NEW j \in Index, Read(t, j) PROVE b \in Claims(t, i) /\ Covers(t, i)
  <2>1. InUse(t, i, b)' /\ entry' = entry
    BY <1>4, <1>14, ReadDoes DEF Read, InReach, Pending, At
  <2>2. b \in loc[t].holds[i]
    BY <1>14, <2>1, ReadDoes DEF InUse
  <2> QED
    BY <1>1, <1>6, <1>14, <2>1, <2>2, ReadDoes, ClaimsAre DEF InUse
<1>15. CASE ReadLoad(t)
  <2>1. /\ loc'[t].ptr = root /\ loc'[t].e = loc[t].e /\ loc'[t].i = loc[t].i
        /\ SameLocals(t) /\ loc[t].pc = "readLoad"
        /\ UNCHANGED <<entry, status, birth, retireEpoch, retired>>
        /\ loc'[t].pc = IF scheme = "Hazard" THEN "hazardStore" ELSE "readEpoch"
    BY <1>15, ReadLoadDoes DEF ReadLoad, object
  <2>2. CASE InUse(t, i, b)'
    BY <1>5, <1>6, <2>1, <2>2 DEF SameLocals
  <2>3. CASE InReach(t, i, b)'
    <3>1. /\ scheme \in {"2GEIBR", "HE"} /\ loc[t].e = epoch /\ root # NULL /\ b = root
          /\ i = SlotOf(t)
      BY <1>1, <1>2, <1>3, <2>1, <2>3, Constants
         DEF InReach, Pending, At, SlotOf, ControlOK, ReadLabels, Publishes, TypeOK
    <3>2. loc[t].e = entry[t][loc[t].i] /\ loc[t].i = IF PerSlot THEN SlotOf(t) ELSE 2
      BY <1>2, <2>1, <3>1 DEF ReservesOK, ControlOK, ReadLabels, SlotOf
    <3>3. Reserved(t, i) = epoch
      BY <3>1, <3>2 DEF Reserved, PerSlot
    <3>4. b \in Objects /\ birth[b] <= epoch
      BY <3>1 DEF TypeOK, Ptr, ObjectInv
    <3>5. scheme = "HE" => epoch # 0
      BY Constants DEF TypeOK, FirstEpoch
    <3> QED
      BY <2>1, <3>1, <3>3, <3>4, <3>5 DEF Acquires
  <2> QED
    BY <1>4, <2>2, <2>3
<1>16. CASE ReadEpoch(t)
  <2>1. entry' = entry /\ loc[t].pc = "readEpoch"
    BY <1>16, ReadEpochDoes DEF ReadEpoch
  <2>2. CASE epoch = loc[t].e /\ Returns(t, loc[t].ptr) /\ loc[t].ptr \in Ptr
    <3>1. b \in Claims(t, i) \/ (b = loc[t].ptr /\ loc[t].ptr # NULL /\ i = SlotOf(t))
      BY <1>1, <2>2, ReturnsClaims
    <3>2. b \in Claims(t, i)
      BY <2>1, <2>2, <3>1, ClaimsAre DEF InReach, Pending, At
    <3> QED
      BY <1>6, <2>1, <3>2
  <2> QED
    BY <1>7, <1>16, <2>1, <2>2, ReadEpochDoes
<1>17. CASE ReadPublish(t)
  <2>1. /\ Publish(t, loc[t].i, loc[t].e) /\ loc[t].e \in Reservation
        /\ loc[t].pc = "readPublish" /\ loc'[t].pc = "readLoad" /\ SameLocals(t)
        /\ scheme \in {"2GEIBR", "HE"}
    BY <1>2, <1>17, ReadPublishDoes DEF ReadPublish, ControlOK, Reservation, Local
  <2>2. /\ entry'[t][loc[t].i] = loc[t].e
        /\ \A j \in Index : j # loc[t].i => entry'[t][j] = entry[t][j]
    BY <1>2, <2>1, Publishing
  <2>3. InUse(t, i, b)' /\ b \in Claims(t, i) /\ b \in loc[t].holds[i]
    BY <1>4, <1>5, <2>1 DEF InReach, Pending, At, SameLocals, InUse
  <2>4. CASE scheme = "HE"
    <3>1. i # loc[t].i
      BY <1>2, <2>1, <2>3, <2>4 DEF ControlOK, ReadLabels, PerSlot
    <3> QED
      BY <2>2, <2>3, <2>4, <3>1 DEF Covers
  <2>5. CASE scheme = "2GEIBR"
    <3>1. loc[t].i = 2
      BY <1>2, <2>1, <2>5 DEF ControlOK, ReadLabels, PerSlot
    <3>2. entry[t][2] <= loc[t].e
      BY <1>2, <2>1, <3>1 DEF ReservesOK
    <3> QED
      BY <2>2, <2>3, <2>5, <3>1, <3>2 DEF Covers, Index
  <2> QED
    BY <2>1, <2>4, <2>5
<1>18. CASE HazardStore(t)
  <2>1. /\ Publish(t, loc[t].i, loc[t].ptr) /\ loc[t].ptr \in Reservation
        /\ loc[t].pc = "hazardStore" /\ loc'[t].pc = "hazardCheck" /\ SameLocals(t)
        /\ scheme = "Hazard"
    BY <1>2, <1>18, HazardStoreDoes DEF HazardStore, ControlOK, Reservation, Local
  <2>2. \A j \in Index : j # loc[t].i => entry'[t][j] = entry[t][j]
    BY <1>2, <2>1, Publishing
  <2>3. InUse(t, i, b)' /\ b \in Claims(t, i) /\ b \in loc[t].holds[i]
    BY <1>4, <1>5, <2>1 DEF InReach, Pending, At, SameLocals, InUse
  <2>4. i # loc[t].i
    BY <1>2, <2>1, <2>3 DEF ControlOK, ReadLabels, PerSlot
  <2> QED
    BY <2>1, <2>2, <2>3, <2>4 DEF Covers
<1>19. CASE HazardCheck(t)
  <2>1. /\ loc[t].pc = "hazardCheck" /\ scheme = "Hazard"
        /\ UNCHANGED <<entry, status, birth, retireEpoch, retired>>
    BY <1>2, <1>19, HazardCheckDoes DEF HazardCheck, ControlOK, object
  <2>2. CASE root = loc[t].ptr /\ Returns(t, root) /\ root \in Ptr
    <3>1. b \in Claims(t, i) \/ (b = root /\ root # NULL /\ i = SlotOf(t))
      BY <1>1, <2>2, ReturnsClaims
    <3>2. entry[t][SlotOf(t)] = root
      BY <1>2, <2>1, <2>2 DEF ReservesOK, SlotOf, PerSlot
    <3> QED
      BY <1>6, <2>1, <2>2, <3>1, <3>2 DEF Acquires, Reserved, Ptr
  <2> QED
    BY <1>7, <1>19, <2>1, <2>2, HazardCheckDoes
<1>20. CASE Unlink(t)
  BY <1>7, <1>20, UnlinkDoes DEF Unlink
<1>21. CASE Retire(t)
  BY <1>7, <1>21, RetireDoes DEF Retire
<1>22. CASE Copy(t)
  BY <1>7, <1>22, CopyDoes DEF Copy
<1>23. ASSUME NEW c \in Objects, Free(t, c) PROVE b \in Claims(t, i) /\ Covers(t, i)
  BY <1>1, <1>6, <1>23, ClaimsSame DEF Free
<1>24. CASE EmptyEnd(t)
  BY <1>7, <1>24, EmptyEndDoes DEF EmptyEnd
<1> QED
  BY <1>8, <1>10, <1>11, <1>12, <1>13, <1>14, <1>15, <1>16, <1>17, <1>18, <1>19, <1>20,
     <1>21, <1>22, <1>23, <1>24 DEF Step

\* A claim after a step of Next was one before and is as well covered, or has
\* just been acquired.
LEMMA NextClaims ==
    ASSUME TypeOK, ThreadInv, ObjectInv, [Next]_vars, NEW t \in Threads, NEW i \in Index,
           NEW b \in Claims(t, i)'
    PROVE  (b \in Claims(t, i) /\ Covers(t, i)) \/ Acquires(t, i, b)
<1>1. ASSUME NEW u \in Threads, Step(u)
      PROVE  (b \in Claims(t, i) /\ Covers(t, i)) \/ Acquires(t, i, b)
  <2>1. CASE u = t
    BY <1>1, <2>1, StepClaims
  <2>2. CASE u # t
    <3>1. loc'[t] = loc[t] /\ entry'[t] = entry[t] /\ scheme' = scheme /\ epoch' = epoch
      BY <1>1, <2>2, StepOthers
    <3>2. b \in Claims(t, i)
      BY <3>1, ClaimsSame
    <3> QED
      BY <3>1, <3>2, Numbers DEF Covers
  <2> QED
    BY <2>1, <2>2
<1>2. CASE Tick
  <2>1. scheme' = scheme /\ epoch' = epoch + 1 /\ loc' = loc /\ entry' = entry
    BY <1>2 DEF Tick
  <2>2. ~InReach(t, i, b)'
    <3>1. SUFFICES ASSUME Pending(t)' PROVE FALSE
      BY DEF InReach
    <3>2. loc[t].pc = "readEpoch" /\ loc[t].e = epoch + 1 /\ loc[t].i \in {1, 2}
      BY <2>1, <3>1, Numbers DEF Pending, At
    <3>3. ControlOK(t) /\ ReservesOK(t) /\ epoch \in Nat
      BY Numbers DEF ThreadInv
    <3>4. scheme \in {"2GEIBR", "HE"} /\ loc[t].e = entry[t][loc[t].i]
          /\ (~PerSlot => loc[t].i = 2)
      BY <3>2, <3>3 DEF ControlOK, ReservesOK, ReadLabels
    <3>5. loc[t].inside
      BY <3>2, <3>3 DEF ControlOK
    <3>6. entry[t][loc[t].i] <= epoch
      BY <3>2, <3>3, <3>4, <3>5 DEF ReservesOK, PerSlot
    <3> QED
      BY <3>2, <3>3, <3>4, <3>6
  <2>3. b \in Claims(t, i)
    BY <2>1, <2>2, ClaimsAre DEF InUse
  <2> QED
    BY <2>1, <2>3, CoversSame
<1>3. CASE (\E c \in Objects : Alloc(c) \/ Link(c)) \/ UNCHANGED vars
  <2>1. scheme' = scheme /\ epoch' = epoch /\ loc' = loc /\ entry' = entry
    BY <1>3 DEF Alloc, Link, vars
  <2> QED
    BY <2>1, ClaimsSame, CoversSame
<1> QED
  BY <1>1, <1>2, <1>3 DEF Next

-----------------------------------------------------------------------------
(* What is claimed is there, and stays reserved.                           *)

\* What the step does to an object that was claimed before it and still is.
Leaves(b) ==
    /\ status'[b] \in {"linked", "retired"} /\ birth'[b] = birth[b]
    /\ retireEpoch'[b] = retireEpoch[b]
    /\ \A v \in Threads : b \in retired'[v] => b \in retired[v]

\* What is known of a claim stays, unless its object is put in a list.
LEMMA ClaimFrame ==
    ASSUME TypeOK, ThreadInv, ObjectInv, ClaimInv, scheme' = scheme, TypeOK',
           NEW t \in Threads, NEW i \in Index, NEW b \in Objects,
           (b \in Claims(t, i) /\ Covers(t, i) /\ Leaves(b)) \/ Acquires(t, i, b)
    PROVE  /\ status'[b] \in {"linked", "retired"}
           /\ scheme \in {"2GEIBR", "HE"} => birth'[b] <= Reserved(t, i)'
           /\ scheme = "HE" => Reserved(t, i)' # 0
           /\ scheme = "Hazard" => Reserved(t, i)' = b
           /\ \A v \in Threads : b \in retired'[v] => Keeps(entry[t][1], Reserved(t, i), b)'
<1>1. CASE Acquires(t, i, b)
  <2>1. /\ UNCHANGED <<entry, status, birth, retireEpoch, retired>> /\ b = root
        /\ Reserved(t, i)' = Reserved(t, i)
    BY <1>1 DEF Acquires, Reserved
  <2>2. status[b] = "linked" /\ \A v \in Threads : b \notin retired[v]
    BY <2>1 DEF ObjectInv
  <2> QED
    BY <1>1, <2>1, <2>2 DEF Acquires
<1>2. CASE b \in Claims(t, i) /\ Covers(t, i) /\ Leaves(b)
  <2> DEFINE r == Reserved(t, i)
             q == Reserved(t, i)'
  <2>1. /\ status[b] \in {"linked", "retired"}
        /\ scheme \in {"2GEIBR", "HE"} => birth[b] <= r
        /\ scheme = "HE" => r # 0
        /\ scheme = "Hazard" => r = b
        /\ \A v \in Threads : b \in retired[v] => Keeps(entry[t][1], r, b)
    BY <1>2 DEF ClaimInv
  <2>2. scheme # "2GEIBR" => q = r
    BY <1>2 DEF Covers, Reserved
  <2>3. scheme = "2GEIBR" => r <= q /\ entry'[t][1] = entry[t][1]
    BY <1>2 DEF Covers, Reserved
  <2>4. /\ birth[b] \in Nat
        /\ scheme = "2GEIBR" => r \in Nat
        /\ birth'[b] = birth[b] /\ retireEpoch'[b] = retireEpoch[b]
    BY <1>2, Numbers DEF TypeOK, Epoch, Leaves, Reserved
  <2>5. scheme = "2GEIBR" => q \in Nat
    <3>1. entry' \in [Threads -> [Index -> Reservation]] /\ Infinity \in Nat
      BY SameScheme, Numbers DEF TypeOK
    <3> QED
      BY <3>1 DEF Reserved, Reservation, Epoch, Index
  <2>6. ASSUME NEW v \in Threads, b \in retired'[v]
        PROVE  Keeps(entry[t][1], Reserved(t, i), b)'
    <3>1. Keeps(entry[t][1], r, b)
      BY <1>2, <2>1, <2>6 DEF Leaves
    <3>2. CASE scheme = "2GEIBR"
      BY <2>3, <2>4, <2>5, <3>1, <3>2 DEF Keeps, Keeps2GEIBR
    <3>3. CASE scheme # "2GEIBR"
      <4>1. Keeps(entry[t][1], Reserved(t, i), b)' <=> Keeps(entry[t][1], r, b)
        BY <2>2, <2>4, <3>3 DEF Keeps, KeepsRCU, KeepsHE, KeepsHazard
      <4> QED
        BY <3>1, <4>1
    <3> QED
      BY <3>2, <3>3
  <2> QED
    BY <1>2, <2>1, <2>2, <2>3, <2>4, <2>5, <2>6 DEF Leaves
<1> QED
  BY <1>1, <1>2

\* What a thread frees, no thread claims: it has copied all the reservations.
LEMMA FreesUnclaimed ==
    ASSUME ScanInv, NEW v \in Threads, NEW b \in Objects, Free(v, b),
           NEW t \in Threads, NEW i \in Index
    PROVE  b \notin Claims(t, i)
BY DEF Free, ScanInv, Passed

\* An object that is put in a list is kept by every reservation it is claimed
\* under: it was born no later than the reservation was published, and that was
\* no later than now.
LEMMA RetireKeeps ==
    ASSUME TypeOK, ThreadInv, ClaimInv, NEW u \in Threads, Retire(u),
           NEW t \in Threads, NEW i \in Index, NEW b \in Claims(t, i), b = loc[u].ptr
    PROVE  Keeps(entry[t][1], Reserved(t, i), b)'
<1>1. /\ b \in Objects /\ loc[t].inside /\ (~PerSlot => i = 1)
      /\ ControlOK(t) /\ ReservesOK(t) /\ scheme \in SchemeNames
  BY ClaimsInside, Constants DEF ThreadInv, TypeOK
<1>2. /\ scheme' = scheme /\ entry' = entry /\ birth' = birth
      /\ retireEpoch'[b] = IF scheme = "Hazard" THEN 0 ELSE epoch
  BY <1>1 DEF Retire, TypeOK
<1>3. /\ scheme \in {"2GEIBR", "HE"} => birth[b] <= Reserved(t, i)
      /\ scheme = "HE" => Reserved(t, i) # 0
      /\ scheme = "Hazard" => Reserved(t, i) = b
  BY DEF ClaimInv
<1>4. Reserved(t, i)' = Reserved(t, i)
  BY <1>2 DEF Reserved
<1>5. CASE scheme \in {"RCU", "QSBR"}
  <2>1. i = 1 /\ (scheme = "QSBR" => loc[t].ended)
    <3>1. InUse(t, i, b)
      BY <1>1, <1>5, ClaimsAre DEF InReach, Pending, At, ControlOK
    <3> QED
      BY <1>1, <1>5, <3>1 DEF InUse, PerSlot
  <2>2. Reserved(t, i) <= epoch
    BY <1>1, <1>5, <2>1 DEF ReservesOK, Reserved
  <2> QED
    BY <1>2, <1>4, <1>5, <2>2 DEF Keeps, KeepsRCU
<1>6. CASE scheme = "2GEIBR"
  <2>1. entry[t][1] <= epoch
    BY <1>1, <1>6, Numbers DEF ReservesOK
  <2> QED
    BY <1>2, <1>3, <1>4, <1>6, <2>1 DEF Keeps, Keeps2GEIBR
<1>7. CASE scheme = "HE"
  <2>1. Reserved(t, i) <= epoch /\ Reserved(t, i) \in Nat /\ birth[b] \in Nat /\ epoch \in Nat
    BY <1>1, <1>7, Numbers DEF ReservesOK, Reserved, Index, TypeOK, Epoch
  <2>2. Reserved(t, i) \in birth[b] .. epoch
    BY <1>3, <1>7, <2>1
  <2> QED
    BY <1>2, <1>3, <1>4, <1>7, <2>2 DEF Keeps, KeepsHE
<1>8. CASE scheme = "Hazard"
  BY <1>2, <1>3, <1>4, <1>8 DEF Keeps, KeepsHazard
<1> QED
  BY <1>1, <1>5, <1>6, <1>7, <1>8 DEF SchemeNames

\* Every step keeps what is claimed reserved.
LEMMA ClaimStep == IInv /\ TypeOK' /\ [Next]_vars => ClaimInv'
<1> SUFFICES ASSUME TypeOK, ThreadInv, ObjectInv, ClaimInv, ScanInv, TypeOK', [Next]_vars
             PROVE  ClaimInv'
  BY DEF IInv
<1>1. scheme' = scheme
  BY StepOthers DEF Next, Tick, Alloc, Link, vars
<1> SUFFICES ASSUME NEW t \in Threads, NEW i \in Index, NEW b \in Claims(t, i)'
             PROVE  /\ b \in Objects /\ status'[b] \in {"linked", "retired"}
                    /\ scheme \in {"2GEIBR", "HE"} => birth'[b] <= Reserved(t, i)'
                    /\ scheme = "HE" => Reserved(t, i)' # 0
                    /\ scheme = "Hazard" => Reserved(t, i)' = b
                    /\ \A v \in Threads : b \in retired'[v] =>
                         Keeps(entry[t][1], Reserved(t, i), b)'
  <2>1. Threads' = Threads /\ Index' = Index /\ Objects' = Objects
    BY DEF Threads, Index
  <2> QED
    BY <1>1, <2>1, Zenon DEF ClaimInv
<1>2. (b \in Claims(t, i) /\ Covers(t, i)) \/ Acquires(t, i, b)
  BY NextClaims
<1>3. b \in Objects
  BY <1>2, ClaimsInside DEF Acquires
<1>4. Acquires(t, i, b) \/ Leaves(b) \/ \E u \in Threads : Retire(u) /\ b = loc[u].ptr
  <2> SUFFICES ASSUME b \in Claims(t, i)
               PROVE  Leaves(b) \/ \E u \in Threads : Retire(u) /\ b = loc[u].ptr
    BY <1>2
  <2>1. status[b] \in {"linked", "retired"}
    BY DEF ClaimInv
  <2>2. UNCHANGED <<status, birth, retireEpoch, retired>> => Leaves(b)
    BY <2>1 DEF Leaves
  <2>3. CASE Tick \/ UNCHANGED vars
    BY <2>2, <2>3 DEF Tick, vars, object
  <2>4. ASSUME NEW c \in Objects, Alloc(c) \/ Link(c) PROVE Leaves(b)
    <3>1. b # c
      BY <2>1, <2>4 DEF Alloc, Link
    <3> QED
      BY <1>3, <2>1, <2>4, <3>1 DEF Alloc, Link, TypeOK, Leaves
  <2>5. ASSUME NEW u \in Threads, Unlink(u) PROVE Leaves(b)
    BY <1>3, <2>1, <2>5 DEF Unlink, TypeOK, Leaves
  <2>6. ASSUME NEW u \in Threads, Retire(u), b # loc[u].ptr PROVE Leaves(b)
    BY <1>3, <2>1, <2>6 DEF Retire, TypeOK, Leaves
  <2>7. ASSUME NEW u \in Threads, NEW c \in Objects, Free(u, c) PROVE Leaves(b)
    <3>1. b # c
      BY <2>7, FreesUnclaimed
    <3>2. /\ status' = [status EXCEPT ![c] = "freed"]
          /\ birth' = [birth EXCEPT ![c] = 0] /\ retireEpoch' = [retireEpoch EXCEPT ![c] = 0]
          /\ retired' = [retired EXCEPT ![u] = @ \ {c}]
      BY <2>7 DEF Free
    <3>3. /\ status'[b] = status[b] /\ birth'[b] = birth[b]
          /\ retireEpoch'[b] = retireEpoch[b]
      BY <1>3, <3>1, <3>2 DEF TypeOK
    <3>4. \A v \in Threads : b \in retired'[v] => b \in retired[v]
      BY <3>2 DEF TypeOK
    <3> QED
      BY <2>1, <3>3, <3>4 DEF Leaves
  <2>8. ASSUME NEW u \in Threads, Step(u)
        PROVE  Leaves(b) \/ (Retire(u) /\ b = loc[u].ptr)
    BY <2>2, <2>5, <2>6, <2>7, <2>8, StepObjects
  <2> QED
    BY <2>3, <2>4, <2>8 DEF Next
<1>5. CASE Acquires(t, i, b) \/ Leaves(b)
  <2>1. (b \in Claims(t, i) /\ Covers(t, i) /\ Leaves(b)) \/ Acquires(t, i, b)
    BY <1>2, <1>5
  <2> QED
    BY <1>1, <1>3, <2>1, ClaimFrame
<1>6. ASSUME NEW u \in Threads, Retire(u), b = loc[u].ptr, b \in Claims(t, i)
      PROVE  /\ status'[b] \in {"linked", "retired"}
             /\ scheme \in {"2GEIBR", "HE"} => birth'[b] <= Reserved(t, i)'
             /\ scheme = "HE" => Reserved(t, i)' # 0
             /\ scheme = "Hazard" => Reserved(t, i)' = b
             /\ \A v \in Threads : b \in retired'[v] => Keeps(entry[t][1], Reserved(t, i), b)'
  <2>1. status' = status /\ birth' = birth /\ entry' = entry
    BY <1>6 DEF Retire
  <2>2. Reserved(t, i)' = Reserved(t, i)
    BY <1>1, <2>1 DEF Reserved
  <2> QED
    BY <1>6, <2>1, <2>2, RetireKeeps DEF ClaimInv
<1> QED
  BY <1>2, <1>3, <1>4, <1>5, <1>6

-----------------------------------------------------------------------------
(* What a scan has passed it keeps.                                        *)

Scanning(v) == loc[v].pc \in {"copy", "sweep"}

\* All steps but those of Copy and Retire.
LEMMA ScanFrame ==
    ASSUME TypeOK, ObjectInv, ScanInv, scheme' = scheme,
           NEW v \in Threads, NEW t \in Threads, NEW i \in Index, NEW b \in Objects,
           b \in retired[v], retireEpoch'[b] = retireEpoch[b],
           b \in Claims(t, i) \/ Acquires(t, i, b),
           Scanning(v)' => loc'[v] = loc[v]
    PROVE  /\ Passed(v, t, i)' => b \in loc'[v].kept
           /\ scheme = "2GEIBR" /\ At(v, "copy")' /\ loc'[v].next = t /\ loc'[v].i = 2 =>
                loc'[v].e <= retireEpoch'[b]
<1>1. b \in Claims(t, i)
  BY DEF Acquires, ObjectInv
<1>2. CASE Scanning(v)'
  <2>1. loc'[v] = loc[v] /\ PerSlot' = PerSlot
    BY <1>2, SameScheme
  <2> QED
    BY <1>1, <2>1 DEF ScanInv, Passed, At
<1>3. CASE ~Scanning(v)'
  BY <1>3 DEF Passed, At, Scanning
<1> QED
  BY <1>2, <1>3

\* The reservation that is copied keeps what is claimed under it, although the
\* two ends of an interval are copied at different times: a lower end once
\* copied stays below the retire epoch of what is claimed.
LEMMA CopyKeeps ==
    ASSUME TypeOK, ThreadInv, ClaimInv, ScanInv, NEW v \in Threads, Copy(v),
           NEW t \in Threads, NEW i \in Index, NEW b \in Claims(t, i), b \in retired[v]
    PROVE  /\ Passed(v, t, i)' => b \in loc'[v].kept
           /\ scheme = "2GEIBR" /\ At(v, "copy")' /\ loc'[v].next = t /\ loc'[v].i = 2 =>
                loc'[v].e <= retireEpoch'[b]
<1>1. /\ scheme' = scheme /\ retireEpoch' = retireEpoch /\ loc[v].pc = "copy"
      /\ loc[v] \in Local /\ loc[v].next \in Threads /\ loc[v].i \in Index
      /\ ControlOK(v) /\ scheme \in SchemeNames
  BY Numbers, Constants DEF Copy, At, Local, ThreadInv, Index, TypeOK, object
<1>2. PerSlot' = PerSlot /\ (PerSlot => Publishes) /\ (scheme = "2GEIBR" => Publishes)
  BY <1>1, SameScheme DEF PerSlot, Publishes
<1>3. Keeps(entry[t][1], Reserved(t, i), b)
  BY DEF ClaimInv
<1>4. /\ b \in Objects /\ (~PerSlot => i = 1)
      /\ Passed(v, t, i) => b \in loc[v].kept
      /\ scheme = "2GEIBR" /\ loc[v].next = t /\ loc[v].i = 2 => loc[v].e <= retireEpoch[b]
  BY <1>1, ClaimsInside DEF ScanInv, At
<1>5. ASSUME t = loc[v].next, IF scheme = "2GEIBR" THEN loc[v].i = 2 ELSE i = loc[v].i
      PROVE  b \in KeptFor(v)
  <2>1. Reserved(t, i) = entry[t][loc[v].i]
    BY <1>5 DEF Reserved
  <2>2. CASE scheme = "2GEIBR"
    BY <1>3, <1>4, <1>5, <2>1, <2>2 DEF Keeps, Keeps2GEIBR, KeptFor
  <2>3. CASE scheme # "2GEIBR"
    <3>1. Keeps(loc[v].e, entry[t][loc[v].i], b)
      BY <1>3, <2>1, <2>3 DEF Keeps
    <3> QED
      BY <1>5, <3>1 DEF KeptFor
  <2> QED
    BY <2>2, <2>3
<1>6. CASE loc[v].i = 1 /\ Publishes
  <2>1. /\ loc'[v].pc = "copy" /\ loc'[v].i = 2 /\ loc'[v].next = loc[v].next
        /\ scheme = "2GEIBR" => /\ loc'[v].e = entry[loc[v].next][1]
                                /\ loc'[v].kept = loc[v].kept
        /\ scheme # "2GEIBR" => loc'[v].kept = loc[v].kept \union KeptFor(v)
    BY <1>6, CopyDoes
  <2>2. Passed(v, t, i)' => Passed(v, t, i) \/ (PerSlot /\ t = loc[v].next /\ i = 1)
    BY <1>1, <1>2, <2>1 DEF Passed, At, Index
  <2>3. Passed(v, t, i)' => b \in loc'[v].kept
    BY <1>4, <1>5, <1>6, <2>1, <2>2 DEF PerSlot
  <2>4. scheme = "2GEIBR" /\ loc[v].next = t => entry[t][1] <= retireEpoch[b]
    BY <1>3 DEF Keeps, Keeps2GEIBR
  <2> QED
    BY <1>1, <2>1, <2>3, <2>4
<1>7. CASE ~(loc[v].i = 1 /\ Publishes)
  <2>1. /\ loc[v].i = 1 => ~Publishes
        /\ scheme = "2GEIBR" => loc[v].i = 2
        /\ loc'[v].kept = loc[v].kept \union KeptFor(v)
        /\ loc'[v].i = 1
        /\ \/ /\ loc[v].next + 1 < NumThreads /\ loc'[v].pc = "copy"
              /\ loc'[v].next = loc[v].next + 1
           \/ /\ loc[v].next + 1 = NumThreads /\ loc'[v].pc = "sweep"
    BY <1>7, CopyDoes
  <2>2. Passed(v, t, i)' => t <= loc[v].next
    BY <1>1, <2>1, Constants DEF Passed, At, Threads, Index, TypeOK
  <2>3. t < loc[v].next => Passed(v, t, i)
    BY <1>1 DEF Passed, At
  <2>4. t = loc[v].next => Passed(v, t, i) \/ b \in KeptFor(v)
    <3>1. CASE PerSlot
      <4>1. loc[v].i = 2
        BY <1>1, <1>2, <1>7, <3>1 DEF Index
      <4> QED
        BY <1>1, <1>5, <3>1, <4>1 DEF Passed, At, Index, PerSlot
    <3>2. CASE scheme = "2GEIBR"
      BY <1>5, <2>1, <3>2
    <3>3. CASE ~PerSlot /\ scheme # "2GEIBR"
      <4>1. loc[v].i = 1
        BY <1>1, <3>3 DEF ControlOK, Publishes, PerSlot
      <4> QED
        BY <1>4, <1>5, <3>3, <4>1
    <3> QED
      BY <3>1, <3>2, <3>3
  <2> QED
    BY <1>1, <1>4, <2>1, <2>2, <2>3, <2>4, Constants DEF Threads, TypeOK
<1> QED
  BY <1>6, <1>7

\* Every step keeps the claims of those a scan has passed.
LEMMA ScanStep == IInv /\ [Next]_vars => ScanInv'
<1> SUFFICES ASSUME TypeOK, ThreadInv, ObjectInv, ClaimInv, ScanInv, [Next]_vars
             PROVE  ScanInv'
  BY DEF IInv
<1>1. scheme' = scheme
  BY StepOthers DEF Next, Tick, Alloc, Link, vars
<1> SUFFICES ASSUME NEW v \in Threads, NEW t \in Threads, NEW i \in Index,
                    NEW b \in Claims(t, i)', b \in retired'[v]
             PROVE  /\ Passed(v, t, i)' => b \in loc'[v].kept
                    /\ scheme = "2GEIBR" /\ At(v, "copy")' /\ loc'[v].next = t
                         /\ loc'[v].i = 2 => loc'[v].e <= retireEpoch'[b]
  <2>1. Threads' = Threads /\ Index' = Index
    BY DEF Threads, Index
  <2> QED
    BY <1>1, <2>1, Zenon DEF ScanInv
<1> DEFINE Goal == /\ Passed(v, t, i)' => b \in loc'[v].kept
                   /\ scheme = "2GEIBR" /\ At(v, "copy")' /\ loc'[v].next = t
                        /\ loc'[v].i = 2 => loc'[v].e <= retireEpoch'[b]
<1>2. b \in Claims(t, i) \/ Acquires(t, i, b)
  BY NextClaims
<1>3. b \in Objects
  BY <1>2, ClaimsInside DEF Acquires
<1>4. ASSUME b \in retired[v], retireEpoch'[b] = retireEpoch[b],
             Scanning(v)' => loc'[v] = loc[v]
      PROVE  Goal
  BY <1>1, <1>2, <1>3, <1>4, ScanFrame
<1> HIDE DEF Goal
<1>5. CASE Tick \/ UNCHANGED vars
  <2>1. retired' = retired /\ retireEpoch' = retireEpoch /\ loc' = loc
    BY <1>5 DEF Tick, vars, object
  <2> QED
    BY <1>4, <2>1 DEF Goal
<1>6. ASSUME NEW c \in Objects, Alloc(c) \/ Link(c) PROVE Goal
  <2>1. retired' = retired /\ retireEpoch' = retireEpoch /\ loc' = loc
    BY <1>6 DEF Alloc, Link
  <2> QED
    BY <1>4, <2>1
<1>7. ASSUME NEW u \in Threads, Unlink(u) PROVE Goal
  <2>1. loc'[u].pc = "retire" /\ Others(u)
    BY <1>7, UnlinkDoes
  <2>2. Scanning(v)' => loc'[v] = loc[v]
    BY <2>1 DEF Scanning, Others
  <2> QED
    BY <1>4, <1>7, <2>2 DEF Unlink
<1>8. ASSUME NEW u \in Threads, Retire(u) PROVE Goal
  <2> DEFINE c == loc[u].ptr
  <2>1. /\ Others(u) /\ loc'[u].i = 1 /\ loc'[u].next = 0 /\ loc'[u].pc # "sweep"
        /\ loc[u].pc = "retire"
        /\ retired' = [retired EXCEPT ![u] = @ \union {c}]
        /\ retireEpoch' = [retireEpoch EXCEPT ![c] = IF scheme = "Hazard" THEN 0 ELSE epoch]
    BY <1>8, RetireDoes DEF Retire
  <2>2. CASE v = u
    <3>1. ~Passed(v, t, i)' /\ loc'[v].i # 2
      BY <2>1, <2>2 DEF Passed, At, Threads, Index
    <3> QED
      BY <3>1 DEF Goal
  <2>3. CASE v # u
    <3>1. b \in retired[v] /\ loc'[v] = loc[v]
      BY <2>1, <2>3 DEF TypeOK, Others
    <3>2. b # c
      BY <1>3, <2>1, <3>1 DEF ObjectInv, At
    <3>3. retireEpoch'[b] = retireEpoch[b]
      BY <1>3, <2>1, <3>2 DEF TypeOK
    <3> QED
      BY <1>4, <3>1, <3>3
  <2> QED
    BY <2>2, <2>3
<1>9. ASSUME NEW u \in Threads, NEW c \in Objects, Free(u, c) PROVE Goal
  <2>1. /\ retired' = [retired EXCEPT ![u] = @ \ {c}] /\ c \in retired[u]
        /\ retireEpoch' = [retireEpoch EXCEPT ![c] = 0] /\ loc' = loc
    BY <1>9 DEF Free
  <2>2. b \in retired[v] /\ (v = u => b # c)
    BY <2>1 DEF TypeOK
  <2>3. b # c
    BY <2>1, <2>2 DEF ObjectInv
  <2>4. retireEpoch'[b] = retireEpoch[b]
    BY <1>3, <2>1, <2>3 DEF TypeOK
  <2> QED
    BY <1>4, <2>1, <2>2, <2>4
<1>10. ASSUME NEW u \in Threads, Copy(u) PROVE Goal
  <2>1. /\ UNCHANGED <<entry, status, birth, retireEpoch, retired>> /\ Others(u)
    BY <1>10, CopyDoes DEF Copy, object
  <2>2. CASE v = u
    <3>1. b \in Claims(t, i)
      BY <1>2, <2>1 DEF Acquires, ObjectInv
    <3> QED
      BY <1>10, <2>1, <2>2, <3>1, CopyKeeps DEF Goal
  <2>3. CASE v # u
    BY <1>4, <2>1, <2>3 DEF Others
  <2> QED
    BY <2>2, <2>3
<1>11. ASSUME NEW u \in Threads, Step(u) PROVE Goal
  <2>1. CASE /\ UNCHANGED <<root, status, birth, retireEpoch, retired>>
             /\ Scanning(u)' => loc'[u] = loc[u]
    <3>1. loc'[v] = loc[v] \/ v = u
      BY <1>11, StepOthers
    <3> QED
      BY <1>4, <2>1, <3>1
  <2>2. CASE Start(u) \/ StartStore(u) \/ End(u) \/ EndStore(u)
    BY ZenonT(60), <2>1, <2>2, StartDoes, StartStoreDoes, EndDoes, EndStoreDoes
       DEF Start, StartStore, End, EndStore, object, Scanning
  <2>3. ASSUME NEW c \in Ptr, Returns(u, c),
               UNCHANGED <<root, status, birth, retireEpoch, retired>>
        PROVE  Goal
    BY <2>1, <2>3, ReturnsDoes DEF Scanning
  <2>4. CASE ReadPlain(u) \/ ReadEpoch(u) \/ HazardCheck(u)
    <3>1. UNCHANGED <<root, status, birth, retireEpoch, retired>>
      BY <2>4 DEF ReadPlain, ReadEpoch, HazardCheck, object
    <3>2. \/ \E c \in Ptr : Returns(u, c)
          \/ loc'[u].pc \in {"readPublish", "readLoad"}
      BY <2>4, ReadEpochDoes, HazardCheckDoes DEF ReadPlain, TypeOK
    <3> QED
      BY <2>1, <2>3, <3>1, <3>2 DEF Scanning
  <2>5. CASE (\E j \in Index : Read(u, j)) \/ ReadLoad(u) \/ ReadPublish(u) \/ HazardStore(u)
    BY <2>1, <2>5, ReadDoes, ReadLoadDoes, ReadPublishDoes, HazardStoreDoes
       DEF Read, ReadLoad, ReadPublish, HazardStore, object, Scanning
  <2>6. CASE EmptyEnd(u)
    BY <2>1, <2>6, EmptyEndDoes DEF EmptyEnd, object, Scanning
  <2> QED
    BY <1>7, <1>8, <1>9, <1>10, <1>11, <2>2, <2>4, <2>5, <2>6 DEF Step
<1> QED
  BY <1>5, <1>6, <1>11 DEF Next, Goal

-----------------------------------------------------------------------------
(* The theorems.                                                           *)

\* The invariant holds at the start.
LEMMA InitInv == Init => IInv
<1> SUFFICES ASSUME Init PROVE IInv
  OBVIOUS
<1>1. TypeOK /\ ThreadInv
  BY InitType, InitThreads
<1>2. /\ \A b \in Objects : status[b] = "freed" /\ birth[b] = 0
      /\ \A t \in Threads : retired[t] = {}
      /\ root = NULL /\ NULL \notin Objects /\ epoch \in Nat
  BY <1>1, Constants, Numbers DEF Init, TypeOK, FirstEpoch
<1>3. \A t \in Threads : loc[t].pc = "idle" /\ \A i \in Index : loc[t].holds[i] = {}
  BY DEF Init, Locals, NoHolds
<1>4. ObjectInv
  BY <1>2, <1>3 DEF ObjectInv, At
<1>5. \A t \in Threads, i \in Index : Claims(t, i) = {}
  BY <1>3 DEF Claims, Pending, At
<1> QED
  BY <1>1, <1>4, <1>5 DEF IInv, ClaimInv, ScanInv

\* The inductive invariant holds in every reachable state.
THEOREM Invariance == Spec => []IInv
<1>1. IInv /\ [Next]_vars => IInv'
  BY TypeStep, ThreadStep, ObjectStep, ClaimStep, ScanStep DEF IInv
<1> QED
  BY <1>1, InitInv, PTL DEF Spec

\* The variables keep their types, and the loops over reservations their range.
THEOREM TypeCorrect == Spec => []TypeOK
BY Invariance, PTL DEF IInv

\* A thread between two operations reserves nothing.
THEOREM NothingOutside == Spec => []OutsideReservesNothing
<1>1. IInv => OutsideReservesNothing
  <2> SUFFICES ASSUME IInv, NEW t \in Threads, At(t, "idle"), ~loc[t].inside, scheme # "QSBR"
               PROVE  entry[t] = [i \in Index |-> None]
    BY DEF OutsideReservesNothing
  <2>1. entry[t][1] = None /\ entry[t][2] = None
    BY DEF IInv, ThreadInv, ReservesOK, At
  <2>2. entry[t] \in [Index -> Reservation]
    BY DEF IInv, TypeOK
  <2> QED
    BY <2>1, <2>2 DEF Index
<1> QED
  BY <1>1, Invariance, PTL

\* No interval of 2GEIBR is ever inside out.
THEOREM InOrder == Spec => []IntervalsInOrder
<1>1. IInv => IntervalsInOrder
  BY DEF IInv, ThreadInv, ReservesOK, IntervalsInOrder
<1> QED
  BY <1>1, Invariance, PTL

-----------------------------------------------------------------------------
(* The refinement of SafePointers.                                         *)

HoldsNow == [t \in Threads |-> Holds(t)]

\* What a thread holds, by slots.
LEMMA HoldsAre ==
    ASSUME NEW t \in Threads, NEW b
    PROVE  /\ b \in Holds(t) <=> \E i \in Index : InUse(t, i, b)
           /\ b \in Holds(t)' <=> \E i \in Index : InUse(t, i, b)'
           /\ HoldsNow[t] = Holds(t) /\ HoldsNow'[t] = Holds(t)'
<1>1. b \in Holds(t) <=> \E i \in Index : InUse(t, i, b)
  BY DEF Holds, InUse
<1>2. b \in Holds(t)' <=> \E i \in Index : InUse(t, i, b)'
  BY DEF Holds, InUse
<1>3. HoldsNow[t] = Holds(t) /\ HoldsNow'[t] = Holds(t)'
  BY DEF HoldsNow, Threads
<1> QED
  BY <1>1, <1>2, <1>3

\* What a thread holds it claims.
LEMMA HoldsClaimed ==
    ASSUME TypeOK, ThreadInv, ClaimInv, NEW t \in Threads, NEW b \in Holds(t)
    PROVE  /\ b \in Objects /\ status[b] \in {"linked", "retired"}
           /\ \E i \in Index : b \in Claims(t, i)
BY HoldsAre, ClaimsAre DEF ClaimInv

\* A step of t that gives up some of what t holds and changes nothing else.
LEMMA Gives ==
    ASSUME NEW t \in Threads, status' = status,
           \A u \in Threads : u # t => Holds(u)' = Holds(u),
           \A b : b \in Holds(t)' => b \in Holds(t)
    PROVE  Pointers!Release(t)
<1>1. HoldsNow' = [HoldsNow EXCEPT ![t] = Holds(t)']
  BY HoldsAre DEF HoldsNow, Threads
<1>2. Holds(t)' \in SUBSET HoldsNow[t]
  BY HoldsAre
<1> QED
  BY <1>1, <1>2 DEF Pointers!Release, HoldsNow

\* A step of t that gains a pointer and changes nothing else.
LEMMA Gains ==
    ASSUME NEW t \in Threads, status' = status,
           \A u \in Threads : u # t => Holds(u)' = Holds(u),
           NEW b \in Objects, status[b] \in {"linked", "retired"},
           \A c : c \in Holds(t)' <=> c \in Holds(t) \/ c = b
    PROVE  Pointers!Read(t, b)
<1>1. HoldsNow' = [HoldsNow EXCEPT ![t] = Holds(t)']
  BY HoldsAre DEF HoldsNow, Threads
<1>2. Holds(t)' = HoldsNow[t] \union {b}
  BY HoldsAre
<1>3. HoldsNow' = [HoldsNow EXCEPT ![t] = HoldsNow[t] \union {b}]
  BY <1>1, <1>2
<1> QED
  BY <1>3 DEF Pointers!Read, HoldsNow

\* read gives its thread one pointer more, or none.
LEMMA ReturnsHolds ==
    ASSUME TypeOK, scheme' = scheme, NEW t \in Threads, NEW b \in Ptr, Returns(t, b)
    PROVE  \/ \A c : c \in Holds(t)' => c \in Holds(t)
           \/ b \in Objects /\ \A c : c \in Holds(t)' <=> c \in Holds(t) \/ c = b
<1>1. /\ loc'[t].ended = loc[t].ended /\ SlotOf(t) \in Index
      /\ \A j \in Index : j # SlotOf(t) => loc'[t].holds[j] = loc[t].holds[j]
      /\ loc'[t].holds[SlotOf(t)] =
           loc[t].holds[SlotOf(t)] \union (IF b = NULL THEN {} ELSE {b})
  BY ReturnsDoes, Numbers DEF SlotOf, Index
<1>2. CASE b = NULL \/ ~(scheme = "QSBR" => loc[t].ended)
  <2>1. \A c : \A j \in Index : InUse(t, j, c)' => InUse(t, j, c)
    BY <1>1, <1>2 DEF InUse
  <2> QED
    BY <2>1, HoldsAre
<1>3. CASE b # NULL /\ (scheme = "QSBR" => loc[t].ended)
  <2>1. \A c : (\E j \in Index : InUse(t, j, c)') <=> (\E j \in Index : InUse(t, j, c)) \/ c = b
    BY <1>1, <1>3 DEF InUse
  <2> QED
    BY <1>3, <2>1, HoldsAre DEF Ptr
<1> QED
  BY <1>2, <1>3

\* Every step is one of SafePointers, or changes neither who holds what nor
\* what became of the objects.
LEMMA PointersStep ==
    IInv /\ IInv' /\ [Next]_vars => [Pointers!Next]_(Pointers!vars)
<1> SUFFICES ASSUME TypeOK, ThreadInv, ObjectInv, ClaimInv, ScanInv, ThreadInv', [Next]_vars
             PROVE  Pointers!Next \/ (status' = status /\ HoldsNow' = HoldsNow)
  BY DEF IInv, Pointers!vars, HoldsNow
<1>1. ASSUME status' = status, \A u \in Threads : Holds(u)' = Holds(u)
      PROVE  status' = status /\ HoldsNow' = HoldsNow
  <2>1. HoldsNow' = [t \in Threads |-> Holds(t)']
    BY DEF HoldsNow, Threads
  <2>2. [t \in Threads |-> Holds(t)'] = [t \in Threads |-> Holds(t)]
    BY <1>1
  <2> QED
    BY <1>1, <2>1, <2>2 DEF HoldsNow
<1>2. ASSUME NEW u \in Threads, loc'[u] = loc[u], scheme' = scheme
      PROVE  Holds(u)' = Holds(u)
  BY <1>2 DEF Holds
<1>3. CASE Tick \/ UNCHANGED vars
  <2>1. scheme' = scheme /\ status' = status /\ loc' = loc
    BY <1>3 DEF Tick, vars, object
  <2> QED
    BY <1>1, <1>2, <2>1
<1>4. ASSUME loc' = loc, scheme' = scheme
      PROVE  HoldsNow' = HoldsNow
  <2>1. HoldsNow' = [t \in Threads |-> Holds(t)']
    BY DEF HoldsNow, Threads
  <2>2. \A t \in Threads : Holds(t)' = Holds(t)
    BY <1>2, <1>4
  <2>3. [t \in Threads |-> Holds(t)'] = [t \in Threads |-> Holds(t)]
    BY <2>2
  <2> QED
    BY <2>1, <2>3 DEF HoldsNow
<1>5. ASSUME NEW b \in Objects, Alloc(b) \/ Link(b) PROVE Pointers!Next
  <2>1. HoldsNow' = HoldsNow
    BY <1>4, <1>5 DEF Alloc, Link
  <2>2. Pointers!Alloc(b) \/ Pointers!Link(b)
    BY <1>5, <2>1
       DEF Alloc, Link, Pointers!Alloc, Pointers!Link, Pointers!Becomes, HoldsNow
  <2> QED
    BY <2>2 DEF Pointers!Next
<1>6. ASSUME NEW t \in Threads, Step(t)
      PROVE  Pointers!Next \/ (status' = status /\ HoldsNow' = HoldsNow)
  <2> DEFINE Goal == Pointers!Next \/ (status' = status /\ HoldsNow' = HoldsNow)
  <2>1. /\ scheme' = scheme
        /\ \A u \in Threads : u # t => Holds(u)' = Holds(u)
    BY <1>2, <1>6, StepOthers
  <2>2. ASSUME NEW b \in Objects, Free(t, b) PROVE Goal
    <3>1. \A u \in Threads : b \notin Holds(u)
      BY <2>2, FreesUnclaimed, HoldsClaimed
    <3>2. \A u \in Threads : b \notin HoldsNow[u]
      BY <3>1, HoldsAre
    <3>3. HoldsNow' = HoldsNow
      BY <1>4, <2>2 DEF Free
    <3>4. status[b] = "retired" /\ status' = [status EXCEPT ![b] = "freed"]
      BY <2>2 DEF Free, ObjectInv
    <3>5. Pointers!Free(b)
      BY <3>2, <3>3, <3>4 DEF Pointers!Free, Pointers!Becomes, HoldsNow
    <3> QED
      BY <3>5 DEF Pointers!Next
  <2>3. ASSUME SameLocals(t) PROVE HoldsNow' = HoldsNow
    <3>1. Holds(t)' = Holds(t)
      BY <2>1, <2>3 DEF Holds, SameLocals
    <3>2. [u \in Threads |-> Holds(u)'] = [u \in Threads |-> Holds(u)]
      BY <2>1, <3>1
    <3> QED
      BY <3>2 DEF HoldsNow, Threads
  <2>4. CASE Unlink(t)
    <3>1. /\ root \in Objects /\ status[root] = "linked"
          /\ status' = [status EXCEPT ![root] = "retired"]
      BY <2>4, UnlinkDoes DEF Unlink, ObjectInv
    <3>2. HoldsNow' = HoldsNow
      BY <2>3, <2>4, UnlinkDoes
    <3>3. Pointers!Retire(root)
      BY <3>1, <3>2 DEF Pointers!Retire, Pointers!Becomes, HoldsNow
    <3> QED
      BY <3>1, <3>3 DEF Pointers!Next
  <2>5. CASE status' = status /\ SameLocals(t)
    BY <2>3, <2>5
  <2>6. CASE status' = status /\ \A b : b \in Holds(t)' => b \in Holds(t)
    <3>1. Pointers!Release(t)
      BY <2>1, <2>6, Gives
    <3> QED
      BY <3>1 DEF Pointers!Next
  <2>7. ASSUME NEW b \in Ptr, Returns(t, b), status' = status,
               b \in Objects => status[b] \in {"linked", "retired"}
        PROVE  Goal
    <3>1. CASE b \in Objects /\ \A c : c \in Holds(t)' <=> c \in Holds(t) \/ c = b
      <4>1. Pointers!Read(t, b)
        BY <2>1, <2>7, <3>1, Gains
      <4> QED
        BY <3>1, <4>1 DEF Pointers!Next
    <3> QED
      BY <2>1, <2>6, <2>7, <3>1, ReturnsHolds
  <2>8. ASSUME loc'[t].holds = loc[t].holds, loc'[t].ended = loc[t].ended, status' = status
        PROVE  Goal
    <3>1. \A b : b \in Holds(t)' => b \in Holds(t)
      BY <2>1, <2>8 DEF Holds
    <3> QED
      BY <2>6, <2>8, <3>1
  <2>9. ASSUME loc'[t].holds = NoHolds, status' = status
        PROVE  Goal
    <3>1. \A b : b \notin Holds(t)'
      BY <2>9, HoldsAre DEF InUse, NoHolds, Index
    <3> QED
      BY <2>6, <2>9, <3>1
  <2>10. CASE Start(t) \/ StartStore(t)
    BY <2>8, <2>10, StartDoes, StartStoreDoes DEF Start, StartStore, object
  <2>11. CASE End(t)
    BY <2>9, <2>11, EndDoes DEF End, object
  <2>12. CASE EndStore(t)
    <3>1. loc[t].holds = NoHolds
      BY <2>12, EndStoreDoes DEF ThreadInv, ControlOK
    <3> QED
      BY <2>9, <2>12, <3>1, EndStoreDoes DEF EndStore, object
  <2>13. CASE ReadPlain(t)
    <3>1. root \in Ptr /\ Returns(t, root) /\ status' = status
          /\ (root \in Objects => status[root] = "linked")
      BY <2>13 DEF ReadPlain, TypeOK, object, ObjectInv
    <3> QED
      BY <2>7, <3>1
  <2>14. ASSUME NEW i \in Index, Read(t, i) PROVE Goal
    <3>1. \A b : \A j \in Index : InUse(t, j, b)' => InUse(t, j, b)
      BY <2>1, <2>14, ReadDoes DEF InUse
    <3> QED
      BY <2>6, <2>14, <3>1, HoldsAre DEF Read, object
  <2>15. CASE ReadEpoch(t)
    <3>1. status' = status /\ loc[t].pc = "readEpoch"
      BY <2>15, ReadEpochDoes DEF ReadEpoch, object
    <3>2. CASE epoch = loc[t].e /\ Returns(t, loc[t].ptr) /\ loc[t].ptr \in Ptr
      <4>1. loc[t].ptr \in Objects => InReach(t, SlotOf(t), loc[t].ptr) /\ SlotOf(t) \in Index
        BY <3>1, <3>2, Numbers, Constants DEF InReach, Pending, At, SlotOf, Index, TypeOK
      <4>2. loc[t].ptr \in Objects => status[loc[t].ptr] \in {"linked", "retired"}
        BY <4>1, ClaimsAre DEF ClaimInv
      <4> QED
        BY <2>7, <3>1, <3>2, <4>2
    <3> QED
      BY <2>5, <2>15, <3>1, <3>2, ReadEpochDoes
  <2>16. CASE HazardCheck(t)
    <3>1. status' = status /\ root \in Ptr /\ (root \in Objects => status[root] = "linked")
      BY <2>16 DEF HazardCheck, object, TypeOK, ObjectInv
    <3> QED
      BY <2>5, <2>7, <2>16, <3>1, HazardCheckDoes
  <2>17. CASE ReadLoad(t) \/ ReadPublish(t) \/ HazardStore(t)
    BY <2>5, <2>17, ReadLoadDoes, ReadPublishDoes, HazardStoreDoes
       DEF ReadLoad, ReadPublish, HazardStore, object
  <2>18. CASE Retire(t) \/ Copy(t) \/ EmptyEnd(t)
    BY <2>5, <2>18, RetireDoes, CopyDoes, EmptyEndDoes DEF Retire, Copy, EmptyEnd, object
  <2> QED
    BY <1>6, <2>2, <2>4, <2>10, <2>11, <2>12, <2>13, <2>14, <2>15, <2>16, <2>17, <2>18 DEF Step
<1> QED
  BY <1>3, <1>5, <1>6, <1>1 DEF Next

\* Under each of the schemes, what a thread has read is not freed before it
\* gives it up.
THEOREM Implements == Spec => ImplementsSafePointers
<1>1. Init => Pointers!Init
  <2> SUFFICES ASSUME Init PROVE Pointers!Init
    OBVIOUS
  <2>1. \A t \in Threads : Holds(t) = {}
    BY DEF Init, Holds, Locals, NoHolds
  <2>2. [t \in Threads |-> Holds(t)] = [t \in Threads |-> {}]
    BY <2>1
  <2> QED
    BY <2>2 DEF Init, Pointers!Init
<1> QED
  BY <1>1, PointersStep, Invariance, PTL DEF Spec, ImplementsSafePointers, Pointers!Spec
=============================================================================
