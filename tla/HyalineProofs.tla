---------------------------- MODULE HyalineProofs -----------------------------
(***************************************************************************)
(* Hyaline is safe for every number of slots and threads, every set of     *)
(* batches, both kinds of compare-and-swap and every use of trim: the      *)
(* invariant IInv of module Hyaline is inductive, and the scheme           *)
(* implements SafeReclaim.                                                 *)
(*                                                                         *)
(* The first half looks at one thread at a time: every step keeps the      *)
(* types, and every step keeps the pointers of every thread in agreement   *)
(* with the decrements it still owes.  The second half is about what the   *)
(* counters stand for, the counts of the slots, and the grace of a batch   *)
(* against the slots it is in.                                             *)
(***************************************************************************)
EXTENDS HyalineSlots, HyalineLemmas, FiniteSetTheorems

-----------------------------------------------------------------------------
(* What the pointers of a thread in the middle of a call lead to.          *)

\* The assumptions on the constants as the lemmas about words need them.
LEMMA Constants ==
    /\ Mod \in Nat \ {0} /\ NumSlots \in Nat \ {0} /\ Share \in Nat \ {0}
    /\ Mod = NumSlots * Share /\ Share <= Mod /\ (NumSlots = 1 <=> Share = Mod)
    /\ NULL \notin Batches
    /\ IsFiniteSet(Threads) /\ Cardinality(Threads) \in Nat
    /\ Cardinality(Threads) < Share
    /\ (NumSlots - 1) * Cardinality(Threads) < Share
    /\ 0 \in Slots /\ 0 \in Word /\ MinusOne \in Word
    /\ Addend = IF NumSlots = 1 THEN 0 ELSE Share
    /\ Addend \in Word
<1>1. /\ Mod \in Nat \ {0} /\ NumSlots \in Nat \ {0} /\ Mod % NumSlots = 0
      /\ NULL \notin Batches
      /\ IsFiniteSet(Threads) /\ Cardinality(Threads) < Share
      /\ (NumSlots - 1) * Cardinality(Threads) < Share
  BY HyalineAssumption
<1>2. Share \in Nat \ {0} /\ Mod = NumSlots * Share /\ (Mod - 1) \div NumSlots + 1 = Share
  BY <1>1, Division DEF Share
<1>3. Cardinality(Threads) \in Nat
  BY <1>1, FS_CardinalityType
<1>4. NumSlots = 1 <=> Share = Mod
  BY <1>1, <1>2
<1>5. Addend = IF NumSlots = 1 THEN 0 ELSE Share
  BY <1>2, <1>4 DEF Addend
<1>6. Share <= Mod
  BY <1>1, <1>2
<1> QED
  BY <1>1, <1>2, <1>3, <1>4, <1>5, <1>6 DEF Slots, Word, MinusOne

\* A thread in its slot: with anything retired since it came, the head is a
\* batch, and so is the handle once there is more in the list.
LEMMA HoldsHead ==
    ASSUME TypeOK, ThreadInv, NEW t \in Threads, In(t), head[vec[t]].ptr # smr[t]
    PROVE  /\ head[vec[t]].ptr \in Batches
           /\ ~InSeq(head[vec[t]].ptr, held[t])
           /\ Chain(next, vec[t], held[t], next[head[vec[t]].ptr][vec[t]], smr[t])
BY DEF ThreadInv, ThreadOK, HeldOK, TypeOK, HeadWord, Ptr

\* A thread whose handle is at the head of its slot has no batch ahead.
LEMMA HoldsNothing ==
    ASSUME TypeOK, ThreadInv, NEW t \in Threads, In(t), head[vec[t]].ptr = smr[t]
    PROVE  held[t] = <<>>
BY DEF ThreadInv, ThreadOK, HeldOK

\* What can be followed in the slot of u: the batches it owes and, while it is
\* in the slot, the head.
Linked(u, b) == Owes(u, b) \/ (In(u) /\ head[vec[u]].ptr = b)

\* leave has loaded a head that is not its handle.
LEMMA LeavesHead ==
    ASSUME TypeOK, ThreadInv, NEW t \in Threads, pc[t] \in {"leaveRead", "leaveCas"},
           last[t].ptr # smr[t]
    PROVE  last[t].ptr \in Batches /\ Linked(t, last[t].ptr)
<1>1. In(t)
  BY DEF In
<1>2. last[t].ptr = head[vec[t]].ptr \/ InSeq(last[t].ptr, held[t])
  BY DEF ThreadInv, ThreadOK, LeavesOK
<1>3. CASE last[t].ptr = head[vec[t]].ptr
  BY <1>1, <1>3, HoldsHead DEF Linked
<1>4. CASE InSeq(last[t].ptr, held[t])
  <2>1. held[t] \in Seq(Batches)
    BY DEF TypeOK
  <2> QED
    BY <1>4, <2>1, ElementOfSeq DEF Linked, Owes, InSeq
<1> QED
  BY <1>2, <1>3, <1>4

\* A handle is the last of what lies below the head.
LEMMA HoldsHandle ==
    ASSUME TypeOK, ThreadInv, NEW t \in Threads, In(t), smr[t] # NULL,
           head[vec[t]].ptr # smr[t]
    PROVE  InSeq(smr[t], held[t])
<1> DEFINE q == held[t]
           e == smr[t]
           p == next[head[vec[t]].ptr][vec[t]]
<1>1. q \in Seq(Batches) /\ Chain(next, vec[t], q, p, e) /\ e # NULL
  BY HoldsHead DEF TypeOK
<1> HIDE DEF q, e, p
<1>2. q # <<>> /\ q[Len(q)] = e
  BY <1>1 DEF Chain
<1>3. Len(q) \in 1 .. Len(q)
  BY <1>1, <1>2, EmptySeq
<1>4. InSeq(e, q)
  BY <1>2, <1>3 DEF InSeq
<1> QED
  BY <1>4 DEF e, q

\* The handle of a thread that trims is linked.
LEMMA TrimsHandle ==
    ASSUME TypeOK, ThreadInv, NEW t \in Threads, pc[t] = "trimRead"
    PROVE  smr[t] \in Batches /\ Linked(t, smr[t])
<1>1. In(t) /\ smr[t] # NULL /\ smr[t] \in Ptr
  BY DEF ThreadInv, ThreadOK, ControlOK, WalksOK, In, TypeOK
<1>2. head[vec[t]].ptr # smr[t] => InSeq(smr[t], held[t])
  BY <1>1, HoldsHandle
<1> QED
  BY <1>1, <1>2 DEF Linked, Owes, Ptr

\* traverse is about to read the next node: the null pointer is the end.
LEMMA ReadsTodo ==
    ASSUME TypeOK, ThreadInv, NEW t \in Threads, pc[t] = "travRead"
    PROVE  /\ walk[t].nxt = NULL => todo[t] = <<>>
           /\ walk[t].nxt # NULL => /\ todo[t] # <<>>
                                    /\ walk[t].nxt = todo[t][1]
                                    /\ walk[t].nxt \in Batches
<1> DEFINE n == walk[t].nxt
           e == walk[t].end
<1>1. Chain(next, vec[t], todo[t], n, e) /\ todo[t] \in Seq(Batches)
  BY DEF ThreadInv, ThreadOK, WalksOK, TypeOK
<1> HIDE DEF n, e
<1>2. todo[t] # <<>> => n = todo[t][1] /\ n \in Batches
  BY ZenonT(90), <1>1, ChainTail, Constants
<1>3. todo[t] = <<>> => n = NULL
  BY <1>1 DEF Chain
<1> QED
  BY <1>2, <1>3, Constants DEF n

\* traverse is about to decrement the first batch it still has to come to.
LEMMA DropsTodo ==
    ASSUME TypeOK, ThreadInv, NEW t \in Threads, pc[t] = "travDrop"
    PROVE  /\ todo[t] # <<>> /\ todo[t] \in Seq(Batches)
           /\ walk[t].curr = todo[t][1] /\ walk[t].curr \in Batches
           /\ Tail(todo[t]) \in Seq(Batches)
           /\ IF walk[t].curr = walk[t].end
              THEN Tail(todo[t]) = <<>>
              ELSE Chain(next, vec[t], Tail(todo[t]), walk[t].nxt, walk[t].end)
<1> DEFINE c == walk[t].curr
           n == walk[t].nxt
           e == walk[t].end
           s == vec[t]
<1>1. /\ Chain(next, s, todo[t], c, e)
      /\ todo[t] \in Seq(Batches) /\ todo[t] # <<>>
      /\ n = next[c][s]
  BY DEF ThreadInv, ThreadOK, WalksOK, TypeOK
<1>2. Tail(todo[t]) \in Seq(Batches)
  BY <1>1, TailFacts
<1> HIDE DEF c, n, e, s
<1>3. /\ c = todo[t][1] /\ c \in Batches
      /\ c = e => Tail(todo[t]) = <<>>
      /\ c # e => Chain(next, s, Tail(todo[t]), next[c][s], e)
  BY <1>1, ChainTail, Constants
<1>4. c # e => Chain(next, s, Tail(todo[t]), n, e)
  BY <1>1, <1>3
<1> QED
  BY <1>1, <1>2, <1>3, <1>4 DEF c, n, e, s

\* A retirement under way is one of a batch, and so is what is adjusted.
LEMMA RetiresBatch ==
    ASSUME TypeOK, ThreadInv, NEW t \in Threads
    PROVE  /\ pc[t] \in RetireLabels => batch[t] \in Batches
           /\ pc[t] \in {"leaveAdjust", "leaveClear", "retireAdjust"} =>
                last[t].ptr \in Batches
BY DEF TypeOK, ThreadInv, ThreadOK, ControlOK, RetireOK, Ptr, HeadWord

-----------------------------------------------------------------------------
(* Types.                                                                  *)

\* The members of the types that the actions assign.
LEMMA Members ==
    /\ "idle" \in Labels /\ "leaveLoad" \in Labels /\ "leaveRead" \in Labels
    /\ "leaveCas" \in Labels /\ "leaveClear" \in Labels /\ "leaveAdjust" \in Labels
    /\ "trimRead" \in Labels /\ "travRead" \in Labels /\ "travDrop" \in Labels
    /\ "retireLoad" \in Labels /\ "retireCas" \in Labels
    /\ "retireAdjust" \in Labels /\ "retireNext" \in Labels
    /\ "retireFinish" \in Labels /\ "free" \in Labels /\ "reenter" \in Labels
    /\ "none" \in Ops /\ "leave" \in Ops /\ "trim" \in Ops /\ "nested" \in Ops
    /\ "trimLeft" \in Ops /\ "retire" \in Ops
    /\ NULL \in Ptr /\ \A b \in Batches : b \in Ptr
    /\ NoWalk \in Walk
    /\ \A c, n, e \in Ptr : [curr |-> c, nxt |-> n, end |-> e] \in Walk
    /\ \A w \in Walk : w.curr \in Ptr /\ w.nxt \in Ptr /\ w.end \in Ptr
    /\ Empty \in HeadWord
    /\ \A r \in Word, p \in Ptr : [refs |-> r, ptr |-> p] \in HeadWord
    /\ \A h \in HeadWord : h.ptr \in Ptr /\ h.refs \in Word
    /\ <<>> \in Seq(Batches)
BY Constants DEF Labels, Ops, Ptr, NoWalk, Walk, Empty, HeadWord

\* The next slot, while there is one.
LEMMA SlotAfter ==
    /\ 0 \in Slots
    /\ \A s \in Slots : s + 1 < NumSlots => s + 1 \in Slots
BY Constants DEF Slots

\* Adding or dropping a reference.
LEMMA RefsTyped ==
    ASSUME NEW r \in Word
    PROVE  /\ AddW(r, 1) \in Word /\ AddW(r, MinusOne) \in Word
           /\ AddW(r, Addend) \in Word /\ AddW(Addend, r) \in Word
BY Constants DEF Word, AddW, MinusOne

\* The types hold initially.
LEMMA TypeInit == AnyInit => TypeOK
BY Constants, Members, SlotAfter DEF AnyInit, Blank, TypeOK

\* An addition to a counter keeps the types.
LEMMA AdjustType ==
    ASSUME TypeOK, NEW t \in Threads, NEW b \in Batches, NEW v \in Word,
           AdjustRefs(t, b, v)
    PROVE  refs' \in [Batches -> Word] /\ list' \in [Threads -> SUBSET Batches]
<1>1. AddW(refs[b], v) \in Word
  BY Constants, WordClosed DEF TypeOK
<1> QED
  BY <1>1 DEF AdjustRefs, TypeOK

\* So does the end of a walk.
LEMMA ReturnType ==
    ASSUME TypeOK, NEW t \in Threads, Return(t)
    PROVE  /\ op' \in [Threads -> Ops] /\ walk' \in [Threads -> Walk]
           /\ outer' \in [Threads -> Walk] /\ thr' \in [Threads -> Nat]
           /\ later' \in [Threads -> Seq(Batches)] /\ pc' \in [Threads -> Labels]
<1>1. /\ "trimLeft" \in Ops /\ NoWalk \in Walk /\ <<>> \in Seq(Batches)
      /\ "free" \in Labels /\ "travRead" \in Labels
  BY Members
<1>2. op' \in [Threads -> Ops]
  <2>1. op \in [Threads -> Ops] /\ (op' = op \/ op' = [op EXCEPT ![t] = "trimLeft"])
    BY DEF TypeOK, Return
  <2> QED
    BY <1>1, <2>1
<1>3. walk' \in [Threads -> Walk]
  <2>1. /\ walk \in [Threads -> Walk] /\ outer[t] \in Walk
        /\ \/ walk' = [walk EXCEPT ![t] = outer[t]]
           \/ walk' = [walk EXCEPT ![t] = NoWalk]
    BY DEF TypeOK, Return
  <2> QED
    BY <1>1, <2>1
<1>4. outer' \in [Threads -> Walk]
  <2>1. /\ outer \in [Threads -> Walk]
        /\ outer' = outer \/ outer' = [outer EXCEPT ![t] = NoWalk]
    BY DEF TypeOK, Return
  <2> QED
    BY <1>1, <2>1
<1>5. thr' \in [Threads -> Nat]
  <2>1. thr \in [Threads -> Nat] /\ (thr' = thr \/ thr' = [thr EXCEPT ![t] = 0])
    BY DEF TypeOK, Return
  <2> QED
    BY <2>1
<1>6. later' \in [Threads -> Seq(Batches)]
  <2>1. /\ later \in [Threads -> Seq(Batches)]
        /\ later' = later \/ later' = [later EXCEPT ![t] = <<>>]
    BY DEF TypeOK, Return
  <2> QED
    BY <1>1, <2>1
<1>7. pc' \in [Threads -> Labels]
  <2>1. \E l \in {"free", "travRead"} : pc' = [pc EXCEPT ![t] = l]
    BY DEF Return, Goto
  <2>2. pc \in [Threads -> Labels]
    BY DEF TypeOK
  <2> QED
    BY <1>1, <2>1, <2>2
<1> QED
  BY <1>2, <1>3, <1>4, <1>5, <1>6, <1>7

\* So does the tail of leave,
LEMMA LeaveTraverseType ==
    ASSUME TypeOK, NEW t \in Threads, NEW rest \in Seq(Batches), LeaveTraverse(t, rest)
    PROVE  /\ op' \in [Threads -> Ops] /\ walk' \in [Threads -> Walk]
           /\ outer' \in [Threads -> Walk] /\ thr' \in [Threads -> Nat]
           /\ later' \in [Threads -> Seq(Batches)] /\ pc' \in [Threads -> Labels]
           /\ todo' \in [Threads -> Seq(Batches)] /\ last' \in [Threads -> HeadWord]
<1>1. last' \in [Threads -> HeadWord]
  BY Members DEF LeaveTraverse, TypeOK
<1>2. CASE last[t].ptr # smr[t]
  <2>1. /\ walk' = [walk EXCEPT ![t] = [curr |-> NULL, nxt |-> walk[t].nxt,
                                        end |-> smr[t]]]
        /\ todo' = [todo EXCEPT ![t] = rest]
        /\ pc' = [pc EXCEPT ![t] = "travRead"]
        /\ UNCHANGED <<op, outer, thr, later>>
    BY <1>2 DEF LeaveTraverse, Goto
  <2>2. [curr |-> NULL, nxt |-> walk[t].nxt, end |-> smr[t]] \in Walk
    BY Members DEF TypeOK
  <2> QED
    BY <1>1, <2>1, <2>2, Members DEF TypeOK
<1>3. CASE last[t].ptr = smr[t]
  <2>1. Return(t) /\ todo' = [todo EXCEPT ![t] = TodoAfterReturn(t, rest)]
    BY <1>3 DEF LeaveTraverse
  <2>2. todo' \in [Threads -> Seq(Batches)]
    BY <2>1 DEF TypeOK, TodoAfterReturn
  <2> QED
    BY <1>1, <2>1, <2>2, ReturnType
<1> QED
  BY <1>2, <1>3

\* the step to the next slot of retire,
LEMMA NextSlotType ==
    ASSUME TypeOK, NEW t \in Threads, NEW d, NextSlot(t, d)
    PROVE  slot' \in [Threads -> Slots] /\ pc' \in [Threads -> Labels]
<1>1. \/ slot' = slot
      \/ slot[t] + 1 \in Slots /\ slot' = [slot EXCEPT ![t] = slot[t] + 1]
  <2>1. slot[t] \in Slots
    BY DEF TypeOK
  <2> QED
    BY <2>1, SlotAfter DEF NextSlot
<1>2. slot' \in [Threads -> Slots]
  BY <1>1 DEF TypeOK
<1>3. \E l \in Labels : pc' = [pc EXCEPT ![t] = l]
  BY Members DEF NextSlot, Goto
<1> QED
  BY <1>2, <1>3 DEF TypeOK

\* Each look at a slot ends in one of the two ways of TrySlot: to pass a slot
\* by is what an empty one would lead to.
LEMMA LoadTries ==
    ASSUME TypeOK, NEW t \in Threads, AnyLoad(t) \/ InsertFails(t)
    PROVE  /\ \E w \in HeadWord : TrySlot(t, w)
           /\ pc[t] \in {"retireLoad", "retireCas"}
           /\ UNCHANGED <<shared, client, history, op, callerLocals, walkLocals, list,
                         batch, covers>>
<1>1. CASE RetireLoad(t) \/ InsertFails(t)
  <2>1. TrySlot(t, head[slot[t]]) /\ head[slot[t]] \in HeadWord
    BY <1>1 DEF RetireLoad, InsertFails, TypeOK
  <2> QED
    BY <1>1, <2>1 DEF RetireLoad, InsertFails
<1>2. CASE PassByEpoch(t)
  <2>1. Empty \in HeadWord /\ Empty.refs = 0
    BY Members DEF Empty
  <2>2. PassBy(t)
    BY <1>2 DEF PassByEpoch
  <2>3. TrySlot(t, Empty)
    BY <2>1, <2>2 DEF TrySlot
  <2> QED
    BY <1>2, <2>1, <2>3 DEF PassByEpoch
<1> QED
  BY <1>1, <1>2 DEF AnyLoad

\* the test of a slot by its head,
LEMMA TrySlotType ==
    ASSUME TypeOK, NEW t \in Threads, NEW w \in HeadWord, TrySlot(t, w)
    PROVE  /\ slot' \in [Threads -> Slots] /\ pc' \in [Threads -> Labels]
           /\ last' \in [Threads -> HeadWord] /\ adjs' \in [Threads -> Word]
           /\ doAdjs' \in [Threads -> BOOLEAN] /\ skipped' \in [Threads -> SUBSET Slots]
<1>1. CASE PassBy(t)
  <2>1. slot' \in [Threads -> Slots] /\ pc' \in [Threads -> Labels]
    BY <1>1, NextSlotType DEF PassBy
  <2>2. AddW(adjs[t], Addend) \in Word /\ slot[t] \in Slots /\ Empty \in HeadWord
    BY RefsTyped, Members DEF TypeOK
  <2>3. /\ last' \in [Threads -> HeadWord] /\ adjs' \in [Threads -> Word]
        /\ doAdjs' \in [Threads -> BOOLEAN] /\ skipped' \in [Threads -> SUBSET Slots]
    BY <1>1, <2>2 DEF PassBy, TypeOK
  <2> QED
    BY <2>1, <2>3
<1>2. CASE w.refs # 0
  <2>1. /\ last' = [last EXCEPT ![t] = w] /\ pc' = [pc EXCEPT ![t] = "retireCas"]
        /\ UNCHANGED <<slot, adjs, doAdjs, skipped>>
    BY <1>2 DEF TrySlot, Goto, countLocals
  <2>2. last' \in [Threads -> HeadWord] /\ pc' \in [Threads -> Labels]
    BY <2>1, Members DEF TypeOK
  <2> QED
    BY <2>1, <2>2 DEF TypeOK
<1> QED
  BY <1>1, <1>2 DEF TrySlot

\* and any step.
LEMMA TypeStep ==
    ASSUME TypeOK, ThreadInv, [AnyNext]_vars
    PROVE  TypeOK'
<1> USE Constants, Members
    DEF shared, client, history, callerLocals, walkLocals, retireLocals, countLocals
<1>1. CASE UNCHANGED vars
  BY <1>1 DEF TypeOK, vars
<1>2. ASSUME NEW t \in Threads, NEW s \in Slots, EnterSlot(t, s)
      PROVE  /\ head' \in [Slots -> HeadWord] /\ smr' \in [Threads -> Ptr]
             /\ vec' \in [Threads -> Slots] /\ active' \in SUBSET Threads
  <2>1. head[s].refs \in Word /\ head[s].ptr \in Ptr
    BY DEF TypeOK
  <2>2. AddW(head[s].refs, 1) \in Word
    BY <2>1, RefsTyped
  <2> QED
    BY <1>2, <2>1, <2>2 DEF TypeOK, EnterSlot
<1>3. ASSUME NEW t \in Threads, NEW s \in Slots, Enter(t, s) PROVE TypeOK'
  <2>1. EnterSlot(t, s)
    BY <1>3 DEF Enter
  <2> QED
    BY <1>2, <1>3, <2>1 DEF TypeOK, Enter
<1>4. ASSUME NEW t \in Threads, Reenter(t) PROVE TypeOK'
  <2>1. EnterSlot(t, vec[t]) /\ vec[t] \in Slots
    BY <1>4 DEF Reenter, TypeOK
  <2>2. pc' \in [Threads -> Labels]
    BY <1>4 DEF TypeOK, Reenter, Goto
  <2> QED
    BY <1>2, <1>4, <2>1, <2>2 DEF TypeOK, Reenter
<1>5. ASSUME NEW t \in Threads, LoadedHead(t, head[vec[t]])
      PROVE  last' \in [Threads -> HeadWord] /\ pc' \in [Threads -> Labels]
  <2>1. head[vec[t]] \in HeadWord
    BY DEF TypeOK
  <2>2. \E l \in Labels : pc' = [pc EXCEPT ![t] = l]
    BY <1>5 DEF LoadedHead, Goto
  <2> QED
    BY <1>5, <2>1, <2>2 DEF LoadedHead, TypeOK
<1>6. ASSUME NEW t \in Threads, Leave(t) \/ NestedLeave(t) PROVE TypeOK'
  <2>1. LeaveBegin(t)
    BY <1>6 DEF Leave, NestedLeave
  <2>2. op' \in [Threads -> Ops]
    BY <1>6, <2>1 DEF Leave, NestedLeave, TypeOK
  <2>3. active' \in SUBSET Threads /\ grace' \in [Batches -> SUBSET Threads]
    BY <2>1 DEF TypeOK, LeaveBegin, Released
  <2>4. last' \in [Threads -> HeadWord] /\ pc' \in [Threads -> Labels]
    BY <1>5, <2>1 DEF LeaveBegin
  <2> QED
    BY <2>1, <2>2, <2>3, <2>4 DEF TypeOK, LeaveBegin
<1>7. ASSUME NEW t \in Threads, LeaveRead(t) PROVE TypeOK'
  <2>1. last[t].ptr \in Batches
    BY <1>7, LeavesHead DEF LeaveRead, ThreadInv, ThreadOK, LeavesOK
  <2>2. [curr |-> NULL, nxt |-> next[last[t].ptr][vec[t]], end |-> NULL] \in Walk
    BY <2>1 DEF TypeOK
  <2>3. walk' \in [Threads -> Walk] /\ pc' \in [Threads -> Labels]
    BY <1>7, <2>2 DEF LeaveRead, Goto, TypeOK
  <2> QED
    BY <1>7, <2>3 DEF LeaveRead, TypeOK
<1>8. ASSUME NEW t \in Threads, LeaveCas(t) PROVE TypeOK'
  <2>1. /\ held[t] \in Seq(Batches) /\ last[t] \in HeadWord /\ vec[t] \in Slots
    BY DEF TypeOK
  <2>2. HeadAfterLeave(last[t]) \in HeadWord
    BY <2>1, RefsTyped DEF HeadAfterLeave
  <2>3. head' \in [Slots -> HeadWord] /\ held' \in [Threads -> Seq(Batches)]
    BY <1>8, <2>1, <2>2 DEF LeaveCas, TypeOK
  <2>4. /\ op' \in [Threads -> Ops] /\ walk' \in [Threads -> Walk]
        /\ outer' \in [Threads -> Walk] /\ thr' \in [Threads -> Nat]
        /\ later' \in [Threads -> Seq(Batches)] /\ pc' \in [Threads -> Labels]
        /\ todo' \in [Threads -> Seq(Batches)] /\ last' \in [Threads -> HeadWord]
    <3>1. CASE LastOut(last[t])
      <4>1. /\ pc' = [pc EXCEPT ![t] = IF CmpxchgFull THEN "leaveAdjust" ELSE "leaveClear"]
            /\ todo' = [todo EXCEPT ![t] = held[t]]
            /\ UNCHANGED <<op, last, walk, outer, thr, later>>
        BY <1>8, <3>1 DEF LeaveCas, Goto
      <4>2. (IF CmpxchgFull THEN "leaveAdjust" ELSE "leaveClear") \in Labels
        OBVIOUS
      <4>3. pc' \in [Threads -> Labels]
        BY <4>1, <4>2 DEF TypeOK
      <4> QED
        BY <2>1, <4>1, <4>3 DEF TypeOK
    <3>2. CASE ~LastOut(last[t])
      <4>1. LeaveTraverse(t, held[t])
        BY <1>8, <3>2 DEF LeaveCas
      <4> QED
        BY <2>1, <4>1, LeaveTraverseType
    <3> QED
      BY <3>1, <3>2
  <2> QED
    BY <1>8, <2>3, <2>4 DEF LeaveCas, TypeOK
<1>9. ASSUME NEW t \in Threads, LeaveCasFails(t) PROVE TypeOK'
  <2>1. last' \in [Threads -> HeadWord] /\ pc' \in [Threads -> Labels]
    BY <1>5, <1>9 DEF LeaveCasFails
  <2> QED
    BY <1>9, <2>1 DEF LeaveCasFails, TypeOK
<1>10. ASSUME NEW t \in Threads, LeaveClear(t) PROVE TypeOK'
  BY <1>10 DEF LeaveClear, TypeOK, Goto
<1>11. ASSUME NEW t \in Threads, LeaveClearFails(t) \/ LeaveAdjust(t) PROVE TypeOK'
  <2>1. todo[t] \in Seq(Batches) /\ LeaveTraverse(t, todo[t])
    BY <1>11 DEF TypeOK, LeaveClearFails, LeaveAdjust
  <2>2. refs' \in [Batches -> Word] /\ list' \in [Threads -> SUBSET Batches]
    <3>1. CASE LeaveClearFails(t)
      BY <3>1 DEF LeaveClearFails, TypeOK
    <3>2. CASE LeaveAdjust(t)
      BY <3>2, AdjustType, RetiresBatch DEF LeaveAdjust
    <3> QED
      BY <1>11, <3>1, <3>2
  <2>3. UNCHANGED <<head, next, client, held, callerLocals, retireLocals>>
    BY <1>11 DEF LeaveClearFails, LeaveAdjust
  <2>4. /\ op' \in [Threads -> Ops] /\ walk' \in [Threads -> Walk]
        /\ outer' \in [Threads -> Walk] /\ thr' \in [Threads -> Nat]
        /\ later' \in [Threads -> Seq(Batches)] /\ pc' \in [Threads -> Labels]
        /\ todo' \in [Threads -> Seq(Batches)] /\ last' \in [Threads -> HeadWord]
    BY <2>1, LeaveTraverseType
  <2> QED
    BY <2>2, <2>3, <2>4 DEF TypeOK
<1>12. ASSUME NEW t \in Threads, TravRead(t) PROVE TypeOK'
  <2>1. CASE walk[t].nxt = NULL
    <3>1. Return(t) /\ todo' \in [Threads -> Seq(Batches)]
      <4>1. /\ Return(t)
            /\ todo' = [todo EXCEPT ![t] = TodoAfterReturn(t, todo[t])]
        BY <1>12, <2>1 DEF TravRead
      <4>2. todo \in [Threads -> Seq(Batches)] /\ later \in [Threads -> Seq(Batches)]
        BY DEF TypeOK
      <4>3. TodoAfterReturn(t, todo[t]) \in Seq(Batches)
        BY <4>2 DEF TodoAfterReturn
      <4> QED
        BY <4>1, <4>2, <4>3
    <3> QED
      BY <1>12, <3>1, ReturnType DEF TypeOK, TravRead
  <2>2. CASE walk[t].nxt # NULL
    <3>1. walk[t].nxt \in Batches
      BY <1>12, <2>2, ReadsTodo DEF TravRead
    <3>2. walk' \in [Threads -> Walk] /\ pc' \in [Threads -> Labels]
      <4>1. [curr |-> walk[t].nxt, nxt |-> next[walk[t].nxt][vec[t]],
             end |-> walk[t].end] \in Walk
        BY SMTT(30), <3>1 DEF TypeOK
      <4>2. /\ walk' = [walk EXCEPT ![t] = [curr |-> walk[t].nxt,
                             nxt |-> next[walk[t].nxt][vec[t]], end |-> walk[t].end]]
            /\ Goto(t, "travDrop")
        BY <1>12, <2>2 DEF TravRead
      <4> QED
        BY <4>1, <4>2 DEF TypeOK, Goto
    <3>3. UNCHANGED <<head, next, refs, active, status, grace, held, todo, later, op,
                      vec, smr, last, outer, thr, list, retireLocals>>
      BY <1>12, <2>2 DEF TravRead
    <3> QED
      BY <3>2, <3>3 DEF TypeOK
  <2> QED
    BY <2>1, <2>2
<1>13. ASSUME NEW t \in Threads, TravDrop(t) PROVE TypeOK'
  <2>1. walk[t].curr \in Batches /\ Tail(todo[t]) \in Seq(Batches)
    BY <1>13, DropsTodo DEF TravDrop
  <2>2. refs' \in [Batches -> Word] /\ list' \in [Threads -> SUBSET Batches]
    BY <1>13, <2>1, AdjustType DEF TravDrop
  <2>3. /\ op' \in [Threads -> Ops] /\ walk' \in [Threads -> Walk]
        /\ outer' \in [Threads -> Walk] /\ thr' \in [Threads -> Nat]
        /\ later' \in [Threads -> Seq(Batches)] /\ pc' \in [Threads -> Labels]
        /\ todo' \in [Threads -> Seq(Batches)]
    <3>1. CASE Flushes(t, walk[t].curr)
      <4>1. /\ op' = [op EXCEPT ![t] = "nested"]
            /\ outer' = [outer EXCEPT ![t] = walk[t]]
            /\ walk' = [walk EXCEPT ![t] = NoWalk]
            /\ later' = [later EXCEPT ![t] = Tail(todo[t])]
            /\ todo' = [todo EXCEPT ![t] = <<>>]
            /\ pc' = [pc EXCEPT ![t] = "leaveLoad"]
            /\ thr' = thr
        BY <1>13, <3>1 DEF TravDrop, Goto
      <4> QED
        BY <2>1, <4>1 DEF TypeOK
    <3>2. CASE ~Flushes(t, walk[t].curr) /\ walk[t].curr # walk[t].end
      <4>1. /\ todo' = [todo EXCEPT ![t] = Tail(todo[t])]
            /\ pc' = [pc EXCEPT ![t] = "travRead"]
            /\ UNCHANGED <<op, walk, outer, thr, later>>
        BY <1>13, <3>2 DEF TravDrop, Goto, Return, Flushes
      <4> QED
        BY <2>1, <4>1 DEF TypeOK
    <3>3. CASE ~Flushes(t, walk[t].curr) /\ walk[t].curr = walk[t].end
      <4>1. Return(t) /\ todo' = [todo EXCEPT ![t] = TodoAfterReturn(t, Tail(todo[t]))]
        BY <1>13, <3>3 DEF TravDrop
      <4>2. todo' \in [Threads -> Seq(Batches)]
        BY <2>1, <4>1 DEF TypeOK, TodoAfterReturn
      <4> QED
        BY <4>1, <4>2, ReturnType
    <3> QED
      BY <3>1, <3>2, <3>3
  <2> QED
    BY <1>13, <2>2, <2>3 DEF TravDrop, TypeOK
<1>14. ASSUME NEW t \in Threads, TrimNothing(t) PROVE TypeOK'
  BY <1>14 DEF TypeOK, TrimNothing, Released
<1>15. ASSUME NEW t \in Threads, NEW th \in TrimThresholds, TrimBegin(t, th)
       PROVE  TypeOK'
  <2>1. head[vec[t]].ptr \in Ptr /\ th \in Nat /\ held[t] \in Seq(Batches)
    BY HyalineAssumption DEF TypeOK
  <2>2. /\ walk' \in [Threads -> Walk] /\ smr' \in [Threads -> Ptr]
        /\ thr' \in [Threads -> Nat] /\ op' \in [Threads -> Ops]
        /\ pc' \in [Threads -> Labels] /\ grace' \in [Batches -> SUBSET Threads]
        /\ todo' \in [Threads -> Seq(Batches)] /\ held' \in [Threads -> Seq(Batches)]
    BY <1>15, <2>1 DEF TypeOK, TrimBegin, Released, Goto
  <2> QED
    BY <1>15, <2>2 DEF TypeOK, TrimBegin
<1>16. ASSUME NEW t \in Threads, TrimRead(t) PROVE TypeOK'
  <2>1. smr[t] \in Batches
    BY <1>16, TrimsHandle DEF TrimRead
  <2>2. [curr |-> NULL, nxt |-> next[smr[t]][vec[t]], end |-> walk[t].end] \in Walk
    BY SMTT(30), <2>1 DEF TypeOK
  <2>3. walk' \in [Threads -> Walk] /\ pc' \in [Threads -> Labels]
    BY <1>16, <2>2 DEF TrimRead, Goto, TypeOK
  <2> QED
    BY <1>16, <2>3 DEF TypeOK, TrimRead
<1>17. ASSUME NEW t \in Threads, NEW b \in Batches, AnyRetire(t, b) PROVE TypeOK'
  <2>1. CASE Retire(t, b)
    BY <1>17, <2>1 DEF TypeOK, Retire, Goto
  <2>2. CASE RetireUnseen(t, b)
    BY <1>17, <2>2, Constants DEF TypeOK, RetireUnseen, Goto
  <2> QED
    BY <1>17, <2>1, <2>2 DEF AnyRetire
<1>18. ASSUME NEW t \in Threads, AnyLoad(t) \/ InsertFails(t) PROVE TypeOK'
  <2>1. \E w \in HeadWord : TrySlot(t, w)
    BY <1>18, LoadTries
  <2>2. UNCHANGED <<shared, client, history, op, callerLocals, walkLocals, list, batch,
                    covers>>
    BY <1>18, LoadTries
  <2>3. /\ slot' \in [Threads -> Slots] /\ pc' \in [Threads -> Labels]
        /\ last' \in [Threads -> HeadWord] /\ adjs' \in [Threads -> Word]
        /\ doAdjs' \in [Threads -> BOOLEAN] /\ skipped' \in [Threads -> SUBSET Slots]
    BY <2>1, TrySlotType
  <2> QED
    BY <2>2, <2>3 DEF TypeOK
<1>19. ASSUME NEW t \in Threads, Insert(t) PROVE TypeOK'
  <2>1. batch[t] \in Batches /\ slot[t] \in Slots /\ last[t].ptr \in Ptr
        /\ last[t].refs \in Word
    BY <1>19, RetiresBatch DEF Insert, RetireLabels, TypeOK
  <2>2. head' \in [Slots -> HeadWord] /\ next' \in [Batches -> [Slots -> Ptr]]
    BY <1>19, <2>1 DEF Insert, TypeOK
  <2>3. pc' \in [Threads -> Labels]
    BY ZenonT(90), <1>19 DEF Insert, Goto, TypeOK
  <2>4. held' \in [Threads -> Seq(Batches)] /\ covers' \in [Threads -> SUBSET Threads]
    <3>1. CASE last[t].ptr = NULL
      BY <1>19, <3>1 DEF Insert, TypeOK
    <3>2. CASE last[t].ptr # NULL
      <4>1. last[t].ptr \in Batches /\ Inside(slot[t]) \in SUBSET Threads
        BY <2>1, <3>2 DEF Ptr, Inside
      <4>2. \A u \in Threads : <<last[t].ptr>> \o held[u] \in Seq(Batches)
        BY <4>1, ConsFacts DEF TypeOK
      <4>3. /\ held' = [u \in Threads |-> IF u \in Inside(slot[t])
                            THEN <<last[t].ptr>> \o held[u] ELSE held[u]]
            /\ covers' = [covers EXCEPT ![t] = Inside(slot[t])]
        BY <1>19, <3>2 DEF Insert
      <4> QED
        BY <4>1, <4>2, <4>3 DEF TypeOK
    <3> QED
      BY <3>1, <3>2
  <2> QED
    BY <1>19, <2>2, <2>3, <2>4 DEF TypeOK, Insert
<1>20. ASSUME NEW t \in Threads, RetireAdjust(t) PROVE TypeOK'
  <2>1. last[t].ptr \in Batches /\ AddW(Addend, last[t].refs) \in Word
    BY <1>20, RetiresBatch, RefsTyped DEF RetireAdjust, TypeOK
  <2>2. refs' \in [Batches -> Word] /\ list' \in [Threads -> SUBSET Batches]
    BY <1>20, <2>1, AdjustType DEF RetireAdjust
  <2> QED
    BY <1>20, <2>2 DEF TypeOK, RetireAdjust, Goto
<1>21. ASSUME NEW t \in Threads, RetireNext(t) PROVE TypeOK'
  <2>1. slot' \in [Threads -> Slots] /\ pc' \in [Threads -> Labels]
    BY <1>21, NextSlotType DEF RetireNext
  <2> QED
    BY <1>21, <2>1 DEF RetireNext, TypeOK
<1>22. ASSUME NEW t \in Threads, RetireFinish(t) PROVE TypeOK'
  <2>1. batch[t] \in Batches /\ adjs[t] \in Word
    BY <1>22, RetiresBatch DEF RetireFinish, TypeOK, RetireLabels
  <2>2. refs' \in [Batches -> Word] /\ list' \in [Threads -> SUBSET Batches]
    BY <1>22, <2>1, AdjustType DEF RetireFinish
  <2> QED
    BY <1>22, <2>2 DEF TypeOK, RetireFinish, RetireReset, Goto
<1>23. ASSUME NEW t \in Threads, NEW b \in Batches, Free(t, b) PROVE TypeOK'
  BY <1>23 DEF TypeOK, Free
<1>24. ASSUME NEW t \in Threads, AnyEnd(t) PROVE TypeOK'
  <2>1. /\ pc' \in [Threads -> Labels] /\ op' \in [Threads -> Ops]
        /\ last' \in [Threads -> HeadWord] /\ walk' \in [Threads -> Walk]
        /\ thr' \in [Threads -> Nat]
        /\ vec' \in [Threads -> Slots] /\ smr' \in [Threads -> Ptr]
        /\ RetireReset(t) /\ UNCHANGED <<shared, client, history, outer, list>>
    <3>1. CASE EndCall(t)
      BY <3>1, Constants, Members DEF TypeOK, EndCall, Goto
    <3>2. CASE EndFlushed(t)
      BY <3>2, Constants, Members DEF TypeOK, EndFlushed, Goto
    <3> QED
      BY <1>24, <3>1, <3>2 DEF AnyEnd
  <2>2. /\ batch' \in [Threads -> Ptr] /\ slot' \in [Threads -> Slots]
        /\ adjs' \in [Threads -> Word] /\ doAdjs' \in [Threads -> BOOLEAN]
        /\ skipped' \in [Threads -> SUBSET Slots] /\ covers' = covers
    BY <2>1, Constants, Members DEF TypeOK, RetireReset
  <2> QED
    BY <2>1, <2>2 DEF TypeOK
<1>25. ASSUME NEW b \in Batches, Alloc(b) PROVE TypeOK'
  BY <1>25 DEF TypeOK, Alloc
<1> QED
  BY <1>1, <1>3, <1>4, <1>6, <1>7, <1>8, <1>9, <1>10, <1>11, <1>12, <1>13, <1>14, <1>15,
     <1>16, <1>17, <1>18, <1>19, <1>20, <1>21, <1>22, <1>23, <1>24, <1>25
     DEF AnyNext, AnyCall, Call, AnyRetire, AnyStep, Step, AnyLoad, AnyEnd, Trim

-----------------------------------------------------------------------------
(* A step of one thread, seen by another one.                              *)

\* What no step of t changes for another thread u.
Kept(u) ==
    /\ pc'[u] = pc[u] /\ op'[u] = op[u] /\ vec'[u] = vec[u] /\ smr'[u] = smr[u]
    /\ last'[u] = last[u] /\ walk'[u] = walk[u] /\ outer'[u] = outer[u]
    /\ list'[u] = list[u] /\ batch'[u] = batch[u] /\ slot'[u] = slot[u]
    /\ adjs'[u] = adjs[u] /\ doAdjs'[u] = doAdjs[u]
    /\ skipped'[u] = skipped[u] /\ covers'[u] = covers[u]
    /\ todo'[u] = todo[u] /\ later'[u] = later[u]
    /\ u \in active' <=> u \in active

\* The end of a walk leaves the other threads alone.
LEMMA KeptByReturn ==
    ASSUME TypeOK, NEW t \in Threads, NEW u \in Threads, u # t, Return(t)
    PROVE  /\ pc'[u] = pc[u] /\ op'[u] = op[u] /\ walk'[u] = walk[u]
           /\ outer'[u] = outer[u] /\ later'[u] = later[u]
BY DEF Return, Goto, TypeOK

\* So does the tail of leave,
LEMMA KeptByTraverse ==
    ASSUME TypeOK, NEW t \in Threads, NEW u \in Threads, u # t, NEW rest,
           LeaveTraverse(t, rest)
    PROVE  /\ pc'[u] = pc[u] /\ op'[u] = op[u] /\ walk'[u] = walk[u]
           /\ outer'[u] = outer[u] /\ later'[u] = later[u]
           /\ todo'[u] = todo[u] /\ last'[u] = last[u]
BY KeptByReturn DEF LeaveTraverse, Goto, TypeOK

\* the test of a slot by its head,
LEMMA KeptBySlot ==
    ASSUME TypeOK, NEW t \in Threads, NEW u \in Threads, u # t, NEW w, TrySlot(t, w)
    PROVE  /\ pc'[u] = pc[u] /\ last'[u] = last[u] /\ slot'[u] = slot[u]
           /\ adjs'[u] = adjs[u] /\ doAdjs'[u] = doAdjs[u] /\ skipped'[u] = skipped[u]
<1>1. CASE PassBy(t)
  BY <1>1 DEF PassBy, NextSlot, Goto, TypeOK
<1>2. CASE ~PassBy(t)
  BY <1>2 DEF TrySlot, Goto, TypeOK, countLocals
<1> QED
  BY <1>1, <1>2

\* and any step of a thread.
LEMMA KeptByOthers ==
    ASSUME TypeOK, NEW t \in Threads, NEW u \in Threads, u # t, AnyCall(t) \/ AnyStep(t)
    PROVE  Kept(u)
<1> USE DEF Kept, TypeOK, Goto, history, callerLocals, walkLocals, countLocals,
            retireLocals, client, shared
<1>1. ASSUME (\E s \in Slots : Enter(t, s)) \/ Reenter(t) PROVE Kept(u)
  BY <1>1 DEF Enter, Reenter, EnterSlot
<1>2. ASSUME Leave(t) \/ NestedLeave(t) PROVE Kept(u)
  BY <1>2 DEF Leave, NestedLeave, LeaveBegin, LoadedHead
<1>3. ASSUME LeaveRead(t) \/ LeaveCasFails(t) PROVE Kept(u)
  BY <1>3 DEF LeaveRead, LeaveCasFails, LoadedHead
<1>4. ASSUME LeaveCas(t) PROVE Kept(u)
  <2>1. CASE LastOut(last[t])
    BY <1>4, <2>1 DEF LeaveCas
  <2>2. CASE ~LastOut(last[t])
    <3>1. /\ LeaveTraverse(t, held[t])
          /\ UNCHANGED <<active, vec, smr, list, batch, slot, adjs, doAdjs, skipped,
                         covers>>
      BY <1>4, <2>2 DEF LeaveCas
    <3> QED
      BY <3>1, KeptByTraverse
  <2> QED
    BY <2>1, <2>2
<1>5. ASSUME LeaveClear(t) PROVE Kept(u)
  BY <1>5 DEF LeaveClear
<1>6. ASSUME LeaveClearFails(t) \/ LeaveAdjust(t) PROVE Kept(u)
  <2>1. /\ LeaveTraverse(t, todo[t])
        /\ UNCHANGED <<active, vec, smr, batch, slot, adjs, doAdjs, skipped, covers>>
    BY <1>6 DEF LeaveClearFails, LeaveAdjust
  <2>2. list'[u] = list[u]
    BY <1>6 DEF LeaveClearFails, LeaveAdjust, AdjustRefs
  <2> QED
    BY <2>1, <2>2, KeptByTraverse
<1>7. ASSUME TravRead(t) PROVE Kept(u)
  BY <1>7, KeptByReturn DEF TravRead
<1>8. ASSUME TravDrop(t) PROVE Kept(u)
  BY <1>8, KeptByReturn DEF TravDrop, AdjustRefs
<1>9. ASSUME TrimNothing(t) \/ \E th \in TrimThresholds : TrimBegin(t, th)
      PROVE  Kept(u)
  BY <1>9 DEF TrimNothing, TrimBegin
<1>10. ASSUME TrimRead(t) PROVE Kept(u)
  BY <1>10 DEF TrimRead
<1>11. ASSUME NEW b \in Batches, AnyRetire(t, b) PROVE Kept(u)
  BY <1>11 DEF AnyRetire, Retire, RetireUnseen
<1>12. ASSUME AnyLoad(t) \/ InsertFails(t) PROVE Kept(u)
  <2>1. /\ \E w \in HeadWord : TrySlot(t, w)
        /\ UNCHANGED <<active, op, vec, smr, walk, outer, list, batch, covers, todo,
                       later>>
    BY <1>12, LoadTries DEF client, history, callerLocals, walkLocals
  <2> QED
    BY <2>1, KeptBySlot
<1>13. ASSUME Insert(t) PROVE Kept(u)
  BY <1>13 DEF Insert
<1>14. ASSUME RetireAdjust(t) PROVE Kept(u)
  BY <1>14 DEF RetireAdjust, AdjustRefs
<1>15. ASSUME RetireNext(t) PROVE Kept(u)
  BY <1>15 DEF RetireNext, NextSlot
<1>16. ASSUME RetireFinish(t) PROVE Kept(u)
  BY <1>16 DEF RetireFinish, RetireReset, AdjustRefs
<1>17. ASSUME NEW b \in Batches, Free(t, b) PROVE Kept(u)
  BY <1>17 DEF Free
<1>18. ASSUME AnyEnd(t) PROVE Kept(u)
  BY <1>18 DEF AnyEnd, EndCall, EndFlushed, RetireReset
<1> HIDE DEF Kept, TypeOK
<1> QED
  BY <1>1, <1>2, <1>3, <1>4, <1>5, <1>6, <1>7, <1>8, <1>9, <1>10, <1>11, <1>12,
     <1>13, <1>14, <1>15, <1>16, <1>17, <1>18 DEF AnyCall, Call, AnyRetire, AnyStep,
        Step, AnyLoad, AnyEnd, Trim

\* What u holds in its slot, and the links it may follow, stay.
SlotKept(u) ==
    /\ held'[u] = held[u]
    /\ In(u) => head'[vec[u]].ptr = head[vec[u]].ptr
    /\ \A b \in Batches : Linked(u, b) => next'[b][vec[u]] = next[b][vec[u]]
    /\ \A b \in Batches : Owes(u, b) => head'[vec[u]].ptr # b

\* What most steps leave behind: t owes the same decrements, and its pointers
\* still lead to them.
Stays(t) == ThreadOK(t)' /\ \A b : Owes(t, b)' <=> Owes(t, b)

\* A call that walks a list keeps its way while the links it depends on stay.
LEMMA WalksKept ==
    ASSUME TypeOK, ThreadInv, NEW u \in Threads,
           \A b \in Batches : Linked(u, b) => next'[b][vec[u]] = next[b][vec[u]],
           pc'[u] = pc[u] \/ pc'[u] \notin {"trimRead", "travRead", "travDrop"},
           op'[u] = op[u], vec'[u] = vec[u], smr'[u] = smr[u], walk'[u] = walk[u],
           outer'[u] = outer[u], todo'[u] = todo[u], later'[u] = later[u]
    PROVE  WalksOK(u)'
<1> DEFINE s == vec[u]
<1>1. WalksOK(u) /\ s' = s
  BY DEF ThreadInv, ThreadOK
<1>2. todo[u] \in Seq(Batches) /\ later[u] \in Seq(Batches)
  BY DEF TypeOK
<1>3. /\ \A b : InSeq(b, todo[u]) => next'[b][s] = next[b][s]
      /\ \A b : InSeq(b, later[u]) => next'[b][s] = next[b][s]
  BY <1>2, ElementOfSeq DEF Linked, Owes, InSeq
<1> HIDE DEF s
<1>4. /\ \A p, e : Chain(next, s, todo[u], p, e) => Chain(next', s, todo[u], p, e)
      /\ \A p, e : Chain(next, s, later[u], p, e) => Chain(next', s, later[u], p, e)
  BY <1>2, <1>3, ChainFrame
<1>5. ASSUME pc'[u] = "trimRead"
      PROVE  smr[u]' # NULL /\ Chain(next, s, todo[u], next[smr[u]][s], walk[u].end)'
  <2> DEFINE e == walk[u].end
             n == next[smr[u]][s]
  <2>1. smr[u] # NULL /\ Chain(next, s, todo[u], n, e)
    BY <1>1, <1>5 DEF WalksOK, s
  <2>2. n' = n /\ e' = e
    BY <1>1, <1>5, TrimsHandle DEF s
  <2> HIDE DEF n, e
  <2>3. Chain(next', s, todo[u], n, e)
    BY <1>4, <2>1
  <2>4. Chain(next, s, todo[u], n, e)'
    BY <1>1, <2>2, <2>3
  <2> QED
    BY <2>1, <2>4 DEF n, e
<1>6. (pc[u] = "travRead" => Chain(next, s, todo[u], walk[u].nxt, walk[u].end))'
  <2> DEFINE n == walk[u].nxt
             e == walk[u].end
  <2>1. pc[u] = "travRead" => Chain(next, s, todo[u], n, e)
    BY <1>1 DEF WalksOK, s
  <2>2. n' = n /\ e' = e
    OBVIOUS
  <2> HIDE DEF n, e
  <2>3. (pc[u] = "travRead" => Chain(next, s, todo[u], n, e))'
    BY <1>1, <1>4, <2>1, <2>2
  <2> QED
    BY <2>3 DEF n, e
<1>7. ASSUME pc'[u] = "travDrop"
      PROVE  /\ todo[u]' # <<>>
             /\ Chain(next, s, todo[u], walk[u].curr, walk[u].end)'
             /\ (walk[u].nxt = next[walk[u].curr][s])'
  <2> DEFINE c == walk[u].curr
             n == walk[u].nxt
             e == walk[u].end
  <2>1. todo[u] # <<>> /\ Chain(next, s, todo[u], c, e) /\ n = next[c][s]
    BY <1>1, <1>7 DEF WalksOK, s
  <2>2. n' = n /\ e' = e /\ c' = c
    OBVIOUS
  <2>3. InSeq(c, todo[u])
    BY <1>7, DropsTodo, TailFacts DEF InSeq
  <2> HIDE DEF c, n, e
  <2>4. Chain(next, s, todo[u], c, e)'
    BY <1>1, <1>4, <2>1, <2>2
  <2>5. n' = next'[c'][s']
    BY <1>1, <1>3, <2>1, <2>2, <2>3
  <2> QED
    BY <2>1, <2>4, <2>5 DEF c, n, e
<1>8. (op[u] = "nested" =>
          IF outer[u].curr = outer[u].end THEN later[u] = <<>>
          ELSE Chain(next, s, later[u], outer[u].nxt, outer[u].end))'
  <2> DEFINE c == outer[u].curr
             n == outer[u].nxt
             e == outer[u].end
  <2>1. op[u] = "nested" =>
          IF c = e THEN later[u] = <<>> ELSE Chain(next, s, later[u], n, e)
    BY <1>1 DEF WalksOK, s
  <2>2. n' = n /\ e' = e /\ c' = c
    OBVIOUS
  <2> HIDE DEF c, n, e
  <2>3. (op[u] = "nested" =>
          IF c = e THEN later[u] = <<>> ELSE Chain(next, s, later[u], n, e))'
    BY <1>1, <1>4, <2>1, <2>2
  <2> QED
    BY <2>3 DEF c, n, e
<1> QED
  BY <1>5, <1>6, <1>7, <1>8 DEF WalksOK, s

\* So does leave, if the head it has loaded is accounted for.
LEMMA LeavesKept ==
    ASSUME TypeOK, ThreadInv, NEW u \in Threads,
           \A b \in Batches : Linked(u, b) => next'[b][vec[u]] = next[b][vec[u]],
           pc'[u] = pc[u], vec'[u] = vec[u], smr'[u] = smr[u], last'[u] = last[u],
           walk'[u] = walk[u], todo'[u] = todo[u],
           pc[u] \in {"leaveRead", "leaveCas"} =>
             \/ last[u].ptr = head'[vec[u]].ptr
             \/ InSeq(last[u].ptr, held'[u])
             \/ last[u].ptr = NULL /\ smr[u] = NULL
    PROVE  LeavesOK(u)'
<1> DEFINE s == vec[u]
           p == last[u].ptr
           n == walk[u].nxt
<1>1. LeavesOK(u) /\ s' = s /\ p' = p /\ n' = n
  BY DEF ThreadInv, ThreadOK
<1>2. /\ pc[u] = "leaveRead" => p # smr[u]
      /\ pc[u] = "leaveCas" /\ p # smr[u] => n = next[p][s]
      /\ pc[u] \in {"leaveClear", "leaveAdjust"} =>
             IF p = smr[u] THEN todo[u] = <<>> ELSE Chain(next, s, todo[u], n, smr[u])
  BY <1>1 DEF LeavesOK
<1>3. pc[u] = "leaveCas" /\ p # smr[u] => next'[p][s] = next[p][s]
  BY LeavesHead
<1>4. todo[u] \in Seq(Batches)
  BY DEF TypeOK
<1>5. \A b : InSeq(b, todo[u]) => next'[b][s] = next[b][s]
  BY <1>4, ElementOfSeq DEF Linked, Owes, InSeq
<1>6. (pc[u] \in {"leaveRead", "leaveCas"} =>
          p = head[s].ptr \/ InSeq(p, held[u]) \/ (p = NULL /\ smr[u] = NULL))'
  BY <1>1
<1> HIDE DEF s, p, n
<1>7. Chain(next, s, todo[u], n, smr[u]) => Chain(next', s, todo[u], n, smr[u])
  BY <1>4, <1>5, ChainFrame
<1>8. (/\ pc[u] = "leaveRead" => p # smr[u]
       /\ pc[u] = "leaveCas" /\ p # smr[u] => n = next[p][s]
       /\ pc[u] \in {"leaveClear", "leaveAdjust"} =>
             IF p = smr[u] THEN todo[u] = <<>> ELSE Chain(next, s, todo[u], n, smr[u]))'
  BY <1>1, <1>2, <1>3, <1>7
<1> QED
  BY <1>6, <1>8 DEF LeavesOK, s, p, n

\* The list between head and handle depends on the links of its nodes.
LEMMA HeldKept ==
    ASSUME TypeOK, ThreadInv, NEW u \in Threads, In(u), vec'[u] = vec[u],
           smr'[u] = smr[u], held'[u] = held[u],
           head'[vec[u]].ptr = head[vec[u]].ptr,
           \A b \in Batches : Linked(u, b) => next'[b][vec[u]] = next[b][vec[u]]
    PROVE  HeldOK(u)'
<1> DEFINE s == vec[u]
           h == head[vec[u]].ptr
           n == next[h][s]
<1>1. HeldOK(u) /\ s' = s /\ h' = h
  BY DEF ThreadInv, ThreadOK
<1>2. CASE h = smr[u]
  BY <1>1, <1>2 DEF HeldOK
<1>3. CASE h # smr[u]
  <2>1. h \in Batches /\ ~InSeq(h, held[u]) /\ Chain(next, s, held[u], n, smr[u])
    BY <1>3, HoldsHead
  <2>2. n' = n
    BY <1>1, <2>1 DEF Linked
  <2>3. held[u] \in Seq(Batches)
    BY DEF TypeOK
  <2>4. \A b : InSeq(b, held[u]) => next'[b][s] = next[b][s]
    BY <2>3, ElementOfSeq DEF Linked, Owes, InSeq
  <2>5. h # NULL
    BY <2>1, Constants
  <2> HIDE DEF s, h, n
  <2>6. Chain(next', s, held[u], n, smr[u])
    BY <2>1, <2>3, <2>4, ChainFrame
  <2>7. Chain(next, s, held[u], n, smr[u])'
    BY <1>1, <2>2, <2>6
  <2>8. (h # NULL /\ ~InSeq(h, held[u]))'
    BY <1>1, <2>1, <2>5
  <2> QED
    BY <1>3, <2>7, <2>8 DEF HeldOK, s, h, n
<1> QED
  BY <1>2, <1>3

\* A step that changes neither the locals of u nor what it can follow keeps
\* all that is said of u.
LEMMA Untouched ==
    ASSUME TypeOK, ThreadInv, NEW u \in Threads, Kept(u), SlotKept(u)
    PROVE  Stays(u)
<1>1. /\ ControlOK(u) /\ RetireOK(u) /\ HeldOK(u) /\ LeavesOK(u) /\ WalksOK(u)
      /\ OnceOK(u)
  BY DEF ThreadInv, ThreadOK
<1>2. \A b : Owes(u, b)' <=> Owes(u, b)
  BY DEF Kept, SlotKept, Owes
<1>3. In(u)' <=> In(u)
  BY DEF Kept, In
<1>4. ControlOK(u)'
  BY <1>1, <1>3 DEF ControlOK, Kept, SlotKept
<1>5. RetireOK(u)'
  BY <1>1 DEF RetireOK, Kept
<1>6. HeldOK(u)'
  <2>1. CASE In(u)
    BY <2>1, HeldKept DEF Kept, SlotKept
  <2>2. CASE ~In(u)
    BY <1>3, <2>2 DEF HeldOK
  <2> QED
    BY <2>1, <2>2
<1>7. LeavesOK(u)'
  <2>1. pc[u] \in {"leaveRead", "leaveCas"} =>
             \/ last[u].ptr = head'[vec[u]].ptr
             \/ InSeq(last[u].ptr, held'[u])
             \/ last[u].ptr = NULL /\ smr[u] = NULL
    BY <1>1 DEF LeavesOK, SlotKept, In
  <2> QED
    BY <2>1, LeavesKept DEF Kept, SlotKept
<1>8. WalksOK(u)'
  BY WalksKept DEF Kept, SlotKept
<1>9. OnceOK(u)'
  <2>1. \A b \in Batches : Owes(u, b)' => (head[vec[u]].ptr # b)'
    BY <1>2 DEF Kept, SlotKept
  <2> QED
    BY <1>1, <2>1 DEF OnceOK, Kept, SlotKept
<1> QED
  BY <1>2, <1>4, <1>5, <1>6, <1>7, <1>8, <1>9 DEF Stays, ThreadOK

-----------------------------------------------------------------------------
(* What retire keeps of its own locals.                                    *)

\* The slots passed by are finitely many.
LEMMA SkippedCount ==
    ASSUME TypeOK, NEW t \in Threads
    PROVE  /\ IsFiniteSet(skipped[t]) /\ Cardinality(skipped[t]) \in Nat
           /\ Cardinality(skipped[t]) = 0 <=> skipped[t] = {}
           /\ \A n \in Nat : skipped[t] \subseteq 0 .. n - 1 =>
                Cardinality(skipped[t]) <= n
<1>1. skipped[t] \subseteq 0 .. NumSlots - 1
  BY DEF TypeOK, Slots
<1>2. IsFiniteSet(skipped[t])
  <2>1. IsFiniteSet(0 .. NumSlots - 1)
    BY FS_Interval, Constants
  <2> QED
    BY <1>1, <2>1, FS_Subset
<1>3. ASSUME NEW n \in Nat, skipped[t] \subseteq 0 .. n - 1
      PROVE  Cardinality(skipped[t]) <= n
  <2>1. IsFiniteSet(0 .. n - 1) /\ Cardinality(0 .. n - 1) = n
    BY FS_Interval
  <2> QED
    BY <1>3, <2>1, FS_Subset
<1> QED
  BY <1>2, <1>3, FS_CardinalityType, FS_EmptySet

\* Outside of retire its locals are not used.
LEMMA NoRetirement ==
    ASSUME ThreadInv, NEW t \in Threads, pc[t] \notin RetireLabels,
           op[t] # "retire", pc'[t] \notin RetireLabels, op'[t] # "retire",
           batch'[t] = batch[t], slot'[t] = slot[t], adjs'[t] = adjs[t],
           doAdjs'[t] = doAdjs[t], skipped'[t] = skipped[t]
    PROVE  RetireOK(t)'
<1>1. RetireOK(t)
  BY DEF ThreadInv, ThreadOK
<1> QED
  BY <1>1 DEF RetireOK, RetireLabels

\* The next slot that is looked at lies above those passed by.
LEMMA NextSlotRetires ==
    ASSUME TypeOK, NEW t \in Threads, NEW d \in BOOLEAN, NextSlot(t, d)
    PROVE  \/ pc'[t] = "retireLoad" /\ slot'[t] = slot[t] + 1
           \/ pc'[t] = (IF d THEN "retireFinish" ELSE "free") /\ slot'[t] = slot[t]
BY DEF NextSlot, Goto, TypeOK

\* The share of one more slot.
LEMMA ShareOneMore ==
    ASSUME NEW n \in Nat, n < NumSlots
    PROVE  AddW(Share * n, Addend) = IF n + 1 = NumSlots THEN 0 ELSE Share * (n + 1)
<1> DEFINE m == Share * n
<1>1. /\ m \in Nat /\ Share * (n + 1) = m + Share
      /\ n + 1 = NumSlots => m + Share = Mod
      /\ n + 1 # NumSlots => m + Share < Mod
  <2>1. m \in Nat /\ Share * (n + 1) = m + Share
    BY Constants
  <2>2. n + 1 = NumSlots => m + Share = Mod
    BY <2>1, Constants
  <2>3. ASSUME n + 1 # NumSlots PROVE m + Share < Mod
    <3>1. n + 1 < NumSlots
      BY <2>3, Constants
    <3>2. Share * (n + 1) < Share * NumSlots
      BY <3>1, Constants
    <3> QED
      BY <2>1, <3>2, Constants
  <2> QED
    BY <2>1, <2>2, <2>3
<1>2. NumSlots = 1 => n = 0 /\ m = 0
  BY Constants
<1> HIDE DEF m
<1>3. AddW(m, Addend) = IF n + 1 = NumSlots THEN 0 ELSE m + Share
  BY <1>1, <1>2, Constants DEF AddW
<1> QED
  BY <1>1, <1>3 DEF m

\* A retirer that passes a slot by still has what a retirer has.
LEMMA PassByRetires ==
    ASSUME TypeOK, ThreadInv, NEW t \in Threads, PassBy(t),
           pc[t] \in {"retireLoad", "retireCas"}, op'[t] = op[t], batch'[t] = batch[t]
    PROVE  RetireOK(t)' /\ pc'[t] \in {"retireLoad", "retireFinish"}
<1> DEFINE n == Cardinality(skipped[t])
<1>1. RetireOK(t) /\ skipped[t] \subseteq 0 .. slot[t] - 1 /\ slot[t] \in Slots
      /\ op[t] = "retire" /\ batch[t] # NULL
  BY DEF ThreadInv, ThreadOK, RetireOK, RetireLabels, TypeOK
<1>2. /\ n \in Nat /\ n <= slot[t] /\ slot[t] \in Nat /\ slot[t] < NumSlots
      /\ IsFiniteSet(skipped[t])
  BY <1>1, SkippedCount, Constants DEF Slots
<1>3. /\ adjs'[t] = AddW(adjs[t], Addend) /\ doAdjs'[t] = TRUE
      /\ skipped'[t] = skipped[t] \union {slot[t]}
      /\ \/ pc'[t] = "retireLoad" /\ slot'[t] = slot[t] + 1
         \/ pc'[t] = "retireFinish" /\ slot'[t] = slot[t]
  <2>1. NextSlot(t, TRUE)
    BY DEF PassBy
  <2> QED
    BY <2>1, NextSlotRetires DEF PassBy, TypeOK
<1>4. Cardinality(skipped'[t]) = n + 1
  <2>1. slot[t] \notin skipped[t]
    BY <1>1, <1>2
  <2> QED
    BY ZenonT(90), <1>2, <1>3, <2>1, FS_AddElement
<1>5. adjs[t] = Share * n
  <2>1. n # NumSlots
    BY <1>2, Constants
  <2> QED
    BY <1>1, <2>1 DEF RetireOK
<1>6. n < NumSlots
  BY <1>2, Constants
<1> HIDE DEF n
<1>7. adjs'[t] = IF n + 1 = NumSlots THEN 0 ELSE Share * (n + 1)
  BY <1>2, <1>3, <1>5, <1>6, ShareOneMore
<1>8. (adjs[t] = LET k == Cardinality(skipped[t]) IN
                 IF k = NumSlots THEN 0 ELSE Share * k)'
  BY <1>4, <1>7
<1>9. pc'[t] = "retireLoad" => skipped'[t] \subseteq 0 .. slot'[t] - 1
  BY <1>1, <1>2, <1>3
<1> QED
  BY <1>1, <1>3, <1>8, <1>9 DEF RetireOK, RetireLabels

\* So has one that has loaded the head of a slot.
LEMMA TrySlotRetires ==
    ASSUME TypeOK, ThreadInv, NEW t \in Threads, NEW w, TrySlot(t, w),
           pc[t] \in {"retireLoad", "retireCas"}, op'[t] = op[t], batch'[t] = batch[t]
    PROVE  RetireOK(t)' /\ pc'[t] \in {"retireLoad", "retireCas", "retireFinish"}
<1>1. CASE PassBy(t)
  BY <1>1, PassByRetires
<1>2. CASE ~PassBy(t)
  <2>1. /\ w.refs # 0 /\ last'[t] = w /\ pc'[t] = "retireCas"
        /\ UNCHANGED <<slot, adjs, doAdjs, skipped>>
    BY <1>2 DEF TrySlot, Goto, TypeOK, countLocals
  <2>2. RetireOK(t)
    BY DEF ThreadInv, ThreadOK
  <2> QED
    BY <2>1, <2>2 DEF RetireOK, RetireLabels
<1> QED
  BY <1>1, <1>2

\* Every step of retire.
LEMMA RetireStays ==
    ASSUME TypeOK, ThreadInv, SlotsAgree, NEW t \in Threads,
           \/ AnyLoad(t) \/ Insert(t) \/ InsertFails(t) \/ RetireAdjust(t)
           \/ RetireNext(t) \/ RetireFinish(t) \/ AnyEnd(t)
           \/ \E b \in Batches : AnyRetire(t, b)
    PROVE  RetireOK(t)'
<1>1. RetireOK(t) /\ ControlOK(t)
  BY DEF ThreadInv, ThreadOK
<1>2. CASE AnyLoad(t) \/ InsertFails(t)
  <2>1. /\ \E w \in HeadWord : TrySlot(t, w)
        /\ op'[t] = op[t] /\ batch'[t] = batch[t]
        /\ pc[t] \in {"retireLoad", "retireCas"}
    BY <1>2, LoadTries
  <2> QED
    BY <2>1, TrySlotRetires
<1>3. CASE Insert(t)
  <2>1. /\ pc[t] = "retireCas" /\ head[slot[t]] = last[t] /\ slot[t] \in Slots
        /\ UNCHANGED <<op, last, batch, slot, adjs, doAdjs, skipped>>
        /\ \/ pc'[t] = "retireNext"
           \/ pc'[t] = "retireAdjust" /\ covers'[t] = Inside(slot[t])
    BY <1>3 DEF Insert, Goto, TypeOK, countLocals
  <2>2. last[t].refs = Cardinality(Inside(slot[t]))
    BY <2>1 DEF SlotsAgree
  <2> QED
    BY <1>1, <2>1, <2>2 DEF RetireOK, RetireLabels
<1>4. CASE RetireAdjust(t)
  <2>1. /\ pc[t] = "retireAdjust" /\ pc'[t] = "retireNext"
        /\ UNCHANGED <<op, batch, slot, adjs, doAdjs, skipped>>
    BY <1>4 DEF RetireAdjust, Goto, TypeOK, countLocals
  <2> QED
    BY <1>1, <2>1 DEF RetireOK, RetireLabels
<1>5. CASE RetireNext(t)
  <2>1. /\ pc[t] = "retireNext" /\ NextSlot(t, doAdjs[t]) /\ doAdjs[t] \in BOOLEAN
        /\ UNCHANGED <<op, batch, adjs, doAdjs, skipped>>
    BY <1>5 DEF RetireNext, TypeOK, countLocals
  <2>2. \/ pc'[t] = "retireLoad" /\ slot'[t] = slot[t] + 1
        \/ pc'[t] = (IF doAdjs[t] THEN "retireFinish" ELSE "free") /\ slot'[t] = slot[t]
    BY <2>1, NextSlotRetires
  <2>3. slot[t] \in Nat /\ skipped[t] \subseteq 0 .. slot[t] - 1
        /\ (doAdjs[t] <=> skipped[t] # {})
    <3>1. slot[t] \in 0 .. NumSlots - 1
      BY DEF TypeOK, Slots
    <3>2. slot[t] \in Nat
      BY <3>1, Constants
    <3> QED
      BY <1>1, <2>1, <3>2 DEF RetireOK, RetireLabels
  <2>4. pc'[t] = "retireLoad" => skipped'[t] \subseteq 0 .. slot'[t] - 1
    <3>1. SUFFICES ASSUME pc'[t] = "retireLoad", NEW x \in skipped[t]
                   PROVE  x \in 0 .. slot'[t] - 1
      BY <2>1
    <3>2. slot'[t] = slot[t] + 1
      BY <2>2, <3>1
    <3>3. x \in 0 .. slot[t] - 1
      BY <2>3
    <3> QED
      BY <2>3, <3>2, <3>3
  <2> QED
    BY <1>1, <2>1, <2>2, <2>3, <2>4 DEF RetireOK, RetireLabels
<1>6. CASE RetireFinish(t) \/ AnyEnd(t)
  <2>1. /\ batch'[t] = NULL /\ slot'[t] = 0 /\ adjs'[t] = 0 /\ doAdjs'[t] = FALSE
        /\ skipped'[t] = {} /\ pc'[t] \in {"free", "idle", "reenter"}
    BY <1>6 DEF RetireFinish, AnyEnd, EndCall, EndFlushed, RetireReset, Goto, TypeOK
  <2>2. Cardinality({}) = 0
    BY FS_EmptySet
  <2>3. IF Cardinality({}) = NumSlots THEN FALSE ELSE Share * Cardinality({}) = 0
    BY <2>2, Constants
  <2> QED
    BY <2>1, <2>3 DEF RetireOK, RetireLabels
<1>7. ASSUME NEW b \in Batches, AnyRetire(t, b) PROVE RetireOK(t)'
  <2>1. /\ pc[t] = "idle" /\ pc'[t] = "retireLoad" /\ op'[t] = "retire"
        /\ batch'[t] = b /\ b # NULL
        /\ UNCHANGED <<slot, adjs, doAdjs, skipped>>
    BY <1>7, Constants DEF AnyRetire, Retire, RetireUnseen, Goto, TypeOK,
       countLocals
  <2>2. skipped[t] = {}
    BY <1>1, <2>1 DEF RetireOK, RetireLabels
  <2> QED
    BY <1>1, <2>1, <2>2 DEF RetireOK, RetireLabels
<1> QED
  BY <1>2, <1>3, <1>4, <1>5, <1>6, <1>7

-----------------------------------------------------------------------------
(* What every action does to the thread that takes it.                     *)

\* enter keeps what holds of its thread.
LEMMA EnterStays ==
    ASSUME TypeOK, ThreadInv, NEW t \in Threads,
           (\E s \in Slots : Enter(t, s)) \/ Reenter(t)
    PROVE  Stays(t)
<1>1. /\ ControlOK(t) /\ RetireOK(t) /\ OnceOK(t)
      /\ held[t] = <<>> /\ todo[t] = <<>> /\ later[t] = <<>> /\ list[t] = {}
      /\ pc[t] \in {"idle", "reenter"} /\ t \notin active /\ op[t] = "none"
  <2>1. pc[t] \in {"idle", "reenter"}
    BY DEF Enter, Reenter
  <2>2. ControlOK(t) /\ RetireOK(t) /\ OnceOK(t)
    BY DEF ThreadInv, ThreadOK
  <2>3. t \notin active
    BY <2>1, <2>2 DEF ControlOK, Enter, Reenter
  <2> QED
    BY <2>1, <2>2, <2>3 DEF ControlOK, In
<1>2. PICK s \in Slots : EnterSlot(t, s)
  BY DEF Enter, Reenter, TypeOK
<1>3. /\ head'[s].ptr = head[s].ptr /\ smr'[t] = head[s].ptr /\ vec'[t] = s
      /\ active' = active \union {t}
  BY <1>2 DEF EnterSlot, TypeOK
<1>4. /\ pc'[t] = "idle"
      /\ UNCHANGED <<held, todo, later, op, list, batch, slot, adjs, doAdjs, skipped>>
  <2>1. pc' = [pc EXCEPT ![t] = "idle"] \/ (pc[t] = "idle" /\ pc' = pc)
    BY DEF Enter, Reenter, Goto
  <2>2. UNCHANGED <<held, todo, later, op, list, batch, slot, adjs, doAdjs, skipped>>
    BY DEF Enter, Reenter, history, retireLocals
  <2> QED
    BY <2>1, <2>2 DEF TypeOK
<1>5. ControlOK(t)'
  BY <1>1, <1>3, <1>4 DEF ControlOK, LeaveLabels
<1>6. RetireOK(t)'
  BY <1>1, <1>4, NoRetirement DEF RetireLabels
<1>7. HeldOK(t)'
  <2>1. head'[vec'[t]].ptr = smr'[t] /\ held'[t] = <<>>
    BY <1>1, <1>3, <1>4
  <2> QED
    BY <2>1 DEF HeldOK
<1>8. LeavesOK(t)' /\ WalksOK(t)'
  BY <1>1, <1>4 DEF LeavesOK, WalksOK
<1>9. OnceOK(t)' /\ \A b : Owes(t, b)' <=> Owes(t, b)
  BY <1>1, <1>4, InEmpty DEF OnceOK, Owes
<1> QED
  BY <1>5, <1>6, <1>7, <1>8, <1>9 DEF Stays, ThreadOK

\* What a nested leave leaves of trim.
LEMMA OuterKept ==
    ASSUME ThreadInv, NEW t \in Threads,
           pc'[t] \notin {"trimRead", "travRead", "travDrop"},
           op'[t] = "nested" => op[t] = "nested",
           next' = next, vec'[t] = vec[t], later'[t] = later[t], outer'[t] = outer[t]
    PROVE  WalksOK(t)'
<1> DEFINE c == outer[t].curr
           n == outer[t].nxt
           e == outer[t].end
           s == vec[t]
<1>1. op[t] = "nested" =>
          IF c = e THEN later[t] = <<>> ELSE Chain(next, s, later[t], n, e)
  BY DEF ThreadInv, ThreadOK, WalksOK
<1>2. n' = n /\ e' = e /\ c' = c /\ s' = s
  OBVIOUS
<1> HIDE DEF c, n, e, s
<1>3. (op[t] = "nested" =>
          IF c = e THEN later[t] = <<>> ELSE Chain(next, s, later[t], n, e))'
  BY <1>1, <1>2
<1> QED
  BY <1>3 DEF WalksOK, c, n, e, s

\* leave loads the head of its slot.
LEMMA LoadStays ==
    ASSUME TypeOK, ThreadInv, NEW t \in Threads, In(t),
           \/ Leave(t) \/ NestedLeave(t) \/ LeaveCasFails(t)
    PROVE  Stays(t)
<1> DEFINE w == head[vec[t]]
<1>1. ControlOK(t) /\ RetireOK(t) /\ HeldOK(t) /\ LeavesOK(t) /\ WalksOK(t) /\ OnceOK(t)
  BY DEF ThreadInv, ThreadOK
<1>2. /\ last'[t] = w /\ w \in HeadWord
      /\ pc'[t] = IF w.ptr # smr[t] THEN "leaveRead" ELSE "leaveCas"
      /\ UNCHANGED <<head, next, held, todo, later, vec, smr, walk, outer, list, batch,
                     slot, adjs, doAdjs, skipped>>
  <2>1. LoadedHead(t, w)
    BY DEF Leave, NestedLeave, LeaveBegin, LeaveCasFails
  <2>2. last'[t] = w /\ pc'[t] = IF w.ptr # smr[t] THEN "leaveRead" ELSE "leaveCas"
    BY <2>1 DEF LoadedHead, Goto, TypeOK
  <2>3. UNCHANGED <<head, next, held, todo, later, vec, smr, walk, outer, list, batch,
                     slot, adjs, doAdjs, skipped>>
    BY DEF Leave, NestedLeave, LeaveBegin, LeaveCasFails, shared, history, callerLocals,
           walkLocals, retireLocals
  <2> QED
    BY <2>2, <2>3 DEF TypeOK
<1>3. /\ pc[t] \in {"idle", "leaveLoad", "leaveCas"}
      /\ op'[t] \in {"leave", "nested"} /\ (op'[t] = "nested" <=> op[t] = "nested")
      /\ op[t] # "retire" /\ t \notin active' /\ In(t)'
  <2>1. CASE Leave(t)
    BY <1>1, <1>2, <2>1 DEF Leave, LeaveBegin, ControlOK, TypeOK, In
  <2>2. CASE NestedLeave(t)
    BY <1>1, <1>2, <2>2 DEF NestedLeave, LeaveBegin, ControlOK, In
  <2>3. CASE LeaveCasFails(t)
    <3>1. pc[t] = "leaveCas" /\ UNCHANGED <<active, op>>
      BY <2>3 DEF LeaveCasFails, client
    <3> QED
      BY <1>1, <1>2, <3>1 DEF ControlOK, In, LeaveLabels
  <2> QED
    BY <2>1, <2>2, <2>3
<1>4. todo[t] = <<>> /\ (op[t] # "nested" => later[t] = <<>>)
  BY <1>1, <1>3 DEF ControlOK
<1> HIDE DEF w
<1>5. ControlOK(t)'
  BY <1>2, <1>3, <1>4 DEF ControlOK, LeaveLabels
<1>6. RetireOK(t)'
  BY <1>2, <1>3, NoRetirement DEF RetireLabels
<1>7. HeldOK(t)'
  BY <1>1, <1>2 DEF HeldOK
<1>8. LeavesOK(t)'
  BY <1>2 DEF LeavesOK, w
<1>9. WalksOK(t)'
  BY <1>2, <1>3, OuterKept
<1>10. OnceOK(t)' /\ \A b : Owes(t, b)' <=> Owes(t, b)
  BY <1>1, <1>2 DEF OnceOK, Owes
<1> QED
  BY <1>5, <1>6, <1>7, <1>8, <1>9, <1>10 DEF Stays, ThreadOK

\* So does leave's reading of the first link,
LEMMA LeaveReadStays ==
    ASSUME TypeOK, ThreadInv, NEW t \in Threads, LeaveRead(t)
    PROVE  Stays(t)
<1> DEFINE n == next[last[t].ptr][vec[t]]
<1>1. ControlOK(t) /\ RetireOK(t) /\ HeldOK(t) /\ LeavesOK(t) /\ WalksOK(t) /\ OnceOK(t)
  BY DEF ThreadInv, ThreadOK
<1>2. /\ pc[t] = "leaveRead" /\ pc'[t] = "leaveCas"
      /\ walk'[t] = [curr |-> NULL, nxt |-> n, end |-> NULL]
      /\ UNCHANGED <<head, next, active, held, todo, later, op, vec, smr, last, outer,
                     list, batch, slot, adjs, doAdjs, skipped>>
  BY DEF LeaveRead, Goto, TypeOK, shared, client, history, callerLocals, retireLocals
<1>3. In(t) /\ In(t)'
  BY <1>2 DEF In
<1>4. ControlOK(t)'
  BY <1>1, <1>2, <1>3 DEF ControlOK, LeaveLabels
<1>5. RetireOK(t)'
  <2>1. op[t] # "retire"
    BY <1>1, <1>2 DEF ControlOK, LeaveLabels
  <2> QED
    BY <1>2, <2>1, NoRetirement DEF RetireLabels
<1>6. HeldOK(t)'
  BY <1>1, <1>2, <1>3 DEF HeldOK
<1>7. LeavesOK(t)'
  <2>1. n' = n
    BY <1>2
  <2>2. walk'[t].nxt = n
    BY <1>2
  <2> HIDE DEF n
  <2>3. (walk[t].nxt = n)'
    BY <2>1, <2>2
  <2> QED
    BY <1>1, <1>2, <2>3 DEF LeavesOK, n
<1>8. WalksOK(t)'
  BY <1>2, OuterKept
<1>9. OnceOK(t)' /\ \A b : Owes(t, b)' <=> Owes(t, b)
  BY <1>1, <1>2 DEF OnceOK, Owes
<1> QED
  BY <1>4, <1>5, <1>6, <1>7, <1>8, <1>9 DEF Stays, ThreadOK

\* A traversal returns when it has come to the last batch it had to come to.
LEMMA ReturnLeaves ==
    ASSUME TypeOK, ThreadInv, NEW t \in Threads, Return(t),
           pc[t] \in {"leaveCas", "leaveClear", "leaveAdjust", "travRead", "travDrop"},
           todo'[t] = IF op[t] = "nested" THEN later[t] ELSE <<>>,
           pc[t] \in {"travRead", "travDrop"} => held'[t] = held[t],
           pc[t] \notin {"travRead", "travDrop"} => held'[t] = <<>>,
           t \in active => head' = head,
           \A b \in Batches : Owes(t, b) => head'[vec[t]].ptr # b,
           UNCHANGED <<next, active, vec, smr, batch, slot, adjs, doAdjs, skipped>>
    PROVE  /\ ThreadOK(t)'
           /\ \A b : Owes(t, b)' <=> InSeq(b, held'[t]) \/ InSeq(b, later[t])
<1>1. ControlOK(t) /\ RetireOK(t) /\ HeldOK(t) /\ LeavesOK(t) /\ WalksOK(t) /\ OnceOK(t)
  BY DEF ThreadInv, ThreadOK
<1>2. /\ later'[t] = <<>>
      /\ op[t] # "nested" => later[t] = <<>>
      /\ op'[t] = IF op[t] = "nested" THEN "trimLeft" ELSE op[t]
      /\ op[t] = "nested" /\ outer[t].curr # outer[t].end => walk'[t] = outer[t]
      /\ pc'[t] = IF op[t] = "nested" /\ outer[t].curr # outer[t].end
                  THEN "travRead" ELSE "free"
      /\ op[t] \in {"leave", "trim", "trimLeft", "nested"}
      /\ op[t] \in {"leave", "trimLeft", "nested"} => t \notin active
      /\ op[t] = "trim" => t \in active
  BY <1>1 DEF Return, Goto, TypeOK, ControlOK, Ops, LeaveLabels, RetireLabels
<1>3. held'[t] = <<>> \/ held'[t] = held[t]
  OBVIOUS
<1>4. In(t)' <=> op[t] = "trim"
  BY <1>2 DEF In
<1>5. op[t] # "trim" => held'[t] = <<>>
  <2>1. op[t] # "trim" /\ pc[t] \in {"travRead", "travDrop"} => ~In(t)
    BY <1>1, <1>2 DEF In
  <2> QED
    BY <1>1, <2>1 DEF ControlOK
<1>6. ControlOK(t)'
  <2>1. op[t] = "nested" /\ outer[t].curr = outer[t].end => later[t] = <<>>
    BY <1>1 DEF WalksOK
  <2> QED
    BY <1>1, <1>2, <1>4, <1>5, <2>1 DEF ControlOK, LeaveLabels
<1>7. RetireOK(t)'
  BY <1>2, NoRetirement DEF RetireLabels
<1>8. HeldOK(t)'
  <2>1. CASE op[t] = "trim"
    <3>1. In(t) /\ head' = head /\ held'[t] = held[t]
      BY <1>1, <1>2, <2>1 DEF In, ControlOK, LeaveLabels
    <3> QED
      BY <1>1, <3>1 DEF HeldOK
  <2>2. CASE op[t] # "trim"
    BY <1>4, <2>2 DEF HeldOK
  <2> QED
    BY <2>1, <2>2
<1>9. LeavesOK(t)'
  BY <1>2 DEF LeavesOK
<1>10. WalksOK(t)'
  <2>1. (pc[t] = "travRead" => Chain(next, vec[t], todo[t], walk[t].nxt, walk[t].end))'
    <3>1. SUFFICES ASSUME op[t] = "nested", outer[t].curr # outer[t].end
                   PROVE  Chain(next, vec[t], todo[t], walk[t].nxt, walk[t].end)'
      BY <1>2
    <3>2. Chain(next, vec[t], later[t], outer[t].nxt, outer[t].end)
      BY <1>1, <3>1 DEF WalksOK
    <3> QED
      BY <1>2, <3>1, <3>2
  <2> QED
    BY <1>2, <2>1 DEF WalksOK
<1>11. \A b : Owes(t, b)' <=> InSeq(b, held'[t]) \/ InSeq(b, later[t])
  BY <1>2, InEmpty DEF Owes
<1>12. OnceOK(t)'
  <2>1. /\ Distinct(held'[t]) /\ Distinct(todo'[t]) /\ Distinct(later'[t])
        /\ Disjoint(held'[t], todo'[t]) /\ Disjoint(held'[t], later'[t])
        /\ Disjoint(todo'[t], later'[t])
    BY <1>1, <1>2, <1>3, InEmpty DEF OnceOK
  <2>2. \A b \in Batches : Owes(t, b)' => head'[vec[t]].ptr # b
    BY <1>3, <1>11, InEmpty DEF Owes
  <2> QED
    BY <2>1, <2>2 DEF OnceOK
<1> QED
  BY <1>6, <1>7, <1>8, <1>9, <1>10, <1>11, <1>12 DEF ThreadOK

\* What lies below the head that the compare-and-swap has just replaced.
LEMMA LeavesRest ==
    ASSUME TypeOK, ThreadInv, NEW t \in Threads, pc[t] = "leaveCas",
           head[vec[t]] = last[t]
    PROVE  IF last[t].ptr = smr[t] THEN held[t] = <<>>
           ELSE Chain(next, vec[t], held[t], walk[t].nxt, smr[t])
<1> DEFINE p == last[t].ptr
           s == vec[t]
<1>1. In(t) /\ p = head[s].ptr /\ (p # smr[t] => walk[t].nxt = next[p][s])
  BY DEF In, ThreadInv, ThreadOK, LeavesOK
<1>2. CASE p = smr[t]
  BY <1>1, <1>2, HoldsNothing
<1>3. CASE p # smr[t]
  <2>1. Chain(next, s, held[t], next[p][s], smr[t])
    BY <1>1, <1>3, HoldsHead
  <2> QED
    BY <1>1, <1>3, <2>1
<1> QED
  BY <1>2, <1>3

\* The tail of leave: the traversal of what lies below the head starts, or
\* there is nothing to traverse.
LEMMA TraverseStays ==
    ASSUME TypeOK, ThreadInv, NEW t \in Threads, NEW rest, LeaveTraverse(t, rest),
           pc[t] \in {"leaveCas", "leaveClear", "leaveAdjust"},
           rest = IF pc[t] = "leaveCas" THEN held[t] ELSE todo[t],
           IF last[t].ptr = smr[t] THEN rest = <<>>
           ELSE Chain(next, vec[t], rest, walk[t].nxt, smr[t]),
           held'[t] = <<>>,
           \A b \in Batches : Owes(t, b) => head'[vec[t]].ptr # b,
           UNCHANGED <<next, active, vec, smr, batch, slot, adjs, doAdjs, skipped>>
    PROVE  Stays(t)
<1> DEFINE n == walk[t].nxt
           s == vec[t]
           e == smr[t]
<1>1. ControlOK(t) /\ RetireOK(t) /\ WalksOK(t) /\ OnceOK(t)
  BY DEF ThreadInv, ThreadOK
<1>2. op[t] \in {"leave", "nested"} /\ t \notin active
  BY <1>1 DEF ControlOK, LeaveLabels
<1>3. /\ pc[t] = "leaveCas" => todo[t] = <<>>
      /\ pc[t] # "leaveCas" => held[t] = <<>>
      /\ op[t] # "nested" => later[t] = <<>>
  BY <1>1, <1>2 DEF ControlOK, In
<1>4. \A b : Owes(t, b) <=> InSeq(b, rest) \/ InSeq(b, later[t])
  BY <1>3, InEmpty DEF Owes
<1>5. Distinct(rest) /\ Disjoint(rest, later[t]) /\ Distinct(later[t])
  BY <1>1 DEF OnceOK
<1>6. CASE last[t].ptr = e
  <2>1. Return(t) /\ todo'[t] = IF op[t] = "nested" THEN later[t] ELSE <<>>
    BY <1>6 DEF LeaveTraverse, TodoAfterReturn, TypeOK
  <2>2. ThreadOK(t)' /\ \A b : Owes(t, b)' <=> InSeq(b, held'[t]) \/ InSeq(b, later[t])
    <3>1. t \in active => head' = head
      BY <1>2
    <3> QED
      BY <2>1, <3>1, ReturnLeaves
  <2> QED
    BY <1>4, <1>6, <2>2, InEmpty DEF Stays
<1>7. CASE last[t].ptr # e
  <2>1. /\ todo'[t] = rest /\ pc'[t] = "travRead"
        /\ walk'[t] = [curr |-> NULL, nxt |-> n, end |-> e]
        /\ UNCHANGED <<op, outer, thr, later>>
    BY <1>7 DEF LeaveTraverse, Goto, TypeOK
  <2>2. ~In(t)'
    BY <1>2, <2>1 DEF In
  <2>3. ControlOK(t)'
    BY <1>1, <1>2, <1>3, <2>1, <2>2 DEF ControlOK, LeaveLabels
  <2>4. RetireOK(t)'
    BY <1>2, <2>1, NoRetirement DEF RetireLabels
  <2>5. HeldOK(t)' /\ LeavesOK(t)'
    BY <2>1, <2>2 DEF HeldOK, LeavesOK
  <2>6. WalksOK(t)'
    <3>1. (op[t] = "nested" =>
            IF outer[t].curr = outer[t].end THEN later[t] = <<>>
            ELSE Chain(next, vec[t], later[t], outer[t].nxt, outer[t].end))'
      BY <1>1, <2>1 DEF WalksOK
    <3> HIDE DEF n, e, s
    <3>2. walk'[t].nxt = n /\ walk'[t].end = e
      BY <2>1
    <3>3. Chain(next, s, rest, n, e)
      BY <1>7 DEF n, e, s
    <3>4. Chain(next, vec[t], todo[t], walk[t].nxt, walk[t].end)'
      BY <2>1, <3>2, <3>3 DEF s
    <3> QED
      BY <2>1, <3>1, <3>4 DEF WalksOK
  <2>7. \A b : Owes(t, b)' <=> Owes(t, b)
    BY <1>4, <2>1, InEmpty DEF Owes
  <2>8. OnceOK(t)'
    BY <1>5, <2>1, <2>7, InEmpty DEF OnceOK
  <2> QED
    BY <2>3, <2>4, <2>5, <2>6, <2>7, <2>8 DEF Stays, ThreadOK
<1> QED
  BY <1>6, <1>7

\* its compare-and-swap,
LEMMA LeaveCasStays ==
    ASSUME TypeOK, ThreadInv, NEW t \in Threads, LeaveCas(t)
    PROVE  Stays(t)
<1> DEFINE w == last[t]
           s == vec[t]
<1>1. ControlOK(t) /\ RetireOK(t) /\ WalksOK(t) /\ OnceOK(t)
  BY DEF ThreadInv, ThreadOK
<1>2. /\ pc[t] = "leaveCas" /\ head[s] = w
      /\ head'[s].ptr \in {w.ptr, NULL}
      /\ held'[t] = <<>>
      /\ UNCHANGED <<next, active, vec, smr, list, batch, slot, adjs, doAdjs, skipped>>
  BY DEF LeaveCas, HeadAfterLeave, Empty, client, callerLocals, retireLocals, TypeOK
<1>3. IF w.ptr = smr[t] THEN held[t] = <<>>
      ELSE Chain(next, s, held[t], walk[t].nxt, smr[t])
  BY <1>2, LeavesRest
<1>4. \A b \in Batches : Owes(t, b) => head'[s].ptr # b
  BY <1>1, <1>2, Constants DEF OnceOK
<1>5. CASE ~LastOut(w)
  <2>1. LeaveTraverse(t, held[t])
    BY <1>5 DEF LeaveCas
  <2> QED
    BY <1>2, <1>3, <1>4, <2>1, TraverseStays
<1>6. CASE LastOut(w)
  <2>1. /\ todo'[t] = held[t] /\ pc'[t] \in {"leaveAdjust", "leaveClear"}
        /\ UNCHANGED <<op, last, walk, outer, later>>
    BY <1>6 DEF LeaveCas, Goto, TypeOK, walkLocals
  <2>2. op[t] \in {"leave", "nested"} /\ t \notin active /\ ~In(t)' /\ todo[t] = <<>>
        /\ w.ptr # NULL
    BY <1>1, <1>2, <1>6, <2>1 DEF ControlOK, LeaveLabels, In, LastOut
  <2>3. ControlOK(t)'
    BY <1>1, <1>2, <2>1, <2>2 DEF ControlOK, LeaveLabels
  <2>4. RetireOK(t)'
    BY <1>2, <2>1, <2>2, NoRetirement DEF RetireLabels
  <2>5. HeldOK(t)'
    BY <2>2 DEF HeldOK
  <2>6. LeavesOK(t)'
    <3> DEFINE n == walk[t].nxt
    <3>1. n' = n
      BY <2>1
    <3> HIDE DEF n
    <3>2. (IF last[t].ptr = smr[t] THEN todo[t] = <<>>
           ELSE Chain(next, vec[t], todo[t], n, smr[t]))'
      BY <1>2, <1>3, <2>1, <3>1 DEF n
    <3> QED
      BY <2>1, <3>2 DEF LeavesOK, n
  <2>7. WalksOK(t)'
    BY <1>2, <2>1, OuterKept
  <2>8. \A b : Owes(t, b)' <=> Owes(t, b)
    BY <1>2, <2>1, <2>2, InEmpty DEF Owes
  <2>9. OnceOK(t)'
    BY <1>1, <1>2, <1>4, <2>1, <2>2, <2>8, InEmpty DEF OnceOK
  <2> QED
    BY <2>3, <2>4, <2>5, <2>6, <2>7, <2>8, <2>9 DEF Stays, ThreadOK
<1> QED
  BY <1>5, <1>6

\* the emptying of the slot by the last one out,
LEMMA LeaveClearStays ==
    ASSUME TypeOK, ThreadInv, NEW t \in Threads, LeaveClear(t)
    PROVE  Stays(t)
<1>1. ControlOK(t) /\ RetireOK(t) /\ LeavesOK(t) /\ WalksOK(t) /\ OnceOK(t)
  BY DEF ThreadInv, ThreadOK
<1>2. /\ pc[t] = "leaveClear" /\ pc'[t] = "leaveAdjust"
      /\ head'[vec[t]].ptr = NULL
      /\ UNCHANGED <<next, active, held, todo, later, op, vec, smr, last, walk, outer,
                     list, batch, slot, adjs, doAdjs, skipped>>
  BY DEF LeaveClear, Goto, TypeOK, Empty, client, history, callerLocals, walkLocals,
         retireLocals
<1>3. op[t] \in {"leave", "nested"} /\ t \notin active /\ ~In(t) /\ ~In(t)'
  BY <1>1, <1>2 DEF ControlOK, LeaveLabels, In
<1>4. ControlOK(t)'
  BY <1>1, <1>2, <1>3 DEF ControlOK, LeaveLabels
<1>5. RetireOK(t)'
  BY <1>2, <1>3, NoRetirement DEF RetireLabels
<1>6. HeldOK(t)'
  BY <1>3 DEF HeldOK
<1>7. LeavesOK(t)'
  BY <1>1, <1>2 DEF LeavesOK
<1>8. WalksOK(t)'
  BY <1>2, OuterKept
<1>9. OnceOK(t)' /\ \A b : Owes(t, b)' <=> Owes(t, b)
  BY <1>1, <1>2, Constants DEF OnceOK, Owes
<1> QED
  BY <1>4, <1>5, <1>6, <1>7, <1>8, <1>9 DEF Stays, ThreadOK

\* the steps after it,
LEMMA LeaveEndStays ==
    ASSUME TypeOK, ThreadInv, NEW t \in Threads, LeaveClearFails(t) \/ LeaveAdjust(t)
    PROVE  Stays(t)
<1>1. ControlOK(t) /\ LeavesOK(t) /\ OnceOK(t)
  BY DEF ThreadInv, ThreadOK
<1>2. /\ pc[t] \in {"leaveClear", "leaveAdjust"} /\ LeaveTraverse(t, todo[t])
      /\ UNCHANGED <<head, next, active, held, vec, smr, batch, slot, adjs, doAdjs,
                     skipped>>
  BY DEF LeaveClearFails, LeaveAdjust, shared, client, callerLocals, retireLocals
<1>3. IF last[t].ptr = smr[t] THEN todo[t] = <<>>
      ELSE Chain(next, vec[t], todo[t], walk[t].nxt, smr[t])
  BY <1>1, <1>2 DEF LeavesOK
<1>4. held'[t] = <<>>
  BY <1>1, <1>2 DEF ControlOK, In, LeaveLabels
<1>5. \A b \in Batches : Owes(t, b) => head'[vec[t]].ptr # b
  BY <1>1, <1>2 DEF OnceOK
<1> QED
  BY <1>2, <1>3, <1>4, <1>5, TraverseStays

\* the reading of a link on a walk,
LEMMA TravReadStays ==
    ASSUME TypeOK, ThreadInv, NEW t \in Threads, TravRead(t)
    PROVE  Stays(t)
<1> DEFINE n == walk[t].nxt
           e == walk[t].end
           s == vec[t]
<1>1. /\ ControlOK(t) /\ RetireOK(t) /\ HeldOK(t) /\ WalksOK(t) /\ OnceOK(t)
      /\ pc[t] = "travRead" /\ Chain(next, s, todo[t], n, e)
  BY DEF ThreadInv, ThreadOK, TravRead, WalksOK
<1>2. UNCHANGED <<next, refs, head, held, active, vec, smr, list, batch, slot, adjs,
                  doAdjs, skipped, last>>
  BY DEF TravRead, shared, client, callerLocals, retireLocals
<1>3. CASE walk[t].nxt = NULL
  <2>1. todo[t] = <<>>
    BY <1>1, <1>3, ReadsTodo
  <2>2. Return(t) /\ todo'[t] = IF op[t] = "nested" THEN later[t] ELSE <<>>
    BY <1>3, <2>1 DEF TravRead, TodoAfterReturn, TypeOK
  <2>3. /\ ThreadOK(t)'
        /\ \A b : Owes(t, b)' <=> InSeq(b, held'[t]) \/ InSeq(b, later[t])
    <3>1. \A b \in Batches : Owes(t, b) => head'[vec[t]].ptr # b
      BY <1>1, <1>2 DEF OnceOK
    <3> QED
      BY <1>1, <1>2, <2>2, <3>1, ReturnLeaves
  <2> QED
    BY <1>2, <2>1, <2>3, InEmpty DEF Stays, Owes
<1>4. CASE walk[t].nxt # NULL
  <2>1. /\ walk'[t] = [curr |-> n, nxt |-> next[n][s], end |-> e]
        /\ pc'[t] = "travDrop"
        /\ UNCHANGED <<op, outer, todo, later>>
    BY <1>4 DEF TravRead, Goto, TypeOK
  <2>2. todo[t] # <<>>
    BY <1>1, <1>4, ReadsTodo
  <2>3. In(t)' <=> In(t)
    BY <1>1, <1>2, <2>1 DEF In
  <2>4. ControlOK(t)'
    BY <1>1, <1>2, <2>1, <2>3 DEF ControlOK, LeaveLabels, RetireLabels
  <2>5. RetireOK(t)'
    <3>1. op[t] # "retire"
      BY <1>1 DEF ControlOK, RetireLabels
    <3> QED
      BY <1>1, <1>2, <2>1, <3>1, NoRetirement DEF RetireLabels
  <2>6. HeldOK(t)' /\ LeavesOK(t)'
    BY <1>1, <1>2, <2>1, <2>3 DEF HeldOK, LeavesOK
  <2>7. WalksOK(t)'
    <3>1. (op[t] = "nested" =>
            IF outer[t].curr = outer[t].end THEN later[t] = <<>>
            ELSE Chain(next, vec[t], later[t], outer[t].nxt, outer[t].end))'
      BY <1>1, <1>2, <2>1 DEF WalksOK
    <3> HIDE DEF n, e
    <3>2. walk'[t].curr = n /\ walk'[t].end = e /\ walk'[t].nxt = next[n][s]
      BY <2>1
    <3>3. /\ Chain(next, vec[t], todo[t], walk[t].curr, walk[t].end)'
          /\ (walk[t].nxt = next[walk[t].curr][vec[t]])'
      BY <1>1, <1>2, <2>1, <3>2
    <3> QED
      BY <1>2, <2>1, <2>2, <3>1, <3>3 DEF WalksOK
  <2>8. OnceOK(t)' /\ \A b : Owes(t, b)' <=> Owes(t, b)
    BY <1>1, <1>2, <2>1 DEF OnceOK, Owes
  <2> QED
    BY <2>4, <2>5, <2>6, <2>7, <2>8 DEF Stays, ThreadOK
<1> QED
  BY <1>3, <1>4

\* The one action after which t owes a decrement less.
LEMMA TravDropLeaves ==
    ASSUME TypeOK, ThreadInv, NEW t \in Threads, TravDrop(t)
    PROVE  /\ ThreadOK(t)'
           /\ Owes(t, walk[t].curr)
           /\ \A b \in Batches :
                  Owes(t, b)' <=> Owes(t, b) /\ b # walk[t].curr
<1> DEFINE c == walk[t].curr
           e == walk[t].end
           n == walk[t].nxt
           r == Tail(todo[t])
<1>1. /\ ControlOK(t) /\ RetireOK(t) /\ HeldOK(t) /\ WalksOK(t) /\ OnceOK(t)
      /\ pc[t] = "travDrop"
  BY DEF ThreadInv, ThreadOK, TravDrop
<1>2. UNCHANGED <<next, head, held, active, vec, smr, batch, slot, adjs, doAdjs,
                  skipped, last>>
  BY DEF TravDrop, client, callerLocals, retireLocals
<1>3. /\ todo[t] # <<>> /\ todo[t] \in Seq(Batches)
      /\ c = todo[t][1] /\ c \in Batches
      /\ r \in Seq(Batches)
      /\ c = e => r = <<>>
      /\ c # e => Chain(next, vec[t], r, n, e)
  BY <1>1, DropsTodo
<1>4. /\ Distinct(r) /\ ~InSeq(c, r) /\ InSeq(c, todo[t])
      /\ \A b : InSeq(b, todo[t]) <=> b = c \/ InSeq(b, r)
  BY <1>1, <1>3, InTail DEF OnceOK
<1>5. ~InSeq(c, held[t]) /\ ~InSeq(c, later[t])
  BY <1>1, <1>3, <1>4 DEF OnceOK, Disjoint
<1>6. Disjoint(held[t], r) /\ Disjoint(r, later[t])
  BY <1>1, <1>4 DEF OnceOK, Disjoint
<1>7. Owes(t, c)
  BY <1>4 DEF Owes
<1>8. \A b : (InSeq(b, held[t]) \/ InSeq(b, r) \/ InSeq(b, later[t])
                <=> Owes(t, b) /\ b # c)
  BY <1>4, <1>5 DEF Owes
<1>9. op[t] # "retire" /\ (In(t) <=> t \in active)
  BY <1>1 DEF ControlOK, RetireLabels, In
<1>10. CASE Flushes(t, c)
  <2>1. /\ op'[t] = "nested" /\ outer'[t] = walk[t] /\ later'[t] = r
        /\ todo'[t] = <<>> /\ pc'[t] = "leaveLoad"
        /\ op[t] = "trim"
    BY <1>10 DEF TravDrop, Flushes, Goto, TypeOK
  <2>2. later[t] = <<>> /\ t \in active /\ In(t)'
    BY <1>1, <1>2, <2>1 DEF ControlOK, In
  <2>3. ControlOK(t)'
    BY <1>1, <1>2, <2>1, <2>2 DEF ControlOK, LeaveLabels
  <2>4. RetireOK(t)'
    BY <1>1, <1>2, <1>9, <2>1, NoRetirement DEF RetireLabels
  <2>5. HeldOK(t)' /\ LeavesOK(t)'
    BY <1>1, <1>2, <1>9, <2>1, <2>2 DEF HeldOK, LeavesOK
  <2>6. WalksOK(t)'
    <3>1. outer'[t].curr = c /\ outer'[t].end = e /\ outer'[t].nxt = n
      BY <2>1
    <3> HIDE DEF c, n, e, r
    <3>2. (IF outer[t].curr = outer[t].end THEN later[t] = <<>>
           ELSE Chain(next, vec[t], later[t], outer[t].nxt, outer[t].end))'
      BY <1>2, <1>3, <2>1, <3>1
    <3> QED
      BY <2>1, <3>2 DEF WalksOK
  <2>7. \A b : Owes(t, b)' <=> Owes(t, b) /\ b # c
    BY <1>2, <1>8, <2>1, <2>2, InEmpty DEF Owes
  <2>8. OnceOK(t)'
    BY <1>1, <1>2, <1>4, <1>6, <2>1, <2>7, InEmpty DEF OnceOK
  <2> QED
    BY <1>7, <2>3, <2>4, <2>5, <2>6, <2>7, <2>8 DEF ThreadOK
<1>11. CASE ~Flushes(t, c) /\ c # e
  <2>1. /\ todo'[t] = r /\ pc'[t] = "travRead"
        /\ UNCHANGED <<op, walk, outer, later>>
    BY <1>11 DEF TravDrop, Flushes, Goto, TypeOK
  <2>2. In(t)' <=> In(t)
    BY <1>2, <1>9, <2>1 DEF In
  <2>3. ControlOK(t)'
    BY <1>1, <1>2, <2>1, <2>2 DEF ControlOK, LeaveLabels, RetireLabels
  <2>4. RetireOK(t)'
    BY <1>1, <1>2, <1>9, <2>1, NoRetirement DEF RetireLabels
  <2>5. HeldOK(t)' /\ LeavesOK(t)'
    BY <1>1, <1>2, <2>1, <2>2 DEF HeldOK, LeavesOK
  <2>6. WalksOK(t)'
    <3>1. (op[t] = "nested" =>
            IF outer[t].curr = outer[t].end THEN later[t] = <<>>
            ELSE Chain(next, vec[t], later[t], outer[t].nxt, outer[t].end))'
      BY <1>1, <1>2, <2>1 DEF WalksOK
    <3>2. walk'[t].end = e /\ walk'[t].nxt = n
      BY <2>1
    <3> HIDE DEF c, n, e, r
    <3>3. Chain(next, vec[t], todo[t], walk[t].nxt, walk[t].end)'
      BY <1>2, <1>3, <1>11, <2>1, <3>2
    <3> QED
      BY <2>1, <3>1, <3>3 DEF WalksOK
  <2>7. \A b : Owes(t, b)' <=> Owes(t, b) /\ b # c
    BY <1>2, <1>8, <2>1 DEF Owes
  <2>8. OnceOK(t)'
    BY <1>1, <1>2, <1>4, <1>6, <2>1, <2>7 DEF OnceOK
  <2> QED
    BY <1>7, <2>3, <2>4, <2>5, <2>6, <2>7, <2>8 DEF ThreadOK
<1>12. CASE ~Flushes(t, c) /\ c = e
  <2>1. Return(t) /\ todo'[t] = IF op[t] = "nested" THEN later[t] ELSE r
    BY <1>12 DEF TravDrop, TodoAfterReturn, TypeOK
  <2>2. r = <<>>
    BY <1>3, <1>12
  <2>3. /\ ThreadOK(t)'
        /\ \A b : Owes(t, b)' <=> InSeq(b, held'[t]) \/ InSeq(b, later[t])
    <3>1. \A b \in Batches : Owes(t, b) => head'[vec[t]].ptr # b
      BY <1>1, <1>2 DEF OnceOK
    <3> QED
      BY <1>1, <1>2, <2>1, <2>2, <3>1, ReturnLeaves
  <2> QED
    BY <1>2, <1>7, <1>8, <2>2, <2>3, InEmpty
<1> QED
  BY <1>10, <1>11, <1>12

\* the beginning of a trim,
LEMMA TrimBeginStays ==
    ASSUME TypeOK, ThreadInv, NEW t \in Threads, NEW th \in TrimThresholds,
           TrimBegin(t, th)
    PROVE  Stays(t)
<1> DEFINE h == head[vec[t]].ptr
           n == next[h][vec[t]]
<1>1. /\ ControlOK(t) /\ RetireOK(t) /\ OnceOK(t)
      /\ pc[t] = "idle" /\ t \in active /\ h # smr[t] /\ In(t)
  BY DEF ThreadInv, ThreadOK, TrimBegin, In
<1>2. /\ smr'[t] = h /\ op'[t] = "trim" /\ pc'[t] = "trimRead"
      /\ walk'[t].end = smr[t]
      /\ todo'[t] = held[t] /\ held'[t] = <<>>
      /\ UNCHANGED <<next, head, active, later, vec, outer, list, batch, slot, adjs,
                     doAdjs, skipped, last>>
  BY DEF TrimBegin, Goto, shared, retireLocals, TypeOK
<1>3. h \in Batches /\ h # NULL /\ Chain(next, vec[t], held[t], n, smr[t])
  BY <1>1, HoldsHead, Constants
<1>4. todo[t] = <<>> /\ later[t] = <<>> /\ op[t] = "none"
  BY <1>1 DEF ControlOK
<1>5. ControlOK(t)'
  BY <1>1, <1>2, <1>4 DEF ControlOK, LeaveLabels
<1>6. RetireOK(t)'
  BY <1>1, <1>2, <1>4, NoRetirement DEF RetireLabels
<1>7. HeldOK(t)' /\ LeavesOK(t)'
  BY <1>2 DEF HeldOK, LeavesOK
<1>8. WalksOK(t)'
  <2>1. (n = next[smr[t]][vec[t]])'
    BY <1>2
  <2>2. n' = n /\ smr'[t] # NULL
    BY <1>2, <1>3
  <2> HIDE DEF n, h
  <2>3. Chain(next, vec[t], todo[t], next[smr[t]][vec[t]], walk[t].end)'
    BY <1>2, <1>3, <2>1, <2>2
  <2> QED
    BY <1>2, <2>2, <2>3 DEF WalksOK
<1>9. \A b : Owes(t, b)' <=> Owes(t, b)
  BY <1>2, <1>4, InEmpty DEF Owes
<1>10. OnceOK(t)'
  BY <1>1, <1>2, <1>4, <1>9, InEmpty DEF OnceOK
<1> QED
  BY <1>5, <1>6, <1>7, <1>8, <1>9, <1>10 DEF Stays, ThreadOK

\* its reading of the first link,
LEMMA TrimReadStays ==
    ASSUME TypeOK, ThreadInv, NEW t \in Threads, TrimRead(t)
    PROVE  Stays(t)
<1> DEFINE n == next[smr[t]][vec[t]]
           e == walk[t].end
<1>1. /\ ControlOK(t) /\ RetireOK(t) /\ HeldOK(t) /\ WalksOK(t) /\ OnceOK(t)
      /\ pc[t] = "trimRead" /\ op[t] = "trim" /\ t \in active
  BY DEF ThreadInv, ThreadOK, TrimRead, ControlOK
<1>2. /\ walk'[t] = [curr |-> NULL, nxt |-> n, end |-> e] /\ pc'[t] = "travRead"
      /\ UNCHANGED <<next, head, active, held, todo, later, op, vec, smr, outer, list,
                     batch, slot, adjs, doAdjs, skipped, last>>
  BY DEF TrimRead, Goto, shared, client, history, callerLocals, retireLocals, TypeOK
<1>3. Chain(next, vec[t], todo[t], n, e)
  BY <1>1 DEF WalksOK
<1>4. ControlOK(t)'
  BY <1>1, <1>2 DEF ControlOK, LeaveLabels, In
<1>5. RetireOK(t)'
  BY <1>1, <1>2, NoRetirement DEF RetireLabels
<1>6. HeldOK(t)' /\ LeavesOK(t)'
  BY <1>1, <1>2 DEF HeldOK, LeavesOK, In
<1>7. WalksOK(t)'
  <2> HIDE DEF n, e
  <2>1. walk'[t].nxt = n /\ walk'[t].end = e
    BY <1>2
  <2>2. Chain(next, vec[t], todo[t], walk[t].nxt, walk[t].end)'
    BY <1>2, <1>3, <2>1
  <2> QED
    BY <1>1, <1>2, <2>2 DEF WalksOK
<1>8. OnceOK(t)' /\ \A b : Owes(t, b)' <=> Owes(t, b)
  BY <1>1, <1>2 DEF OnceOK, Owes
<1> QED
  BY <1>4, <1>5, <1>6, <1>7, <1>8 DEF Stays, ThreadOK

\* A step that moves t along without touching its list.
LEMMA StillStays ==
    ASSUME TypeOK, ThreadInv, NEW t \in Threads, ControlOK(t)', RetireOK(t)',
           head' = head, held'[t] = held[t], todo'[t] = todo[t], later'[t] = later[t],
           pc'[t] \notin LeaveLabels \union {"trimRead", "travRead", "travDrop"},
           op'[t] # "nested",
           In(t)' <=> In(t),
           In(t) => vec'[t] = vec[t] /\ smr'[t] = smr[t],
           \A b \in Batches : Owes(t, b) => vec'[t] = vec[t],
           \A b \in Batches : Linked(t, b) => next'[b][vec[t]] = next[b][vec[t]]
    PROVE  Stays(t)
<1>1. OnceOK(t)
  BY DEF ThreadInv, ThreadOK
<1>2. HeldOK(t)'
  <2>1. CASE In(t)
    BY <2>1, HeldKept
  <2>2. CASE ~In(t)
    BY <2>2 DEF HeldOK
  <2> QED
    BY <2>1, <2>2
<1>3. LeavesOK(t)' /\ WalksOK(t)'
  BY DEF LeavesOK, WalksOK, LeaveLabels
<1>4. \A b : Owes(t, b)' <=> Owes(t, b)
  BY DEF Owes
<1>5. OnceOK(t)'
  <2>1. \A b \in Batches : Owes(t, b)' => head'[vec'[t]].ptr # b
    BY <1>1, <1>4 DEF OnceOK
  <2> QED
    BY <1>1, <2>1 DEF OnceOK
<1> QED
  BY <1>2, <1>3, <1>4, <1>5 DEF Stays, ThreadOK

\* and every step of retire but the insertion.
LEMMA RetirerStays ==
    ASSUME TypeOK, ThreadInv, SlotsAgree, NEW t \in Threads,
           \/ AnyLoad(t) \/ InsertFails(t) \/ RetireAdjust(t)
           \/ RetireNext(t) \/ RetireFinish(t)
           \/ \E b \in Batches : AnyRetire(t, b)
    PROVE  Stays(t)
<1>1. ControlOK(t) /\ RetireOK(t)
  BY DEF ThreadInv, ThreadOK
<1>2. RetireOK(t)'
  BY RetireStays
<1>3. /\ pc'[t] \in RetireLabels \union {"free"} /\ op'[t] = "retire"
      /\ pc[t] \in RetireLabels \/ (pc[t] = "idle" /\ list[t] = {})
      /\ UNCHANGED <<head, next, active, held, todo, later, vec, smr>>
  <2>1. CASE AnyLoad(t) \/ InsertFails(t)
    <3>1. /\ \E w \in HeadWord : TrySlot(t, w)
          /\ op'[t] = op[t] /\ batch'[t] = batch[t]
          /\ pc[t] \in {"retireLoad", "retireCas"}
          /\ UNCHANGED <<head, next, active, held, todo, later, vec, smr>>
      BY <2>1, LoadTries DEF shared, client, history, callerLocals
    <3>2. pc'[t] \in RetireLabels
      BY <3>1, TrySlotRetires DEF RetireLabels
    <3>3. op[t] = "retire" /\ UNCHANGED <<head, next, active, held, todo, later, vec, smr>>
      BY <1>1, <3>1 DEF RetireOK, RetireLabels
    <3> QED
      BY <3>1, <3>2, <3>3 DEF RetireLabels
  <2>2. CASE RetireAdjust(t)
    BY <1>1, <2>2 DEF RetireAdjust, Goto, TypeOK, RetireOK, RetireLabels, client,
       history, callerLocals
  <2>3. CASE RetireNext(t)
    <3>1. /\ pc[t] = "retireNext" /\ NextSlot(t, doAdjs[t]) /\ doAdjs[t] \in BOOLEAN
          /\ op'[t] = op[t]
          /\ UNCHANGED <<head, next, active, held, todo, later, vec, smr>>
      BY <2>3 DEF RetireNext, TypeOK, shared, client, history, callerLocals
    <3> QED
      BY <1>1, <3>1, NextSlotRetires DEF RetireOK, RetireLabels
  <2>4. CASE RetireFinish(t)
    BY <1>1, <2>4 DEF RetireFinish, Goto, TypeOK, RetireOK, RetireLabels, client,
       history, callerLocals
  <2>5. CASE \E b \in Batches : AnyRetire(t, b)
    BY <1>1, <2>5 DEF AnyRetire, Retire, RetireUnseen, Goto, TypeOK, RetireLabels,
       ControlOK, history, callerLocals
  <2> QED
    BY <2>1, <2>2, <2>3, <2>4, <2>5
<1>4. op[t] \in {"none", "retire"} /\ (In(t) <=> t \in active) /\ (In(t)' <=> In(t))
  BY <1>1, <1>3 DEF ControlOK, RetireOK, In, RetireLabels
<1>5. todo[t] = <<>> /\ later[t] = <<>> /\ (~In(t) => held[t] = <<>>)
  BY <1>1, <1>3, <1>4 DEF ControlOK, RetireLabels
<1>6. ControlOK(t)'
  <2>1. pc'[t] = "retireAdjust" => last'[t].ptr # NULL
    <3>1. CASE AnyLoad(t) \/ InsertFails(t)
      <4>1. /\ \E w \in HeadWord : TrySlot(t, w)
            /\ op'[t] = op[t] /\ batch'[t] = batch[t]
            /\ pc[t] \in {"retireLoad", "retireCas"}
        BY <3>1, LoadTries
      <4> QED
        BY <4>1, TrySlotRetires
    <3>2. CASE ~(AnyLoad(t) \/ InsertFails(t))
      BY <3>2 DEF NextSlot, Goto, RetireAdjust, RetireNext, RetireFinish, AnyRetire,
         Retire, RetireUnseen, TypeOK
    <3> QED
      BY <3>1, <3>2
  <2> QED
    BY <1>3, <1>4, <1>5, <2>1 DEF ControlOK, RetireLabels, LeaveLabels
<1> QED
  BY <1>2, <1>3, <1>4, <1>6, StillStays DEF LeaveLabels, RetireLabels

\* While batches are given back, and when the call returns.
LEMMA FreeStays ==
    ASSUME TypeOK, ThreadInv, SlotsAgree, RefsInv, NEW t \in Threads,
           TrimNothing(t) \/ AnyEnd(t) \/ \E b \in Batches : Free(t, b)
    PROVE  Stays(t)
<1>1. ControlOK(t) /\ RetireOK(t)
  BY DEF ThreadInv, ThreadOK
<1>2. CASE TrimNothing(t)
  <2>1. /\ pc[t] = "idle" /\ op[t] # "nested"
        /\ UNCHANGED <<head, next, active, held, todo, later, pc, op, vec, smr, last,
                       list, batch, slot, adjs, doAdjs, skipped, covers>>
    BY <1>1, <1>2 DEF TrimNothing, ControlOK, shared, history, callerLocals,
       retireLocals
  <2>2. ControlOK(t)' /\ RetireOK(t)' /\ (In(t)' <=> In(t))
    BY <1>1, <2>1 DEF ControlOK, RetireOK, In
  <2> QED
    BY <2>1, <2>2, StillStays DEF LeaveLabels
<1>3. ASSUME NEW b \in Batches, Free(t, b) PROVE Stays(t)
  <2>1. /\ pc[t] = "free" /\ b \in list[t]
        /\ next' = [next EXCEPT ![b] = [s \in Slots |-> NULL]]
        /\ list'[t] = list[t] \ {b}
        /\ UNCHANGED <<head, active, held, todo, later, pc, op, vec, smr, last, batch,
                       slot, adjs, doAdjs, skipped, covers>>
    BY <1>3 DEF Free, TypeOK, history, callerLocals, retireLocals
  <2>2. op[t] # "nested"
    BY <1>1, <2>1 DEF ControlOK, LeaveLabels
  <2>3. ~Linked(t, b)
    <3>1. Open(b) = {} /\ Owers(b) = {}
      BY <2>1 DEF RefsInv, Listed
    <3>2. vec[t] \in Slots
      BY DEF TypeOK
    <3> QED
      BY <3>1, <3>2 DEF Linked, Open, Owers
  <2>4. ControlOK(t)' /\ RetireOK(t)' /\ (In(t)' <=> In(t))
    BY <1>1, <2>1 DEF ControlOK, RetireOK, In
  <2>5. \A c \in Batches : Linked(t, c) => next'[c][vec[t]] = next[c][vec[t]]
    BY <2>1, <2>3 DEF TypeOK
  <2> QED
    BY <2>1, <2>2, <2>4, <2>5, StillStays DEF LeaveLabels
<1>4. CASE AnyEnd(t)
  <2>1. /\ pc[t] = "free" /\ list[t] = {} /\ op'[t] = "none"
        /\ pc'[t] \in {"idle", "reenter"}
        /\ pc'[t] = "reenter" => op[t] = "trimLeft"
        /\ t \in active => vec'[t] = vec[t] /\ smr'[t] = smr[t]
        /\ UNCHANGED <<head, next, active, held, todo, later, list>>
    <3>1. CASE EndCall(t)
      BY <3>1 DEF EndCall, Goto, TypeOK, shared, client, history
    <3>2. CASE EndFlushed(t)
      BY <1>1, <3>2 DEF EndFlushed, Goto, TypeOK, ControlOK, shared, client, history
    <3> QED
      BY <1>4, <3>1, <3>2 DEF AnyEnd
  <2>2. op[t] # "nested" /\ todo[t] = <<>> /\ later[t] = <<>>
    BY <1>1, <2>1 DEF ControlOK, LeaveLabels
  <2>3. (In(t) <=> t \in active) /\ (In(t)' <=> In(t)) /\ (~In(t) => held[t] = <<>>)
    BY <1>1, <2>1 DEF ControlOK, In
  <2>4. \A b \in Batches : Owes(t, b) => vec'[t] = vec[t]
    BY <2>1, <2>2, <2>3, InEmpty DEF Owes
  <2>5. ControlOK(t)'
    BY <1>1, <2>1, <2>2, <2>3 DEF ControlOK, LeaveLabels
  <2>6. RetireOK(t)'
    BY <1>4, RetireStays
  <2> QED
    BY <2>1, <2>3, <2>4, <2>5, <2>6, StillStays DEF LeaveLabels
<1> QED
  BY <1>2, <1>3, <1>4

-----------------------------------------------------------------------------
(* The compare-and-swap of retire, seen by every thread in the slot.       *)

\* The batch is new to the slot and to everyone in it.
LEMMA InsertNew ==
    ASSUME TypeOK, ThreadInv, KeepInv, OweInv, NEW t \in Threads, Insert(t)
    PROVE  /\ slot[t] \in Slots /\ batch[t] \in Batches
           /\ last[t].ptr = head[slot[t]].ptr /\ last[t].ptr \in Ptr
           /\ last[t].ptr # batch[t]
           /\ \A u \in Threads : vec[u] = slot[t] => ~Owes(u, batch[t])
<1> DEFINE s == slot[t]
           b == batch[t]
<1>1. pc[t] = "retireCas" /\ head[s] = last[t] /\ s \in Slots /\ last[t].ptr \in Ptr
  BY Members DEF Insert, TypeOK
<1>2. b \in Batches
  BY <1>1, RetiresBatch DEF RetireLabels
<1>3. Keeps(t, b, s)
  <2>1. s \in s .. NumSlots - 1
    BY <1>1, Constants DEF Slots
  <2>2. s \in Ahead(t)
    BY <1>1, <2>1 DEF Ahead
  <2> QED
    BY <2>2 DEF Keeps
<1>4. head[s].ptr # b
  BY <1>1, <1>2, <1>3 DEF KeepInv
<1>5. ASSUME NEW u \in Threads, vec[u] = s, Owes(u, b) PROVE FALSE
  <2>1. s \in Open(b)
    BY <1>1, <1>3 DEF Open
  <2>2. <<s, u>> \in Uncounted(b)
    BY <1>2, <1>5, <2>1 DEF OweInv, Settled
  <2>3. PICK v \in Threads : pc[v] = "retireAdjust" /\ last[v].ptr = b /\ slot[v] = s
    BY <2>2 DEF Uncounted
  <2>4. Keeps(v, b, s)
    BY <2>3 DEF Keeps, Adjusts
  <2>5. v = t
    BY <1>1, <1>2, <1>3, <2>4 DEF KeepInv
  <2> QED
    BY <1>1, <2>3, <2>5
<1> QED
  BY <1>1, <1>2, <1>4, <1>5

\* What the compare-and-swap writes.
LEMMA InsertEffect ==
    ASSUME TypeOK, ThreadInv, KeepInv, OweInv, NEW t \in Threads, Insert(t)
    PROVE  /\ head'[slot[t]].ptr = batch[t] /\ next'[batch[t]][slot[t]] = last[t].ptr
           /\ \A s \in Slots : s # slot[t] => head'[s] = head[s]
           /\ \A c \in Batches, s \in Slots :
                  c # batch[t] \/ s # slot[t] => next'[c][s] = next[c][s]
           /\ \A u \in Threads :
                  held'[u] = IF u \in Inside(slot[t]) /\ last[t].ptr # NULL
                             THEN <<last[t].ptr>> \o held[u] ELSE held[u]
           /\ UNCHANGED <<todo, later, vec, smr, walk, outer, op, active, list, last>>
           /\ \A u \in Threads : u # t => pc'[u] = pc[u]
           /\ pc[t] = "retireCas"
           /\ pc'[t] = IF last[t].ptr = NULL THEN "retireNext" ELSE "retireAdjust"
           /\ \A u \in Threads : \A c \in Batches :
                  Linked(u, c) => next'[c][vec[u]] = next[c][vec[u]]
<1> USE DEF TypeOK, client, callerLocals, walkLocals
<1>1. slot[t] \in Slots /\ batch[t] \in Batches
  BY InsertNew
<1>2. /\ head'[slot[t]].ptr = batch[t] /\ next'[batch[t]][slot[t]] = last[t].ptr
      /\ \A s \in Slots : s # slot[t] => head'[s] = head[s]
      /\ \A c \in Batches, s \in Slots :
                  c # batch[t] \/ s # slot[t] => next'[c][s] = next[c][s]
  BY <1>1 DEF Insert
<1>3. /\ \A u \in Threads :
                  held'[u] = IF u \in Inside(slot[t]) /\ last[t].ptr # NULL
                             THEN <<last[t].ptr>> \o held[u] ELSE held[u]
      /\ UNCHANGED <<todo, later, vec, smr, walk, outer, op, active, list, last>>
      /\ \A u \in Threads : u # t => pc'[u] = pc[u]
      /\ pc[t] = "retireCas"
      /\ pc'[t] = IF last[t].ptr = NULL THEN "retireNext" ELSE "retireAdjust"
  BY ZenonT(90) DEF Insert, Goto
<1>4. ASSUME NEW u \in Threads, NEW c \in Batches, Linked(u, c)
      PROVE  next'[c][vec[u]] = next[c][vec[u]]
  <2>1. c = batch[t] => vec[u] # slot[t]
    BY <1>4, InsertNew DEF Linked
  <2> QED
    BY <1>2, <2>1
<1> QED
  BY <1>2, <1>3, <1>4

\* The list of a thread in the slot has grown by the old head.
LEMMA InsertHolds ==
    ASSUME TypeOK, ThreadInv, KeepInv, OweInv, NEW t \in Threads, Insert(t),
           NEW u \in Threads, u \in Inside(slot[t])
    PROVE  HeldOK(u)'
<1> DEFINE s == slot[t]
           b == batch[t]
           prev == last[t].ptr
           q == held[u]
           e == smr[u]
<1>1. /\ vec[u] = s /\ In(u) /\ s \in Slots /\ b \in Batches /\ prev \in Ptr
      /\ head[s].ptr = prev /\ prev # b /\ ~Owes(u, b) /\ q \in Seq(Batches)
  BY InsertNew DEF Inside, TypeOK
<1>2. /\ head'[s].ptr = b /\ next'[b][s] = prev
      /\ \A c \in Batches : c # b => next'[c][s] = next[c][s]
      /\ held'[u] = IF prev # NULL THEN <<prev>> \o q ELSE q
      /\ vec'[u] = s /\ smr'[u] = e
  BY <1>1, InsertEffect
<1>3. /\ prev = e => q = <<>>
      /\ prev # e => /\ prev \in Batches /\ ~InSeq(prev, q)
                     /\ Chain(next, s, q, next[prev][s], e)
  BY <1>1, HoldsHead, HoldsNothing
<1>4. ~InSeq(b, q) /\ \A c : InSeq(c, q) => c \in Batches /\ c # b
  <2>1. ~InSeq(b, q)
    BY <1>1 DEF Owes
  <2> QED
    BY <1>1, <2>1, ElementOfSeq DEF InSeq
<1> HIDE DEF s, b, prev, q, e
<1>5. e # b
  <2>1. CASE prev = e
    BY <1>1, <2>1
  <2>2. CASE prev # e /\ e # NULL
    <3>1. q # <<>> /\ q[Len(q)] = e
      BY <1>3, <2>2 DEF Chain
    <3>2. Len(q) \in 1 .. Len(q)
      BY <1>1, <3>1, EmptySeq
    <3>3. InSeq(e, q)
      BY <3>1, <3>2 DEF InSeq
    <3> QED
      BY <1>4, <3>3
  <2>3. CASE e = NULL
    BY <1>1, <2>3, Constants
  <2> QED
    BY <2>1, <2>2, <2>3
<1>6. ~InSeq(b, held'[u])
  <2>1. prev # NULL => \A c : InSeq(c, <<prev>> \o q) <=> c = prev \/ InSeq(c, q)
    BY <1>1, InCons DEF Ptr
  <2> QED
    BY <1>1, <1>2, <1>4, <2>1
<1>7. Chain(next', s, held'[u], prev, e)
  <2>1. CASE prev = NULL
    <3>1. e = NULL
      BY <1>3, <2>1, Constants
    <3>2. q = <<>>
      BY <1>3, <2>1, <3>1
    <3> QED
      BY <1>2, <2>1, <3>1, <3>2 DEF Chain
  <2>2. CASE prev # NULL /\ prev = e
    <3>1. q = <<>> /\ prev \in Batches /\ held'[u] = <<prev>>
      BY <1>1, <1>2, <1>3, <2>2 DEF Ptr
    <3> QED
      BY <2>2, <3>1, ChainSingle, Constants
  <2>3. CASE prev # e
    <3>1. prev \in Batches /\ ~InSeq(prev, q) /\ Chain(next, s, q, next[prev][s], e)
      BY <1>3, <2>3
    <3>2. prev # NULL /\ next'[prev][s] = next[prev][s]
      BY <1>1, <1>2, <3>1, Constants
    <3>3. Chain(next', s, q, next[prev][s], e)
      <4>1. \A c : InSeq(c, q) => next'[c][s] = next[c][s]
        BY <1>2, <1>4
      <4> QED
        BY <1>1, <3>1, <4>1, ChainFrame
    <3>4. Chain(next', s, <<prev>> \o q, prev, e)
      BY <1>1, <3>1, <3>2, <3>3, ChainCons, Constants
    <3> QED
      BY <1>2, <3>2, <3>4
  <2> QED
    BY <2>1, <2>2, <2>3
<1>8. head'[vec'[u]].ptr = b /\ next'[b][vec'[u]] = prev /\ smr'[u] = e
  BY <1>2
<1>9. Chain(next', vec'[u], held'[u], next'[head'[vec'[u]].ptr][vec'[u]], smr'[u])
  BY <1>2, <1>7, <1>8
<1>10. b # NULL
  BY <1>1, Constants
<1> QED
  BY <1>5, <1>6, <1>8, <1>9, <1>10 DEF HeldOK

\* Every thread in the slot owes the old head from here on.
LEMMA InsertStays ==
    ASSUME TypeOK, ThreadInv, SlotsAgree, KeepInv, OweInv, NEW t \in Threads,
           Insert(t), NEW u \in Threads
    PROVE  /\ ThreadOK(u)'
           /\ \A c \in Batches : Owes(u, c)' <=>
                  Owes(u, c) \/ (u \in Inside(slot[t]) /\ c = last[t].ptr)
<1> DEFINE s == slot[t]
           b == batch[t]
           prev == last[t].ptr
           s0 == vec[u]
           q == held[u]
<1>1. /\ s \in Slots /\ b \in Batches /\ prev \in Ptr /\ prev # b /\ s0 \in Slots
      /\ head[s].ptr = prev /\ q \in Seq(Batches)
      /\ ControlOK(u) /\ RetireOK(u) /\ HeldOK(u) /\ LeavesOK(u) /\ WalksOK(u) /\ OnceOK(u)
  BY InsertNew DEF TypeOK, ThreadInv, ThreadOK
<1>2. /\ head'[s].ptr = b
      /\ s0 # s => head'[s0] = head[s0]
      /\ held'[u] = IF u \in Inside(s) /\ prev # NULL THEN <<prev>> \o q ELSE q
      /\ UNCHANGED <<todo, later, vec, smr, walk, outer, op, active, list, last>>
      /\ u # t => pc'[u] = pc[u]
      /\ pc[t] = "retireCas"
      /\ pc'[t] = IF prev = NULL THEN "retireNext" ELSE "retireAdjust"
      /\ \A c \in Batches : Linked(u, c) => next'[c][s0] = next[c][s0]
  BY <1>1, InsertEffect
<1>3. u \in Inside(s) <=> s0 = s /\ In(u)
  BY DEF Inside
<1>4. ASSUME u \in Inside(s)
      PROVE  ~Owes(u, b) /\ (prev \in Batches => ~Owes(u, prev))
  BY <1>1, <1>3, <1>4, InsertNew DEF OnceOK
<1>5. prev = NULL \/ prev \in Batches
  BY <1>1 DEF Ptr
<1> HIDE DEF s, b, prev, q
<1>6. \A c : InSeq(c, held'[u]) <=>
             InSeq(c, held[u]) \/ (u \in Inside(s) /\ prev # NULL /\ c = prev)
  <2>1. prev # NULL => \A c : InSeq(c, <<prev>> \o q) <=> c = prev \/ InSeq(c, q)
    BY <1>1, <1>5, InCons
  <2> QED
    BY <1>2, <2>1 DEF q
<1>7. \A c \in Batches : Owes(u, c)' <=> Owes(u, c) \/ (u \in Inside(s) /\ c = prev)
  <2>1. \A c \in Batches : c = prev => prev # NULL
    BY Constants
  <2> QED
    BY <1>2, <1>6, <2>1 DEF Owes
<1>8. /\ u = t => op[u] = "retire" /\ todo[u] = <<>> /\ later[u] = <<>>
      /\ In(u)' <=> In(u)
  <2>1. u = t => op[u] = "retire" /\ todo[u] = <<>> /\ later[u] = <<>>
    BY <1>1, <1>2 DEF RetireOK, RetireLabels, ControlOK
  <2>2. In(u)' <=> In(u)
    BY <1>2 DEF In
  <2> QED
    BY <2>1, <2>2
<1>9. ControlOK(u)'
  <2>1. ~In(u) => held'[u] = <<>>
    BY <1>1, <1>2, <1>3 DEF ControlOK, q
  <2>2. CASE u # t
    BY <1>1, <1>2, <1>8, <2>1, <2>2 DEF ControlOK
  <2>3. CASE u = t
    BY <1>1, <1>2, <1>8, <2>1, <2>3 DEF ControlOK, LeaveLabels, RetireLabels, prev
  <2> QED
    BY <2>2, <2>3
<1>10. RetireOK(u)'
  <2>1. CASE u # t
    <3>1. Kept(u)
      BY <2>1, KeptByOthers DEF AnyStep, Step, AnyLoad, AnyEnd
    <3> QED
      BY <1>1, <3>1 DEF RetireOK, Kept
  <2>2. CASE u = t
    BY <2>2, RetireStays
  <2> QED
    BY <2>1, <2>2
<1>11. HeldOK(u)'
  <2>1. CASE u \in Inside(s)
    BY <2>1, InsertHolds DEF s
  <2>2. CASE In(u) /\ s0 # s
    <3>1. head'[vec[u]].ptr = head[vec[u]].ptr /\ held'[u] = held[u]
      BY <1>2, <1>3, <2>2 DEF q
    <3> QED
      BY <1>2, <2>2, <3>1, HeldKept
  <2>3. CASE ~In(u)
    BY <1>8, <2>3 DEF HeldOK
  <2> QED
    BY <1>3, <2>1, <2>2, <2>3
<1>12. LeavesOK(u)'
  <2>1. CASE u = t
    BY <1>2, <2>1 DEF LeavesOK
  <2>2. CASE u # t
    <3>1. ASSUME pc[u] \in {"leaveRead", "leaveCas"}
          PROVE  \/ last[u].ptr = head'[vec[u]].ptr
                 \/ InSeq(last[u].ptr, held'[u])
                 \/ last[u].ptr = NULL /\ smr[u] = NULL
      <4>1. In(u)
        BY <3>1 DEF In
      <4>2. \/ last[u].ptr = head[s0].ptr \/ InSeq(last[u].ptr, held[u])
            \/ last[u].ptr = NULL /\ smr[u] = NULL
        BY <1>1, <3>1 DEF LeavesOK
      <4>3. CASE s0 # s
        BY <1>2, <1>6, <4>2, <4>3
      <4>4. CASE s0 = s /\ prev # NULL
        BY <1>1, <1>3, <1>6, <4>1, <4>2, <4>4
      <4>5. CASE s0 = s /\ prev = NULL
        <5>1. smr[u] = NULL
          BY <1>1, <4>1, <4>5 DEF HeldOK
        <5> QED
          BY <1>1, <1>6, <4>2, <4>5, <5>1
      <4> QED
        BY <4>3, <4>4, <4>5
    <3> QED
      BY <1>2, <2>2, <3>1, LeavesKept
  <2> QED
    BY <2>1, <2>2
<1>13. WalksOK(u)'
  BY <1>2, WalksKept
<1>14. OnceOK(u)'
  <2>1. \A c \in Batches : Owes(u, c)' => head'[vec'[u]].ptr # c
    <3>1. SUFFICES ASSUME NEW c \in Batches, Owes(u, c)' PROVE head'[s0].ptr # c
      BY <1>2
    <3>2. CASE s0 = s
      <4>1. ~Owes(u, b)
        BY <3>2, InsertNew DEF s, b
      <4> QED
        BY <1>1, <1>2, <1>7, <3>1, <3>2, <4>1
    <3>3. CASE s0 # s
      BY <1>1, <1>2, <1>3, <1>7, <3>1, <3>3 DEF OnceOK
    <3> QED
      BY <3>2, <3>3
  <2>2. Distinct(held[u]) /\ Distinct(todo[u]) /\ Distinct(later[u])
        /\ Disjoint(held[u], todo[u]) /\ Disjoint(held[u], later[u])
        /\ Disjoint(todo[u], later[u])
    BY <1>1 DEF OnceOK
  <2>3. CASE u \in Inside(s) /\ prev # NULL
    <3>1. ~InSeq(prev, held[u]) /\ ~InSeq(prev, todo[u]) /\ ~InSeq(prev, later[u])
      BY <1>4, <1>5, <2>3 DEF Owes
    <3>2. Distinct(<<prev>> \o q)
      BY <1>1, <1>5, <2>2, <2>3, <3>1, InCons DEF q
    <3>3. Disjoint(held'[u], todo[u]) /\ Disjoint(held'[u], later[u])
      BY <1>6, <2>2, <3>1 DEF Disjoint
    <3> QED
      BY <1>2, <2>1, <2>2, <2>3, <3>2, <3>3 DEF OnceOK
  <2>4. CASE ~(u \in Inside(s) /\ prev # NULL)
    BY <1>2, <2>1, <2>2, <2>4 DEF OnceOK, q
  <2> QED
    BY <2>3, <2>4
<1> QED
  BY <1>7, <1>9, <1>10, <1>11, <1>12, <1>13, <1>14 DEF ThreadOK, s, prev

-----------------------------------------------------------------------------
(* What the actions of a thread do to the others.                          *)

\* The count of a head tells whether anybody, or anybody else, is in the slot.
LEMMA InsideCount ==
    ASSUME SlotsAgree, NEW s \in Slots
    PROVE  /\ IsFiniteSet(Inside(s)) /\ Inside(s) \subseteq Threads
           /\ head[s].refs \in Nat /\ head[s].refs <= Cardinality(Threads)
           /\ head[s].refs = Cardinality(Inside(s))
           /\ head[s].refs = 0 <=> Inside(s) = {}
           /\ \A t, u \in Inside(s) : head[s].refs = 1 => t = u
<1>1. Inside(s) \subseteq Threads /\ head[s].refs = Cardinality(Inside(s))
  BY DEF SlotsAgree, Inside
<1>2. IsFiniteSet(Inside(s)) /\ Cardinality(Inside(s)) <= Cardinality(Threads)
  BY <1>1, FS_Subset, Constants
<1>3. Cardinality(Inside(s)) \in Nat
  BY <1>2, FS_CardinalityType
<1>4. Cardinality(Inside(s)) = 0 <=> Inside(s) = {}
  BY <1>2, FS_EmptySet
<1>5. \A t, u \in Inside(s) : Cardinality(Inside(s)) = 1 => t = u
  BY <1>2, FS_Singleton
<1> QED
  BY <1>1, <1>2, <1>3, <1>4, <1>5

\* Steps that leave the shared lists alone.
LEMMA NoListChange ==
    ASSUME TypeOK, ThreadInv, NEW u \in Threads, next' = next,
           \A s \in Slots : head'[s].ptr = head[s].ptr, held'[u] = held[u]
    PROVE  SlotKept(u)
<1>1. OnceOK(u) /\ vec[u] \in Slots
  BY DEF ThreadInv, ThreadOK, TypeOK
<1> QED
  BY <1>1 DEF SlotKept, OnceOK

\* The slots of the others keep their lists when one leaves.
LEMMA LastOutLeaves ==
    ASSUME TypeOK, ThreadInv, SlotsAgree, NEW t \in Threads,
           LeaveCas(t) \/ LeaveClear(t), NEW u \in Threads, u # t
    PROVE  SlotKept(u)
<1> DEFINE s == vec[t]
<1>1. OnceOK(u) /\ vec[u] \in Slots /\ s \in Slots
  BY DEF ThreadInv, ThreadOK, TypeOK
<1>2. next' = next /\ held'[u] = held[u]
  BY DEF LeaveCas, LeaveClear, TypeOK, history
<1>3. \A r \in Slots : r # s => head'[r] = head[r]
  BY DEF LeaveCas, LeaveClear, TypeOK
<1>4. head'[s].ptr = head[s].ptr \/ (head'[s].ptr = NULL /\ (vec[u] = s => ~In(u)))
  <2>1. CASE LeaveCas(t)
    <3>1. t \in Inside(s) /\ head[s] = last[t] /\ head'[s] = HeadAfterLeave(last[t])
      BY <1>1, <2>1 DEF LeaveCas, Inside, In, TypeOK
    <3>2. CASE head[s].refs = 1
      <4>1. vec[u] = s => ~In(u)
        <5>1. u \notin Inside(s)
          BY <1>1, <3>1, <3>2, InsideCount
        <5> QED
          BY <5>1 DEF Inside
      <4>2. head'[s].ptr = head[s].ptr \/ head'[s].ptr = NULL
        BY <3>1 DEF HeadAfterLeave, Empty
      <4> QED
        BY <4>1, <4>2
    <3>3. CASE head[s].refs # 1
      BY <3>1, <3>3 DEF HeadAfterLeave
    <3> QED
      BY <3>2, <3>3
  <2>2. CASE LeaveClear(t)
    <3>1. head[s].refs = 0 /\ head'[s].ptr = NULL
      BY <1>1, <2>2 DEF LeaveClear, Empty, TypeOK
    <3> QED
      BY <1>1, <3>1, InsideCount DEF Inside
  <2> QED
    BY <2>1, <2>2
<1> HIDE DEF s
<1>5. \A b \in Batches : Owes(u, b) => head'[vec[u]].ptr # b
  BY <1>1, <1>3, <1>4, Constants DEF OnceOK
<1> QED
  BY <1>1, <1>2, <1>3, <1>4, <1>5 DEF SlotKept

\* Memory that is given back is nobody's any more.
LEMMA FreedIsForgotten ==
    ASSUME TypeOK, ThreadInv, RefsInv, NEW t \in Threads, NEW b \in Batches, Free(t, b),
           NEW u \in Threads
    PROVE  SlotKept(u)
<1>1. /\ next' = [next EXCEPT ![b] = [s \in Slots |-> NULL]]
      /\ b \in list[t] /\ head' = head /\ held' = held
  BY DEF Free, history
<1>2. Open(b) = {} /\ Owers(b) = {}
  BY <1>1 DEF RefsInv, Listed
<1>3. OnceOK(u) /\ vec[u] \in Slots
  BY DEF ThreadInv, ThreadOK, TypeOK
<1>4. ~Linked(u, b)
  BY <1>2, <1>3 DEF Linked, Open, Owers
<1>5. \A c \in Batches : c # b => next'[c] = next[c]
  BY <1>1 DEF TypeOK
<1>6. \A c \in Batches : Linked(u, c) => next'[c][vec[u]] = next[c][vec[u]]
  BY <1>4, <1>5
<1> QED
  BY <1>1, <1>3, <1>6 DEF SlotKept, OnceOK

\* What holds of the other threads is kept by every step but the insertion.
LEMMA OthersStay ==
    ASSUME TypeOK, ThreadInv, SlotsAgree, RefsInv, NEW t \in Threads,
           AnyCall(t) \/ AnyStep(t), ~Insert(t), NEW u \in Threads, u # t
    PROVE  Stays(u)
<1>1. CASE (\E s \in Slots : Enter(t, s)) \/ Reenter(t)
  <2>1. PICK r \in Slots : EnterSlot(t, r)
    BY <1>1 DEF Enter, Reenter, TypeOK
  <2>2. \A s \in Slots : head'[s].ptr = head[s].ptr
    BY <2>1 DEF EnterSlot, TypeOK
  <2>3. next' = next /\ held' = held
    BY <1>1 DEF Enter, Reenter, history
  <2> QED
    BY <2>2, <2>3, NoListChange, KeptByOthers, Untouched
<1>2. CASE LeaveCas(t) \/ LeaveClear(t)
  BY <1>2, LastOutLeaves, KeptByOthers, Untouched
<1>3. CASE \E b \in Batches : Free(t, b)
  BY <1>3, FreedIsForgotten, KeptByOthers, Untouched
<1>4. CASE /\ ~\E s \in Slots : Enter(t, s)
           /\ ~Reenter(t) /\ ~LeaveCas(t) /\ ~LeaveClear(t)
           /\ ~\E b \in Batches : Free(t, b)
  <2>1. next' = next /\ head' = head /\ held'[u] = held[u]
    <3> USE DEF shared, history, TypeOK
    <3>1. CASE Leave(t) \/ NestedLeave(t)
      BY <3>1 DEF Leave, NestedLeave, LeaveBegin
    <3>2. CASE LeaveRead(t) \/ LeaveCasFails(t) \/ LeaveClearFails(t) \/ LeaveAdjust(t)
      BY <3>2 DEF LeaveRead, LeaveCasFails, LeaveClearFails, LeaveAdjust
    <3>3. CASE TravRead(t) \/ TravDrop(t)
      BY <3>3 DEF TravRead, TravDrop
    <3>4. CASE Trim(t) \/ TrimRead(t)
      BY <3>4 DEF Trim, TrimNothing, TrimBegin, TrimRead
    <3>5. CASE AnyLoad(t) \/ InsertFails(t) \/ RetireAdjust(t) \/ RetireNext(t)
      BY <3>5 DEF AnyLoad, RetireLoad, PassByEpoch, InsertFails, RetireAdjust,
         RetireNext
    <3>6. CASE RetireFinish(t) \/ AnyEnd(t)
      BY <3>6 DEF RetireFinish, AnyEnd, EndCall, EndFlushed
    <3>7. CASE \E b \in Batches : AnyRetire(t, b)
      BY <3>7 DEF AnyRetire, Retire, RetireUnseen
    <3> QED
      BY <1>4, <3>1, <3>2, <3>3, <3>4, <3>5, <3>6, <3>7 DEF AnyCall, Call,
         AnyRetire, AnyStep, Step, AnyLoad, AnyEnd
  <2> QED
    BY <2>1, NoListChange, KeptByOthers, Untouched
<1> QED
  BY <1>1, <1>2, <1>3, <1>4

\* The client's allocation keeps what holds of every thread.
LEMMA AllocStays ==
    ASSUME TypeOK, ThreadInv, NEW u \in Threads,
           (\E b \in Batches : Alloc(b)) \/ UNCHANGED vars
    PROVE  Stays(u)
<1>1. Kept(u) /\ next' = next /\ head' = head /\ held' = held
  BY DEF Alloc, Kept, vars, shared, history, callerLocals, walkLocals, retireLocals
<1> QED
  BY <1>1, NoListChange, Untouched

\* Who owes what after a step of t: insertions add debts, traversals pay them.
LEMMA OwesStep ==
    ASSUME TypeOK, ThreadInv, SlotsAgree, KeepInv, OweInv, RefsInv, NEW t \in Threads,
           AnyCall(t) \/ AnyStep(t), ~Insert(t), NEW u \in Threads
    PROVE  /\ ThreadOK(u)'
           /\ ~(TravDrop(t) /\ u = t) => Stays(u)
<1>1. CASE u # t
  BY <1>1, OthersStay DEF Stays
<1>2. CASE u = t /\ TravDrop(t)
  BY <1>2, TravDropLeaves
<1>3. CASE u = t /\ ~TravDrop(t)
  <2>1. In(t) \/ ~(Leave(t) \/ NestedLeave(t) \/ LeaveCasFails(t))
    <3>1. ControlOK(t)
      BY DEF ThreadInv, ThreadOK
    <3> QED
      BY <3>1 DEF Leave, NestedLeave, LeaveCasFails, In, ControlOK
  <2> QED
    BY <1>3, <2>1, EnterStays, LoadStays, LeaveReadStays, LeaveCasStays,
       LeaveClearStays, LeaveEndStays, TravReadStays, TrimBeginStays, TrimReadStays,
       RetirerStays, FreeStays DEF AnyCall, Call, AnyRetire, AnyStep, Step, AnyLoad,
          AnyEnd, Trim, Stays
<1> QED
  BY <1>1, <1>2, <1>3

\* Every step keeps what holds of every thread.
LEMMA ThreadStep ==
    ASSUME TypeOK, ThreadInv, SlotsAgree, KeepInv, OweInv, RefsInv, [AnyNext]_vars
    PROVE  ThreadInv'
<1>1. SUFFICES ASSUME NEW u \in Threads PROVE ThreadOK(u)'
  BY DEF ThreadInv
<1>2. CASE (\E b \in Batches : Alloc(b)) \/ UNCHANGED vars
  BY <1>2, AllocStays DEF Stays
<1>3. ASSUME NEW t \in Threads, AnyCall(t) \/ AnyStep(t) PROVE ThreadOK(u)'
  BY <1>3, InsertStays, OwesStep
<1> QED
  BY <1>2, <1>3 DEF AnyNext

-----------------------------------------------------------------------------
(* Numbers.                                                                *)

\* The sizes of the sets that a balance is made of.
LEMMA Sizes ==
    ASSUME NEW X \in SUBSET Slots, NEW Y \in SUBSET Threads,
           NEW Z \in SUBSET (X \X Threads)
    PROVE  /\ IsFiniteSet(X) /\ IsFiniteSet(Y) /\ IsFiniteSet(Z) /\ IsFiniteSet(Slots \ X)
           /\ Cardinality(Slots \ X) \in 0 .. NumSlots
           /\ Cardinality(Slots \ X) = NumSlots <=> X = {}
           /\ Cardinality(Slots \ X) = 0 <=> Slots \ X = {}
           /\ Cardinality(Y) \in 0 .. Cardinality(Threads)
           /\ Cardinality(Y) = 0 <=> Y = {}
           /\ Cardinality(Z) \in Nat
           /\ Cardinality(Z) <= (NumSlots - Cardinality(Slots \ X)) * Cardinality(Threads)
<1>1. IsFiniteSet(Slots) /\ Cardinality(Slots) = NumSlots
  BY FS_Interval, Constants DEF Slots
<1>2. IsFiniteSet(X) /\ IsFiniteSet(Slots \ X)
  BY <1>1, FS_Subset
<1>3. Cardinality(X) \in Nat /\ Cardinality(Slots \ X) \in Nat
  BY <1>2, FS_CardinalityType
<1>4. Cardinality(Slots \ X) = NumSlots - Cardinality(X)
  <2>1. Slots \cap X = X
    OBVIOUS
  <2> QED
    BY <1>1, <2>1, FS_Difference
<1>5. Cardinality(X) = 0 <=> X = {}
  BY <1>2, FS_EmptySet
<1>6. Cardinality(Slots \ X) = 0 <=> Slots \ X = {}
  BY <1>2, FS_EmptySet
<1>7. /\ IsFiniteSet(Y) /\ Cardinality(Y) <= Cardinality(Threads)
      /\ Cardinality(Y) \in Nat /\ (Cardinality(Y) = 0 <=> Y = {})
  BY FS_Subset, FS_CardinalityType, FS_EmptySet, Constants
<1>8. /\ IsFiniteSet(X \X Threads)
      /\ Cardinality(X \X Threads) = Cardinality(X) * Cardinality(Threads)
  BY <1>2, FS_Product, Constants
<1>9. /\ IsFiniteSet(Z) /\ Cardinality(Z) \in Nat
      /\ Cardinality(Z) <= Cardinality(X) * Cardinality(Threads)
  BY <1>8, FS_Subset, FS_CardinalityType
<1>10. Cardinality(Slots \ X) <= NumSlots /\ NumSlots - Cardinality(Slots \ X) = Cardinality(X)
  BY <1>3, <1>4, Constants
<1>11. Cardinality(Slots \ X) = NumSlots <=> X = {}
  BY <1>3, <1>4, <1>5, Constants
<1>12. Cardinality(Z) <= (NumSlots - Cardinality(Slots \ X)) * Cardinality(Threads)
  BY <1>9, <1>10
<1>13. /\ Cardinality(Slots \ X) \in 0 .. NumSlots
       /\ Cardinality(Y) \in 0 .. Cardinality(Threads)
  BY <1>3, <1>7, <1>10, Constants
<1> QED
  BY <1>2, <1>6, <1>7, <1>9, <1>11, <1>12, <1>13

\* A balance of s shares, o references and u references to come is within two
\* counter ranges, and stands for 0 only when all the shares are in and no
\* reference is left: the references to come never use up a share.
LEMMA Tally ==
    ASSUME NEW s \in 0 .. NumSlots, NEW o \in 0 .. Cardinality(Threads), NEW u \in Nat,
           u <= (NumSlots - s) * Cardinality(Threads), s = 0 => o <= u
    PROVE  /\ 0 - Mod < Share * s + o - u /\ Share * s + o - u < 2 * Mod
           /\ Share * s + o - u \in Int
           /\ Share * s + o - u = Mod <=> s = NumSlots /\ o = 0
           /\ Share * s + o - u = 0 <=> s = 0 /\ o = u
           /\ s = NumSlots => Share * s + o - u = Mod + o
<1> DEFINE n == Cardinality(Threads)
           k == NumSlots
           d == Share
           m == Share * s
           x == (k - s) * n
<1>1. /\ k \in Nat \ {0} /\ d \in Nat \ {0} /\ n \in Nat /\ n < d /\ Mod = k * d
      /\ (k - 1) * n < d /\ Mod \in Nat /\ d <= Mod
  BY Constants
<1>2. m \in Nat /\ x \in Nat
  <2>1. s \in Nat /\ k - s \in Nat
    BY <1>1
  <2> QED
    BY <1>1, <2>1
<1>3. CASE s = k
  <2>1. m = Mod /\ x = 0
    BY <1>1, <1>3
  <2>2. u = 0
    BY <2>1
  <2> HIDE DEF n, k, d, m, x
  <2>3. m + o - u = Mod + o
    BY <2>1, <2>2, <1>1
  <2> QED
    BY <1>1, <1>3, <2>1, <2>3 DEF m, d, k, n
<1>4. CASE s # k /\ s # 0
  <2>1. m + d <= Mod
    <3>1. s + 1 <= k /\ s + 1 \in Nat
      BY <1>1, <1>4
    <3>2. d * (s + 1) <= d * k
      BY <1>1, <3>1
    <3>3. d * (s + 1) = m + d /\ d * k = Mod
      BY <1>1
    <3> QED
      BY <3>2, <3>3
  <2>2. d <= m
    <3>1. 1 <= s /\ s \in Nat
      BY <1>1, <1>4
    <3>2. d * 1 <= d * s
      BY <1>1, <3>1
    <3> QED
      BY <1>1, <3>2
  <2>3. x <= (k - 1) * n
    <3>1. k - s <= k - 1 /\ k - s \in Nat /\ k - 1 \in Nat
      BY <1>1, <1>4
    <3> QED
      BY <1>1, <3>1
  <2>4. (k - 1) * n \in Nat
    BY <1>1
  <2>5. u <= x
    OBVIOUS
  <2>6. o <= n /\ o \in Nat
    BY <1>1
  <2> HIDE DEF n, k, d, m, x
  <2>7. u < d
    BY <1>1, <1>2, <2>3, <2>4, <2>5
  <2>8. 0 < m + o - u /\ m + o - u < Mod
    BY <1>1, <1>2, <2>1, <2>2, <2>6, <2>7
  <2> QED
    BY <1>1, <1>2, <1>4, <2>6, <2>8 DEF m, d, k, n
<1>5. CASE s = 0
  <2>1. m = 0 /\ x = k * n /\ u <= x /\ o <= u
    BY <1>1, <1>5
  <2>2. k * n < Mod
    BY <1>1
  <2>3. k * n \in Nat /\ o \in Nat
    BY <1>1
  <2> HIDE DEF n, k, d, m, x
  <2>4. 0 - Mod < m + o - u /\ m + o - u <= 0 /\ (m + o - u = 0 <=> o = u)
    BY <1>1, <2>1, <2>2, <2>3
  <2> QED
    BY <1>1, <1>5, <2>1, <2>3, <2>4 DEF m, d, k, n
<1> QED
  BY <1>3, <1>4, <1>5

\* A counter is the balance modulo 2^w before and after d has been added to
\* both, and tells when the new balance is a multiple of 2^w.
LEMMA Adjusted ==
    ASSUME NEW r \in Word, NEW v \in Word, NEW x \in Int, NEW d \in Int,
           r - x \in {0 - Mod, 0, Mod}, v - d \in {0 - Mod, 0, Mod},
           0 - Mod < x + d, x + d < 2 * Mod
    PROVE  /\ AddW(r, v) - (x + d) \in {0 - Mod, 0, Mod}
           /\ r = NegW(v) <=> x + d \in {0, Mod}
           /\ r = NegW(v) <=> AddW(r, v) = 0
BY Constants DEF AddW, NegW, Word

-----------------------------------------------------------------------------
(* What a step does to the contributions that are still to come.           *)

\* Steps that take no contribution to a counter up or down.
Quiet(t) ==
    \/ \E s \in Slots : Enter(t, s)
    \/ Reenter(t) \/ Leave(t) \/ NestedLeave(t) \/ LeaveRead(t) \/ LeaveCasFails(t)
    \/ LeaveCas(t) /\ ~(CmpxchgFull /\ LastOut(last[t]))
    \/ LeaveClearFails(t) \/ TravRead(t) \/ TravDrop(t) \/ Trim(t) \/ TrimRead(t)
    \/ AnyEnd(t)
    \/ \E b \in Batches : Free(t, b)

\* The list of a slot is taken over by the last thread out.
Clears(t) == LeaveClear(t) \/ (LeaveCas(t) /\ CmpxchgFull /\ LastOut(last[t]))

\* Retire moves on along the slots.
Looks(t) == AnyLoad(t) \/ InsertFails(t) \/ RetireNext(t)

\* The steps by what they do to the counters and the slots.
LEMMA StepKinds ==
    ASSUME NEW t \in Threads, AnyCall(t) \/ AnyStep(t)
    PROVE  \/ Quiet(t) \/ Clears(t) \/ Looks(t) \/ LeaveAdjust(t)
           \/ (\E b \in Batches : AnyRetire(t, b))
           \/ Insert(t) \/ RetireAdjust(t) \/ RetireFinish(t)
BY DEF AnyCall, Call, AnyRetire, AnyStep, Step, AnyLoad, AnyEnd, Quiet, Clears,
   Looks

AdjustLabels == {"leaveAdjust"} \union RetireLabels

\* Only a thread about to add a share keeps a slot open.
LEMMA KeepsNothing ==
    ASSUME ThreadInv, NEW t \in Threads, pc[t] \notin AdjustLabels, NEW b, NEW s
    PROVE  ~Keeps(t, b, s)
<1>1. skipped[t] = {}
  BY DEF ThreadInv, ThreadOK, RetireOK, AdjustLabels
<1> QED
  BY <1>1 DEF Keeps, Adjusts, Ahead, AdjustLabels, RetireLabels

\* A quiet step moves no thread to or from such an addition.
LEMMA QuietLabels ==
    ASSUME TypeOK, ThreadInv, NEW t \in Threads, Quiet(t)
    PROVE  /\ pc[t] \notin AdjustLabels /\ pc'[t] \notin AdjustLabels
           /\ \A s \in Slots : head'[s].ptr = head[s].ptr
<1> USE DEF AdjustLabels, RetireLabels, Goto, shared, TypeOK
<1>1. CASE (\E s \in Slots : Enter(t, s)) \/ Reenter(t)
  <2>1. PICK r \in Slots : EnterSlot(t, r)
    BY <1>1 DEF Enter, Reenter
  <2>2. \A s \in Slots : head'[s].ptr = head[s].ptr
    BY <2>1 DEF EnterSlot
  <2>3. pc[t] \in {"idle", "reenter"} /\ pc'[t] = "idle"
    BY <1>1 DEF Enter, Reenter
  <2> QED
    BY <2>2, <2>3
<1>2. CASE Leave(t) \/ NestedLeave(t) \/ LeaveCasFails(t)
  BY <1>2 DEF Leave, NestedLeave, LeaveBegin, LeaveCasFails, LoadedHead
<1>3. CASE LeaveRead(t) \/ TrimRead(t)
  BY <1>3 DEF LeaveRead, TrimRead
<1>4. CASE LeaveCas(t) /\ ~(CmpxchgFull /\ LastOut(last[t]))
  <2>1. /\ pc[t] = "leaveCas" /\ head[vec[t]] = last[t]
        /\ head' = [head EXCEPT ![vec[t]] = HeadAfterLeave(last[t])]
    BY <1>4 DEF LeaveCas
  <2>2. HeadAfterLeave(last[t]).ptr = last[t].ptr
    BY <1>4 DEF HeadAfterLeave, LastOut, Empty
  <2>3. \A s \in Slots : head'[s].ptr = head[s].ptr
    BY <2>1, <2>2
  <2>4. pc'[t] \in {"leaveClear", "travRead", "free"}
    BY <1>4 DEF LeaveCas, LeaveTraverse, Return
  <2> QED
    BY <2>1, <2>3, <2>4
<1>5. CASE LeaveClearFails(t)
  BY <1>5 DEF LeaveClearFails, LeaveTraverse, Return
<1>6. CASE TravRead(t)
  BY <1>6 DEF TravRead, Return
<1>7. CASE TravDrop(t)
  BY <1>7 DEF TravDrop, Return
<1>8. CASE Trim(t)
  BY <1>8 DEF Trim, TrimNothing, TrimBegin
<1>9. CASE AnyEnd(t) \/ \E b \in Batches : Free(t, b)
  BY <1>9 DEF AnyEnd, EndCall, EndFlushed, Free
<1> QED
  BY <1>1, <1>2, <1>3, <1>4, <1>5, <1>6, <1>7, <1>8, <1>9 DEF Quiet

\* Nobody but the acting thread changes what it has to contribute.
LEMMA KeepsOthers ==
    ASSUME TypeOK, NEW t \in Threads, AnyCall(t) \/ AnyStep(t), NEW u \in Threads, u # t
    PROVE  /\ \A b, s : Keeps(u, b, s)' <=> Keeps(u, b, s)
           /\ pc'[u] = pc[u] /\ last'[u] = last[u] /\ slot'[u] = slot[u]
           /\ covers'[u] = covers[u]
<1>1. Kept(u)
  BY KeptByOthers
<1> QED
  BY <1>1 DEF Kept, Keeps, Adjusts, Ahead

\* b has the same contributions to come, and in the same places.
SameOpen(b) ==
    /\ \A u \in Threads, s \in Slots : Keeps(u, b, s)' <=> Keeps(u, b, s)
    /\ \A s \in Slots : (head[s].ptr = b)' <=> head[s].ptr = b

\* What an open slot depends on.
LEMMA SameOpenIsOpen ==
    ASSUME NEW b, SameOpen(b)
    PROVE  Open(b)' = Open(b) /\ Settled(b)' = Settled(b)
BY DEF SameOpen, Open, Settled

\* What the uncounted references of a batch depend on.
LEMMA SameUncounted ==
    ASSUME TypeOK, NEW t \in Threads, AnyCall(t) \/ AnyStep(t), NEW b,
           ~(pc[t] = "retireAdjust" /\ last[t].ptr = b),
           ~(pc'[t] = "retireAdjust" /\ last'[t].ptr = b)
    PROVE  Uncounted(b)' = Uncounted(b)
BY KeepsOthers DEF Uncounted

\* A quiet step opens and closes no slot, and counts no reference.
LEMMA QuietOpen ==
    ASSUME TypeOK, ThreadInv, ThreadInv', NEW t \in Threads, Quiet(t), AnyCall(t) \/ AnyStep(t),
           NEW b \in Batches
    PROVE  SameOpen(b) /\ Uncounted(b)' = Uncounted(b)
<1>1. /\ pc[t] \notin AdjustLabels /\ pc'[t] \notin AdjustLabels
      /\ \A s \in Slots : head'[s].ptr = head[s].ptr
  BY QuietLabels
<1>2. \A s \in Slots : ~Keeps(t, b, s)
  BY <1>1, KeepsNothing
<1>3. \A s \in Slots : ~Keeps(t, b, s)'
  <2>1. skipped'[t] = {}
    BY <1>1 DEF ThreadInv, ThreadOK, RetireOK, AdjustLabels
  <2> QED
    BY <1>1, <2>1 DEF Keeps, Adjusts, Ahead, AdjustLabels, RetireLabels
<1>4. SameOpen(b)
  BY <1>1, <1>2, <1>3, KeepsOthers DEF SameOpen
<1>5. Uncounted(b)' = Uncounted(b)
  BY <1>1, SameUncounted DEF AdjustLabels, RetireLabels
<1> QED
  BY <1>4, <1>5

\* A slot that retire passes by stays a contribution to come.
LEMMA LooksOpen ==
    ASSUME TypeOK, ThreadInv, NEW t \in Threads, Looks(t), NEW b \in Batches
    PROVE  SameOpen(b) /\ Uncounted(b)' = Uncounted(b)
<1>1. AnyCall(t) \/ AnyStep(t)
  BY DEF Looks, AnyStep, Step, AnyLoad, AnyEnd
<1>2. head' = head /\ batch' = batch /\ pc[t] \in {"retireLoad", "retireCas", "retireNext"}
  BY DEF Looks, AnyLoad, RetireLoad, PassByEpoch, InsertFails, RetireNext, shared
<1>3. slot[t] \in Nat /\ slot[t] < NumSlots /\ NumSlots \in Nat
  BY Constants DEF TypeOK, Slots
<1>4. /\ pc'[t] \in {"retireLoad", "retireCas", "retireFinish", "free"}
      /\ Ahead(t)' \union skipped'[t] = Ahead(t) \union skipped[t]
  <2>1. CASE RetireNext(t)
    <3>1. /\ skipped' = skipped /\ pc[t] = "retireNext"
          /\ \/ pc'[t] = "retireLoad" /\ slot'[t] = slot[t] + 1
             \/ pc'[t] \in {"retireFinish", "free"} /\ slot[t] + 1 >= NumSlots
      BY <2>1 DEF RetireNext, NextSlot, Goto, TypeOK, countLocals
    <3>2. Ahead(t) = slot[t] + 1 .. NumSlots - 1
      BY <3>1 DEF Ahead
    <3>3. Ahead(t)' = Ahead(t)
      BY <1>3, <3>1, <3>2 DEF Ahead
    <3> QED
      BY <3>1, <3>3
  <2>2. CASE AnyLoad(t) \/ InsertFails(t)
    <3>1. (\E w \in HeadWord : TrySlot(t, w)) /\ pc[t] \in {"retireLoad", "retireCas"}
      BY <2>2, LoadTries
    <3>2. Ahead(t) = slot[t] .. NumSlots - 1
      BY <3>1 DEF Ahead
    <3>3. CASE PassBy(t)
      <4>1. /\ skipped'[t] = skipped[t] \union {slot[t]}
            /\ \/ pc'[t] = "retireLoad" /\ slot'[t] = slot[t] + 1
               \/ pc'[t] = "retireFinish" /\ slot[t] + 1 >= NumSlots
        BY <3>3 DEF PassBy, NextSlot, Goto, TypeOK
      <4>2. slot[t] .. NumSlots - 1 = {slot[t]} \union (slot[t] + 1 .. NumSlots - 1)
        BY <1>3
      <4>3. Ahead(t)' = slot[t] + 1 .. NumSlots - 1
        BY <1>3, <4>1 DEF Ahead
      <4> QED
        BY <3>2, <4>1, <4>2, <4>3
    <3>4. CASE ~PassBy(t)
      <4>1. slot' = slot /\ skipped' = skipped /\ pc'[t] = "retireCas"
        BY <3>1, <3>4 DEF TrySlot, Goto, TypeOK, countLocals
      <4>2. Ahead(t)' = Ahead(t)
        BY <3>2, <4>1 DEF Ahead
      <4> QED
        BY <4>1, <4>2
    <3> QED
      BY <3>3, <3>4
  <2> QED
    BY <2>1, <2>2 DEF Looks
<1>5. \A s : Keeps(t, b, s)' <=> Keeps(t, b, s)
  BY <1>2, <1>4 DEF Keeps, Adjusts
<1>6. SameOpen(b)
  BY <1>1, <1>2, <1>5, KeepsOthers DEF SameOpen
<1>7. Uncounted(b)' = Uncounted(b)
  BY <1>1, <1>2, <1>4, SameUncounted
<1> QED
  BY <1>6, <1>7

\* The last thread out takes the contribution for the batch that was the head.
LEMMA ClearsOpen ==
    ASSUME TypeOK, ThreadInv, NEW t \in Threads, Clears(t), NEW b \in Batches
    PROVE  /\ head[vec[t]].ptr = last[t].ptr /\ head'[vec[t]].ptr = NULL
           /\ \A s \in Slots : s # vec[t] => head'[s] = head[s]
           /\ \A s \in Slots : ~Keeps(t, b, s)
           /\ \A s \in Slots :
                  Keeps(t, b, s)' <=> s = vec[t] /\ last[t].ptr = b
           /\ Open(b)' = Open(b) /\ Uncounted(b)' = Uncounted(b)
<1>1. AnyCall(t) \/ AnyStep(t)
  BY DEF Clears, AnyStep, Step, AnyLoad, AnyEnd
<1>2. /\ pc[t] \in {"leaveCas", "leaveClear"} /\ pc'[t] = "leaveAdjust"
      /\ head[vec[t]].ptr = last[t].ptr /\ head'[vec[t]].ptr = NULL
      /\ \A s \in Slots : s # vec[t] => head'[s] = head[s]
      /\ last' = last /\ vec' = vec /\ batch' = batch /\ skipped' = skipped
  BY DEF Clears, LeaveCas, LeaveClear, HeadAfterLeave, LastOut, Empty, Goto, TypeOK,
         callerLocals, retireLocals
<1>3. skipped[t] = {} /\ vec[t] \in Slots
  BY <1>2 DEF ThreadInv, ThreadOK, RetireOK, RetireLabels, TypeOK
<1>4. \A s \in Slots : ~Keeps(t, b, s)
  BY <1>2, KeepsNothing DEF AdjustLabels, RetireLabels
<1>5. \A s \in Slots : Keeps(t, b, s)' <=> s = vec[t] /\ last[t].ptr = b
  BY <1>2, <1>3 DEF Keeps, Adjusts, Ahead
<1>6. \A s \in Slots : s \in Open(b)' <=> s \in Open(b)
  <2>1. SUFFICES ASSUME NEW s \in Slots PROVE s \in Open(b)' <=> s \in Open(b)
    OBVIOUS
  <2>2. \A u \in Threads : u # t => (Keeps(u, b, s)' <=> Keeps(u, b, s))
    BY <1>1, KeepsOthers
  <2>3. CASE s = vec[t]
    <3>1. (head[s].ptr = b \/ Keeps(t, b, s)) <=> (head[s].ptr = b \/ Keeps(t, b, s))'
      BY <1>2, <1>4, <1>5, <2>3, Constants
    <3> QED
      BY <2>2, <3>1 DEF Open
  <2>4. CASE s # vec[t]
    <3>1. (head[s].ptr = b \/ Keeps(t, b, s)) <=> (head[s].ptr = b \/ Keeps(t, b, s))'
      BY <1>2, <1>4, <1>5, <2>4
    <3> QED
      BY <2>2, <3>1 DEF Open
  <2> QED
    BY <2>3, <2>4
<1>7. Open(b)' = Open(b)
  BY <1>6 DEF Open
<1>8. Uncounted(b)' = Uncounted(b)
  BY <1>1, <1>2, SameUncounted
<1> QED
  BY <1>2, <1>4, <1>5, <1>7, <1>8

\* The contributions of t for the slots in R are made.
Made(t, b, R) ==
    /\ head' = head
    /\ \A s \in Slots : (s \in R => Keeps(t, b, s))
                     /\ (Keeps(t, b, s)' <=> Keeps(t, b, s) /\ s \notin R)

\* The slots whose shares are added are no longer open.
LEMMA MadeOpen ==
    ASSUME TypeOK, KeepInv, NEW t \in Threads, AnyCall(t) \/ AnyStep(t), NEW b \in Batches,
           NEW R \in SUBSET Slots, Made(t, b, R)
    PROVE  Open(b)' = Open(b) \ R /\ R \subseteq Open(b)
<1>1. R \subseteq Open(b)
  BY DEF Made, Open
<1>2. \A s \in Slots : s \in Open(b)' <=> s \in Open(b) /\ s \notin R
  <2>1. SUFFICES ASSUME NEW s \in Slots
                 PROVE  s \in Open(b)' <=> s \in Open(b) /\ s \notin R
    OBVIOUS
  <2>2. \A u \in Threads : u # t => (Keeps(u, b, s)' <=> Keeps(u, b, s))
    BY KeepsOthers
  <2>3. CASE s \in R
    <3>1. Keeps(t, b, s) /\ ~Keeps(t, b, s)' /\ head'[s].ptr = head[s].ptr
      BY <2>3 DEF Made
    <3>2. head[s].ptr # b /\ \A u \in Threads : u # t => ~Keeps(u, b, s)
      BY <3>1 DEF KeepInv
    <3>3. (head[s].ptr # b)' /\ \A u \in Threads : ~Keeps(u, b, s)'
      BY <2>2, <3>1, <3>2
    <3> QED
      BY <2>3, <3>3 DEF Open
  <2>4. CASE s \notin R
    <3>1. (Keeps(t, b, s)' <=> Keeps(t, b, s)) /\ head'[s].ptr = head[s].ptr
      BY <2>4 DEF Made
    <3> QED
      BY <2>2, <2>4, <3>1 DEF Open
  <2> QED
    BY <2>3, <2>4
<1>3. Open(b)' = Open(b) \ R
  BY <1>2 DEF Open
<1> QED
  BY <1>1, <1>3

\* The last one out closes its slot for the batch it adds the share to.
LEMMA LeaveAdjustOpen ==
    ASSUME TypeOK, ThreadInv, NEW t \in Threads, LeaveAdjust(t), NEW b \in Batches
    PROVE  /\ Made(t, b, IF b = last[t].ptr THEN {vec[t]} ELSE {})
           /\ Uncounted(b)' = Uncounted(b)
<1>1. /\ pc[t] = "leaveAdjust" /\ pc'[t] \in {"travRead", "free"} /\ head' = head
      /\ skipped' = skipped
  BY DEF LeaveAdjust, LeaveTraverse, Return, Goto, TypeOK, retireLocals
<1>2. skipped[t] = {}
  BY <1>1 DEF ThreadInv, ThreadOK, RetireOK, RetireLabels
<1>3. \A s : Keeps(t, b, s) <=> s = vec[t] /\ b = last[t].ptr
  BY <1>1, <1>2 DEF Keeps, Adjusts, Ahead
<1>4. \A s : ~Keeps(t, b, s)'
  BY <1>1, <1>2 DEF Keeps, Adjusts, Ahead
<1>5. Uncounted(b)' = Uncounted(b)
  BY <1>1, SameUncounted DEF AnyStep, Step, AnyLoad, AnyEnd
<1> QED
  BY <1>1, <1>3, <1>4, <1>5 DEF Made

\* The end of retire closes the slots passed by.
LEMMA RetireFinishOpen ==
    ASSUME TypeOK, ThreadInv, NEW t \in Threads, RetireFinish(t), NEW b \in Batches
    PROVE  /\ Made(t, b, IF b = batch[t] THEN skipped[t] ELSE {})
           /\ Uncounted(b)' = Uncounted(b)
<1>1. /\ pc[t] = "retireFinish" /\ pc'[t] = "free" /\ head' = head
      /\ skipped'[t] = {}
  BY DEF RetireFinish, RetireReset, Goto, TypeOK
<1>2. \A s : Keeps(t, b, s) <=> s \in skipped[t] /\ b = batch[t]
  BY <1>1 DEF Keeps, Adjusts, Ahead
<1>3. \A s : ~Keeps(t, b, s)'
  BY <1>1 DEF Keeps, Adjusts, Ahead
<1>4. Uncounted(b)' = Uncounted(b)
  BY <1>1, SameUncounted DEF AnyStep, Step, AnyLoad, AnyEnd
<1> QED
  BY <1>1, <1>2, <1>3, <1>4 DEF Made

\* The insertion's addition closes the slot for the batch below.
LEMMA RetireAdjustOpen ==
    ASSUME TypeOK, ThreadInv, KeepInv, NEW t \in Threads, RetireAdjust(t),
           NEW b \in Batches
    PROVE  /\ Made(t, b, IF b = last[t].ptr THEN {slot[t]} ELSE {})
           /\ b # last[t].ptr => Uncounted(b)' = Uncounted(b)
           /\ b = last[t].ptr =>
                /\ Uncounted(b)' = Uncounted(b) \ ({slot[t]} \X covers[t])
                /\ {slot[t]} \X covers[t] \subseteq Uncounted(b)
                /\ \A e \in Uncounted(b) : e[1] = slot[t] => e[2] \in covers[t]
<1>1. /\ pc[t] = "retireAdjust" /\ pc'[t] = "retireNext"
      /\ UNCHANGED <<head, last, batch, slot, skipped>> /\ slot[t] \in Slots
  BY DEF RetireAdjust, Goto, TypeOK, countLocals
<1>2. Ahead(t)' = Ahead(t) /\ slot[t] \notin Ahead(t) \union skipped[t]
  <2>1. slot[t] \in Nat /\ skipped[t] \subseteq 0 .. slot[t] - 1
    <3>1. skipped[t] \subseteq 0 .. slot[t] - 1
      BY <1>1 DEF ThreadInv, ThreadOK, RetireOK, RetireLabels
    <3>2. slot[t] \in Nat
      BY <1>1, Constants DEF Slots
    <3> QED
      BY <3>1, <3>2
  <2>2. Ahead(t)' = Ahead(t)
    BY <1>1 DEF Ahead
  <2>3. Ahead(t) = slot[t] + 1 .. NumSlots - 1
    BY <1>1 DEF Ahead
  <2>4. slot[t] \notin slot[t] + 1 .. NumSlots - 1 /\ slot[t] \notin 0 .. slot[t] - 1
    BY <2>1, Constants
  <2> QED
    BY <2>1, <2>2, <2>3, <2>4
<1>3. \A s : /\ Keeps(t, b, s) <=> (s = slot[t] /\ b = last[t].ptr)
                                   \/ (batch[t] = b /\ s \in Ahead(t) \union skipped[t])
             /\ Keeps(t, b, s)' <=> batch[t] = b /\ s \in Ahead(t) \union skipped[t]
  BY <1>1, <1>2 DEF Keeps, Adjusts
<1>4. Made(t, b, IF b = last[t].ptr THEN {slot[t]} ELSE {})
  BY <1>1, <1>2, <1>3 DEF Made
<1>5. b # last[t].ptr => Uncounted(b)' = Uncounted(b)
  BY <1>1, SameUncounted DEF AnyStep, Step, AnyLoad, AnyEnd
<1>6. ASSUME b = last[t].ptr
      PROVE  /\ Uncounted(b)' = Uncounted(b) \ ({slot[t]} \X covers[t])
             /\ {slot[t]} \X covers[t] \subseteq Uncounted(b)
             /\ \A e \in Uncounted(b) : e[1] = slot[t] => e[2] \in covers[t]
  <2>1. {slot[t]} \X covers[t] \subseteq Uncounted(b)
    <3>1. SUFFICES ASSUME NEW v \in covers[t] PROVE <<slot[t], v>> \in Uncounted(b)
      OBVIOUS
    <3>2. v \in Threads
      BY DEF TypeOK
    <3> QED
      BY <1>1, <1>6, <3>1, <3>2 DEF Uncounted
  <2>2. ASSUME NEW u \in Threads, u # t, pc[u] = "retireAdjust", last[u].ptr = b
        PROVE  slot[u] # slot[t]
    <3>1. Keeps(t, b, slot[t]) /\ (slot[u] = slot[t] => Keeps(u, b, slot[t]))
      BY <1>1, <1>6, <2>2 DEF Keeps, Adjusts
    <3> QED
      BY <1>1, <2>2, <3>1 DEF KeepInv
  <2>3. \A e \in Uncounted(b) : e[1] = slot[t] => e[2] \in covers[t]
    BY <2>2 DEF Uncounted
  <2>4. ASSUME NEW e \in Slots \X Threads
        PROVE  e \in Uncounted(b)' <=> e \in Uncounted(b) /\ e \notin {slot[t]} \X covers[t]
    <3>1. \A u \in Threads : u # t =>
              /\ pc'[u] = pc[u] /\ last'[u] = last[u] /\ slot'[u] = slot[u]
              /\ covers'[u] = covers[u]
      BY KeepsOthers DEF AnyStep, Step, AnyLoad, AnyEnd
    <3>2. e \in {slot[t]} \X covers[t] <=> e[1] = slot[t] /\ e[2] \in covers[t]
      OBVIOUS
    <3>3. e \in Uncounted(b)' <=> \E u \in Threads : u # t /\ pc[u] = "retireAdjust"
              /\ last[u].ptr = b /\ slot[u] = e[1] /\ e[2] \in covers[u]
      BY <1>1, <3>1 DEF Uncounted
    <3>4. e \in Uncounted(b) <=> \E u \in Threads : pc[u] = "retireAdjust"
              /\ last[u].ptr = b /\ slot[u] = e[1] /\ e[2] \in covers[u]
      BY DEF Uncounted
    <3> QED
      BY <1>1, <1>6, <2>2, <3>2, <3>3, <3>4
  <2>5. Uncounted(b)' = Uncounted(b) \ ({slot[t]} \X covers[t])
    BY <2>4 DEF Uncounted
  <2> QED
    BY <2>1, <2>3, <2>5
<1> QED
  BY <1>4, <1>5, <1>6

\* A batch is inserted: it becomes the head, and the old head's contribution
\* is with t, to be made for the threads that are in the slot.
LEMMA InsertOpen ==
    ASSUME TypeOK, ThreadInv, KeepInv, OweInv, NEW t \in Threads, Insert(t),
           NEW b \in Batches
    PROVE  /\ Open(b)' = Open(b)
           /\ \A s \in Slots : Keeps(t, b, s)' <=>
                  \/ b = last[t].ptr /\ s = slot[t]
                  \/ Keeps(t, b, s) /\ s # slot[t]
           /\ Keeps(t, batch[t], slot[t])
           /\ b # last[t].ptr => Uncounted(b)' = Uncounted(b)
           /\ b = last[t].ptr =>
                /\ Uncounted(b)' = Uncounted(b) \union ({slot[t]} \X Inside(slot[t]))
                /\ Uncounted(b) \cap ({slot[t]} \X Inside(slot[t])) = {}
<1> DEFINE s0 == slot[t]
           b0 == batch[t]
           prev == last[t].ptr
<1>1. /\ s0 \in Slots /\ b0 \in Batches /\ prev = head[s0].ptr /\ prev # b0
      /\ head'[s0].ptr = b0 /\ \A s \in Slots : s # s0 => head'[s] = head[s]
      /\ pc[t] = "retireCas"
      /\ pc'[t] = IF prev = NULL THEN "retireNext" ELSE "retireAdjust"
      /\ UNCHANGED <<last, batch, slot, skipped>>
      /\ prev # NULL => covers'[t] = Inside(s0)
  <2>1. UNCHANGED <<batch, slot, skipped>>
    BY DEF Insert, countLocals
  <2>2. last[t].ptr # NULL => covers'[t] = Inside(slot[t])
    BY DEF Insert, TypeOK
  <2> QED
    BY <2>1, <2>2, InsertNew, InsertEffect
<1>2. s0 \in Nat /\ s0 < NumSlots /\ NumSlots \in Nat
  BY <1>1, Constants DEF Slots
<1>3. s0 \notin skipped[t] /\ s0 \in Ahead(t) /\ Ahead(t)' = Ahead(t) \ {s0}
  <2>1. skipped[t] \subseteq 0 .. s0 - 1
    BY <1>1 DEF ThreadInv, ThreadOK, RetireOK, RetireLabels
  <2>2. Ahead(t) = s0 .. NumSlots - 1 /\ Ahead(t)' = s0 + 1 .. NumSlots - 1
    BY <1>1 DEF Ahead
  <2> QED
    BY <1>2, <2>1, <2>2
<1>4. \A s : Keeps(t, b, s) <=> b = b0 /\ s \in Ahead(t) \union skipped[t]
  BY <1>1 DEF Keeps, Adjusts
<1>5. \A s : Keeps(t, b, s)' <=>
          \/ b = prev /\ s = s0
          \/ b = b0 /\ s \in Ahead(t)' \union skipped[t]
  <2>1. b = prev => prev # NULL
    BY Constants
  <2> QED
    BY <1>1, <2>1 DEF Keeps, Adjusts
<1>6. Keeps(t, b0, s0)
  BY <1>1, <1>3 DEF Keeps
<1>7. Open(b)' = Open(b)
  <2>1. SUFFICES ASSUME NEW s \in Slots PROVE s \in Open(b)' <=> s \in Open(b)
    BY DEF Open
  <2>2. \A u \in Threads : u # t => (Keeps(u, b, s)' <=> Keeps(u, b, s))
    BY KeepsOthers DEF AnyStep, Step, AnyLoad, AnyEnd
  <2>3. (head[s].ptr = b \/ Keeps(t, b, s)) <=> (head[s].ptr = b \/ Keeps(t, b, s))'
    <3>1. CASE s = s0
      <4>1. head[s].ptr = b <=> b = prev
        BY <1>1, <3>1
      <4>2. Keeps(t, b, s) <=> b = b0
        BY <1>3, <1>4, <3>1
      <4>3. head'[s].ptr = b <=> b = b0
        BY <1>1, <3>1
      <4>4. Keeps(t, b, s)' <=> b = prev
        BY <1>3, <1>5, <3>1
      <4> QED
        BY <4>1, <4>2, <4>3, <4>4
    <3>2. CASE s # s0
      BY <1>1, <1>3, <1>4, <1>5, <3>2
    <3> QED
      BY <3>1, <3>2
  <2> QED
    BY <2>2, <2>3 DEF Open
<1>8. b # prev => Uncounted(b)' = Uncounted(b)
  BY <1>1, SameUncounted DEF AnyStep, Step, AnyLoad, AnyEnd
<1>9. ASSUME b = prev
      PROVE  /\ Uncounted(b)' = Uncounted(b) \union ({s0} \X Inside(s0))
             /\ Uncounted(b) \cap ({s0} \X Inside(s0)) = {}
  <2>1. prev # NULL /\ pc'[t] = "retireAdjust" /\ covers'[t] = Inside(s0)
        /\ Inside(s0) \subseteq Threads
    BY <1>1, <1>9, Constants DEF Inside
  <2>2. ASSUME NEW u \in Threads, pc[u] = "retireAdjust", last[u].ptr = b
        PROVE  slot[u] # s0
    <3>1. slot[u] = s0 => Keeps(u, b, s0)
      BY <2>2 DEF Keeps, Adjusts
    <3> QED
      BY <1>1, <1>9, <3>1 DEF KeepInv
  <2>3. \A e \in Uncounted(b) : e[1] # s0
    BY <2>2 DEF Uncounted
  <2>4. ASSUME NEW e \in Slots \X Threads
        PROVE  e \in Uncounted(b)' <=> e \in Uncounted(b) \/ e \in {s0} \X Inside(s0)
    <3>1. \A u \in Threads : u # t =>
              /\ pc'[u] = pc[u] /\ last'[u] = last[u] /\ slot'[u] = slot[u]
              /\ covers'[u] = covers[u]
      BY KeepsOthers DEF AnyStep, Step, AnyLoad, AnyEnd
    <3>2. e \in {s0} \X Inside(s0) <=> e[1] = s0 /\ e[2] \in Inside(s0)
      OBVIOUS
    <3>3. e \in Uncounted(b)' <=>
              \/ e[1] = s0 /\ e[2] \in Inside(s0)
              \/ \E u \in Threads : u # t /\ pc[u] = "retireAdjust"
                   /\ last[u].ptr = b /\ slot[u] = e[1] /\ e[2] \in covers[u]
      BY <1>1, <1>9, <2>1, <3>1 DEF Uncounted
    <3>4. e \in Uncounted(b) <=> \E u \in Threads : u # t /\ pc[u] = "retireAdjust"
              /\ last[u].ptr = b /\ slot[u] = e[1] /\ e[2] \in covers[u]
      BY <1>1 DEF Uncounted
    <3> QED
      BY <3>2, <3>3, <3>4
  <2>5. {s0} \X Inside(s0) \subseteq Slots \X Threads
    BY <1>1, <2>1
  <2>6. Uncounted(b)' = Uncounted(b) \union ({s0} \X Inside(s0))
    <3>1. Uncounted(b) \subseteq Slots \X Threads /\ Uncounted(b)' \subseteq Slots \X Threads
      BY DEF Uncounted
    <3> QED
      BY <2>4, <2>5, <3>1
  <2> QED
    BY <2>3, <2>6
<1> QED
  BY <1>1, <1>3, <1>4, <1>5, <1>6, <1>7, <1>8, <1>9

\* A batch that is retired waits for every slot.
LEMMA RetireOpen ==
    ASSUME TypeOK, ThreadInv, RefsInv, NEW t \in Threads, NEW c \in Batches,
           AnyRetire(t, c), NEW b \in Batches
    PROVE  /\ head' = head
           /\ \A s \in Slots : ~Keeps(t, b, s)
           /\ \A s \in Slots : Keeps(t, b, s)' <=> b = c
           /\ Open(c) = {} /\ Owers(c) = {} /\ ~Listed(c)
           /\ Open(b)' = IF b = c THEN Slots ELSE Open(b)
           /\ Uncounted(b)' = Uncounted(b)
<1>1. AnyCall(t) \/ AnyStep(t)
  BY DEF AnyCall, Call, AnyRetire
<1>2. /\ pc[t] = "idle" /\ pc'[t] = "retireLoad" /\ status[c] = "live" /\ batch'[t] = c
      /\ UNCHANGED <<head, slot, skipped>> /\ slot[t] = 0 /\ skipped[t] = {}
  BY DEF AnyRetire, Retire, RetireUnseen, Goto, TypeOK, countLocals, ThreadInv,
     ThreadOK, ControlOK, RetireOK, RetireLabels
<1>3. Open(c) = {} /\ Owers(c) = {} /\ ~Listed(c)
  BY <1>2 DEF RefsInv
<1>4. \A s \in Slots : ~Keeps(t, b, s)
  BY <1>2, KeepsNothing DEF AdjustLabels, RetireLabels
<1>5. \A s \in Slots : Keeps(t, b, s)' <=> b = c
  <2>1. Ahead(t)' = 0 .. NumSlots - 1
    BY <1>2 DEF Ahead
  <2> QED
    BY <1>2, <2>1 DEF Keeps, Adjusts, Slots
<1>6. Open(b)' = IF b = c THEN Slots ELSE Open(b)
  <2>1. \A u \in Threads : \A s : u # t => (Keeps(u, b, s)' <=> Keeps(u, b, s))
    BY <1>1, KeepsOthers
  <2>2. CASE b = c
    <3>1. \A s \in Slots : Keeps(t, b, s)'
      BY <1>5, <2>2
    <3>2. Open(b)' = Slots
      BY <3>1 DEF Open
    <3> QED
      BY <2>2, <3>2
  <2>3. CASE b # c
    <3>1. SameOpen(b)
      BY <1>2, <1>4, <1>5, <2>1, <2>3 DEF SameOpen
    <3> QED
      BY <2>3, <3>1, SameOpenIsOpen
  <2> QED
    BY <2>2, <2>3
<1>7. Uncounted(b)' = Uncounted(b)
  BY <1>1, <1>2, SameUncounted
<1> QED
  BY <1>2, <1>3, <1>4, <1>5, <1>6, <1>7

-----------------------------------------------------------------------------
(* The contribution of a slot stays in one place.                          *)

\* Who makes a contribution of slot s to b, after a step that gives t no new
\* one and takes none from the head.
LEMMA KeepFrame ==
    ASSUME KeepInv, TypeOK, NEW t \in Threads, AnyCall(t) \/ AnyStep(t),
           NEW b \in Batches, NEW s \in Slots, Keeps(t, b, s)' => Keeps(t, b, s),
           (head[s].ptr = b)' => head[s].ptr = b
    PROVE  /\ \A v, u \in Threads : Keeps(v, b, s)' /\ Keeps(u, b, s)' => v = u
           /\ (head[s].ptr = b)' => \A u \in Threads : ~Keeps(u, b, s)'
<1>1. \A u \in Threads : Keeps(u, b, s)' => Keeps(u, b, s)
  BY KeepsOthers
<1> QED
  BY <1>1 DEF KeepInv

\* And after one that gives it to t alone.
LEMMA KeepMoves ==
    ASSUME TypeOK, NEW t \in Threads, AnyCall(t) \/ AnyStep(t),
           NEW b \in Batches, NEW s \in Slots,
           \A u \in Threads : u # t => ~Keeps(u, b, s), (head[s].ptr # b)'
    PROVE  /\ \A v, u \in Threads : Keeps(v, b, s)' /\ Keeps(u, b, s)' => v = u
           /\ (head[s].ptr = b)' => \A u \in Threads : ~Keeps(u, b, s)'
<1>1. \A u \in Threads : u # t => ~Keeps(u, b, s)'
  BY KeepsOthers
<1> QED
  BY <1>1

\* Every step of a thread keeps an open slot open for one reason.
LEMMA KeepStep ==
    ASSUME TypeOK, ThreadInv, ThreadInv', KeepInv, OweInv, RefsInv,
           NEW t \in Threads, AnyCall(t) \/ AnyStep(t)
    PROVE  KeepInv'
<1>1. SUFFICES ASSUME NEW b \in Batches, NEW s \in Slots
               PROVE  /\ \A v, u \in Threads : Keeps(v, b, s)' /\ Keeps(u, b, s)' => v = u
                      /\ (head[s].ptr = b)' => \A u \in Threads : ~Keeps(u, b, s)'
  BY DEF KeepInv
<1>2. CASE Quiet(t) \/ Looks(t)
  <2>1. SameOpen(b)
    BY <1>2, QuietOpen, LooksOpen
  <2> QED
    BY <2>1, KeepFrame DEF SameOpen
<1>3. CASE Clears(t)
  <2>1. CASE s = vec[t] /\ last[t].ptr = b
    <3>1. head[s].ptr = b /\ (head[s].ptr # b)'
      BY <1>3, <2>1, ClearsOpen, Constants
    <3>2. \A u \in Threads : ~Keeps(u, b, s)
      BY <3>1 DEF KeepInv
    <3> QED
      BY <3>1, <3>2, KeepMoves
  <2>2. CASE ~(s = vec[t] /\ last[t].ptr = b)
    <3>1. ~Keeps(t, b, s)' /\ ((head[s].ptr = b)' => head[s].ptr = b)
      BY <1>3, <2>2, ClearsOpen, Constants
    <3> QED
      BY <3>1, KeepFrame
  <2> QED
    BY <2>1, <2>2
<1>4. CASE LeaveAdjust(t) \/ RetireAdjust(t) \/ RetireFinish(t)
  <2>1. \E R : Made(t, b, R)
    BY <1>4, LeaveAdjustOpen, RetireAdjustOpen, RetireFinishOpen
  <2>2. (Keeps(t, b, s)' => Keeps(t, b, s)) /\ head' = head
    BY <2>1 DEF Made
  <2> QED
    BY <2>2, KeepFrame
<1>5. ASSUME NEW c \in Batches, AnyRetire(t, c)
      PROVE  /\ \A v, u \in Threads : Keeps(v, b, s)' /\ Keeps(u, b, s)' => v = u
             /\ (head[s].ptr = b)' => \A u \in Threads : ~Keeps(u, b, s)'
  <2>1. CASE b = c
    <3>1. Open(b) = {} /\ head' = head
      BY <1>5, <2>1, RetireOpen
    <3>2. head[s].ptr # b /\ \A u \in Threads : ~Keeps(u, b, s)
      BY <3>1 DEF Open
    <3>3. (head[s].ptr # b)'
      BY <3>1, <3>2
    <3> QED
      BY <3>2, <3>3, KeepMoves
  <2>2. CASE b # c
    <3>1. ~Keeps(t, b, s)' /\ head' = head
      BY <1>5, <2>2, RetireOpen
    <3> QED
      BY <3>1, KeepFrame
  <2> QED
    BY <2>1, <2>2
<1>6. CASE Insert(t)
  <2>1. /\ Keeps(t, b, s)' <=> \/ b = last[t].ptr /\ s = slot[t]
                               \/ Keeps(t, b, s) /\ s # slot[t]
        /\ Keeps(t, batch[t], slot[t])
    BY <1>6, InsertOpen
  <2>2. /\ last[t].ptr = head[slot[t]].ptr /\ last[t].ptr # batch[t]
        /\ head'[slot[t]].ptr = batch[t] /\ batch[t] \in Batches /\ slot[t] \in Slots
        /\ s # slot[t] => head'[s] = head[s]
    BY <1>6, InsertNew, InsertEffect
  <2>3. CASE s = slot[t] /\ b = batch[t]
    <3>1. \A u \in Threads : Keeps(u, b, s) => u = t
      BY <2>1, <2>3 DEF KeepInv
    <3>2. ~Keeps(t, b, s)'
      BY <2>1, <2>2, <2>3
    <3>3. \A u \in Threads : ~Keeps(u, b, s)'
      BY <3>1, <3>2, KeepsOthers
    <3> QED
      BY <3>3
  <2>4. CASE s = slot[t] /\ b = last[t].ptr
    <3>1. head[s].ptr = b /\ (head[s].ptr # b)'
      BY <2>2, <2>4
    <3>2. \A u \in Threads : ~Keeps(u, b, s)
      BY <3>1 DEF KeepInv
    <3> QED
      BY <3>1, <3>2, KeepMoves
  <2>5. CASE s # slot[t] \/ (b # batch[t] /\ b # last[t].ptr)
    <3>1. /\ Keeps(t, b, s)' => Keeps(t, b, s)
          /\ (head[s].ptr = b)' => head[s].ptr = b
      BY <2>1, <2>2, <2>5
    <3> QED
      BY <3>1, KeepFrame
  <2> QED
    BY <2>3, <2>4, <2>5
<1> QED
  BY <1>2, <1>3, <1>4, <1>5, <1>6, StepKinds

\* Steps that no thread takes.
LEMMA NoStepOpen ==
    ASSUME (\E b \in Batches : Alloc(b)) \/ UNCHANGED vars, NEW b
    PROVE  /\ \A u \in Threads, s \in Slots : Keeps(u, b, s)' <=> Keeps(u, b, s)
           /\ head' = head
           /\ Open(b)' = Open(b) /\ Settled(b)' = Settled(b)
           /\ Owers(b)' = Owers(b) /\ Uncounted(b)' = Uncounted(b)
           /\ \A u \in Threads : \A c : Owes(u, c)' <=> Owes(u, c)
           /\ vec' = vec /\ refs' = refs /\ list' = list
<1>1. UNCHANGED <<head, next, refs, active, held, todo, later, pc, op, vec, smr, last,
                  walk, outer, thr, list, batch, slot, adjs, doAdjs, skipped, covers>>
  BY DEF Alloc, vars, shared, history, callerLocals, walkLocals, retireLocals
<1>2. \A u \in Threads, s \in Slots : Keeps(u, b, s)' <=> Keeps(u, b, s)
  BY <1>1 DEF Keeps, Adjusts, Ahead
<1>3. \A u \in Threads : \A c : Owes(u, c)' <=> Owes(u, c)
  BY <1>1 DEF Owes
<1>4. Open(b)' = Open(b) /\ Settled(b)' = Settled(b)
  BY <1>1, <1>2 DEF Open, Settled
<1>5. Owers(b)' = Owers(b)
  BY <1>3 DEF Owers
<1>6. Uncounted(b)' = Uncounted(b)
  BY <1>1 DEF Uncounted
<1> QED
  BY <1>1, <1>2, <1>3, <1>4, <1>5, <1>6

-----------------------------------------------------------------------------
(* What is owed is counted, or about to be.                                *)

\* A thread stays in the slot through which it owes.
LEMMA SlotStays ==
    ASSUME TypeOK, ThreadInv, NEW t \in Threads, AnyCall(t) \/ AnyStep(t),
           NEW u \in Threads, NEW b \in Batches, Owes(u, b)
    PROVE  vec'[u] = vec[u]
<1>1. CASE u # t
  BY <1>1, KeptByOthers DEF Kept
<1>2. CASE u = t
  <2>1. ControlOK(t)
    BY DEF ThreadInv, ThreadOK
  <2>2. ~((\E s \in Slots : Enter(t, s)))
    BY <1>2, <2>1, InEmpty DEF Enter, ControlOK, In, Owes
  <2>3. CASE Reenter(t)
    BY <1>2, <2>3 DEF Reenter, EnterSlot, TypeOK
  <2>4. CASE AnyEnd(t)
    <3>1. pc[t] = "free"
      BY <2>4 DEF AnyEnd, EndCall, EndFlushed
    <3>2. t \in active
      <4>1. todo[t] = <<>> /\ later[t] = <<>>
        BY <2>1, <3>1 DEF ControlOK, LeaveLabels
      <4>2. held[t] # <<>>
        BY <1>2, <4>1, InEmpty DEF Owes
      <4> QED
        BY <2>1, <3>1, <4>2 DEF ControlOK, In
    <3> QED
      <4>1. CASE EndCall(t)
        BY <1>2, <3>2, <4>1 DEF EndCall, TypeOK
      <4>2. CASE EndFlushed(t)
        BY <2>1, <3>2, <4>2 DEF EndFlushed, ControlOK
      <4> QED
        BY <2>4, <4>1, <4>2 DEF AnyEnd
  <2>5. CASE ~Reenter(t) /\ ~AnyEnd(t)
    <3> USE DEF callerLocals
    <3>1. CASE Leave(t) \/ NestedLeave(t) \/ LeaveRead(t) \/ LeaveCasFails(t)
      BY <3>1 DEF Leave, NestedLeave, LeaveBegin, LeaveRead, LeaveCasFails
    <3>2. CASE LeaveCas(t) \/ LeaveClear(t) \/ LeaveClearFails(t) \/ LeaveAdjust(t)
      BY <3>2 DEF LeaveCas, LeaveClear, LeaveClearFails, LeaveAdjust
    <3>3. CASE TravRead(t) \/ TravDrop(t) \/ Trim(t) \/ TrimRead(t)
      BY <3>3 DEF TravRead, TravDrop, Trim, TrimNothing, TrimBegin, TrimRead
    <3>4. CASE AnyLoad(t) \/ Insert(t) \/ InsertFails(t) \/ RetireAdjust(t)
      BY <3>4 DEF AnyLoad, RetireLoad, PassByEpoch, Insert, InsertFails,
         RetireAdjust
    <3>5. CASE \/ RetireNext(t) \/ RetireFinish(t) \/ \E c \in Batches : Free(t, c)
               \/ \E c \in Batches : AnyRetire(t, c)
      BY <3>5 DEF RetireNext, RetireFinish, Free, AnyRetire, Retire, RetireUnseen
    <3> QED
      BY <2>2, <2>5, <3>1, <3>2, <3>3, <3>4, <3>5 DEF AnyCall, Call, AnyRetire,
         AnyStep, Step, AnyLoad, AnyEnd
  <2> QED
    BY <2>3, <2>4, <2>5
<1> QED
  BY <1>1, <1>2

\* The threads that owe a batch: an insertion adds those in the slot to the
\* old head's, a step of a traversal takes one away.
LEMMA OwersStep ==
    ASSUME TypeOK, ThreadInv, SlotsAgree, KeepInv, OweInv, RefsInv, NEW t \in Threads,
           AnyCall(t) \/ AnyStep(t), NEW b \in Batches
    PROVE  /\ ~TravDrop(t) /\ ~Insert(t) => Owers(b)' = Owers(b)
           /\ TravDrop(t) =>
                /\ walk[t].curr \in Batches /\ t \in Owers(walk[t].curr)
                /\ Owers(b)' = IF b = walk[t].curr THEN Owers(b) \ {t} ELSE Owers(b)
           /\ Insert(t) =>
                /\ b # last[t].ptr => Owers(b)' = Owers(b)
                /\ b = last[t].ptr => /\ Owers(b)' = Owers(b) \union Inside(slot[t])
                                      /\ Owers(b) \cap Inside(slot[t]) = {}
<1>1. ASSUME ~TravDrop(t), ~Insert(t) PROVE Owers(b)' = Owers(b)
  <2>1. \A u \in Threads : Owes(u, b)' <=> Owes(u, b)
    BY <1>1, OwesStep DEF Stays
  <2> QED
    BY <2>1 DEF Owers
<1>2. ASSUME TravDrop(t)
      PROVE  /\ walk[t].curr \in Batches /\ t \in Owers(walk[t].curr)
             /\ Owers(b)' = IF b = walk[t].curr THEN Owers(b) \ {t} ELSE Owers(b)
  <2>1. ~Insert(t)
    BY <1>2 DEF TravDrop, Insert
  <2>2. \A u \in Threads : u # t => (Owes(u, b)' <=> Owes(u, b))
    BY <2>1, OwesStep DEF Stays
  <2>3. Owes(t, walk[t].curr) /\ (Owes(t, b)' <=> Owes(t, b) /\ b # walk[t].curr)
    BY <1>2, TravDropLeaves
  <2>4. walk[t].curr \in Batches
    BY <1>2, DropsTodo DEF TravDrop
  <2> QED
    BY <2>2, <2>3, <2>4 DEF Owers
<1>3. ASSUME Insert(t)
      PROVE  /\ b # last[t].ptr => Owers(b)' = Owers(b)
             /\ b = last[t].ptr => /\ Owers(b)' = Owers(b) \union Inside(slot[t])
                                   /\ Owers(b) \cap Inside(slot[t]) = {}
  <2>1. \A u \in Threads :
            Owes(u, b)' <=> Owes(u, b) \/ (u \in Inside(slot[t]) /\ b = last[t].ptr)
    BY <1>3, InsertStays
  <2>2. last[t].ptr = head[slot[t]].ptr /\ Inside(slot[t]) \subseteq Threads
    BY <1>3, InsertNew DEF Inside
  <2>3. ASSUME b = last[t].ptr PROVE Owers(b) \cap Inside(slot[t]) = {}
    BY <2>2, <2>3 DEF Owers, Inside, ThreadInv, ThreadOK, OnceOK
  <2>4. b # last[t].ptr => Owers(b)' = Owers(b)
    BY <2>1 DEF Owers
  <2>5. b = last[t].ptr => Owers(b)' = Owers(b) \union Inside(slot[t])
    BY <2>1, <2>2 DEF Owers
  <2> QED
    BY <2>3, <2>4, <2>5
<1> QED
  BY <1>1, <1>2, <1>3

\* A slot that has made its contribution has made it for good, up to the next
\* retirement of the batch.
LEMMA OpenStep ==
    ASSUME TypeOK, ThreadInv, ThreadInv', KeepInv, OweInv, RefsInv,
           NEW t \in Threads, AnyCall(t) \/ AnyStep(t), NEW b \in Batches, ~AnyRetire(t, b)
    PROVE  Open(b)' \subseteq Open(b)
<1>1. CASE Quiet(t) \/ Looks(t)
  BY <1>1, QuietOpen, LooksOpen, SameOpenIsOpen
<1>2. CASE Clears(t) \/ Insert(t)
  BY <1>2, ClearsOpen, InsertOpen
<1>3. CASE LeaveAdjust(t) \/ RetireAdjust(t)
  <2>1. vec[t] \in Slots /\ slot[t] \in Slots
    BY DEF TypeOK
  <2>2. PICK R \in SUBSET Slots : Made(t, b, R)
    BY <1>3, <2>1, LeaveAdjustOpen, RetireAdjustOpen
  <2> QED
    BY <2>2, MadeOpen
<1>4. CASE RetireFinish(t)
  <2>1. skipped[t] \in SUBSET Slots
    BY DEF TypeOK
  <2>2. PICK R \in SUBSET Slots : Made(t, b, R)
    BY <1>4, <2>1, RetireFinishOpen
  <2> QED
    BY <2>2, MadeOpen
<1>5. ASSUME NEW c \in Batches, AnyRetire(t, c) PROVE Open(b)' \subseteq Open(b)
  <2>1. c # b
    BY <1>5
  <2> QED
    BY <1>5, <2>1, RetireOpen
<1> QED
  BY <1>1, <1>2, <1>3, <1>4, <1>5, StepKinds

\* Every step of a thread keeps the debts those of the lists.
LEMMA OweInvStep ==
    ASSUME TypeOK, ThreadInv, ThreadInv', SlotsAgree, KeepInv, OweInv, RefsInv,
           NEW t \in Threads, AnyCall(t) \/ AnyStep(t)
    PROVE  OweInv'
<1>1. SUFFICES ASSUME NEW u \in Threads, NEW b \in Batches, Owes(u, b)'
               PROVE  (vec[u] \in Settled(b) \/ <<vec[u], u>> \in Uncounted(b))'
  BY DEF OweInv
<1>2. CASE ~Owes(u, b)
  <2>1. Insert(t) /\ u \in Inside(slot[t]) /\ b = last[t].ptr
    <3>1. Insert(t)
      BY <1>1, <1>2, OwesStep, TravDropLeaves DEF Stays
    <3> QED
      BY <1>1, <1>2, <3>1, InsertStays
  <2>2. <<slot[t], u>> \in Uncounted(b)'
    BY <2>1, InsertOpen
  <2>3. vec'[u] = slot[t]
    BY <2>1, InsertEffect DEF Inside
  <2> QED
    BY <2>2, <2>3
<1>3. CASE Owes(u, b)
  <2>1. vec'[u] = vec[u] /\ vec[u] \in Slots
    BY <1>3, SlotStays DEF TypeOK
  <2>2. ~AnyRetire(t, b)
    <3>1. u \in Owers(b)
      BY <1>3 DEF Owers
    <3> QED
      BY <3>1, RetireOpen
  <2>3. Open(b)' \subseteq Open(b)
    BY <2>2, OpenStep
  <2>4. CASE vec[u] \in Settled(b)
    BY <2>1, <2>3, <2>4 DEF Settled
  <2>5. CASE <<vec[u], u>> \in Uncounted(b)
    <3>1. CASE RetireAdjust(t) /\ b = last[t].ptr
      <4>1. /\ Made(t, b, {slot[t]}) /\ slot[t] \in Slots
            /\ Uncounted(b)' = Uncounted(b) \ ({slot[t]} \X covers[t])
        BY <3>1, RetireAdjustOpen DEF TypeOK
      <4>2. {slot[t]} \in SUBSET Slots
        BY <4>1
      <4>3. Open(b)' = Open(b) \ {slot[t]}
        BY <4>1, <4>2, MadeOpen
      <4>4. vec[u] # slot[t] => <<vec[u], u>> \in Uncounted(b)'
        BY <2>5, <4>1
      <4> QED
        BY <2>1, <4>3, <4>4 DEF Settled
    <3>2. CASE ~(RetireAdjust(t) /\ b = last[t].ptr)
      <4>1. Uncounted(b) \subseteq Uncounted(b)'
        <5>1. CASE Quiet(t) \/ Looks(t) \/ Clears(t)
          BY <5>1, QuietOpen, LooksOpen, ClearsOpen
        <5>2. CASE LeaveAdjust(t) \/ RetireFinish(t) \/ RetireAdjust(t)
          BY <3>2, <5>2, LeaveAdjustOpen, RetireFinishOpen, RetireAdjustOpen
        <5>3. CASE Insert(t)
          BY <5>3, InsertOpen
        <5>4. CASE \E c \in Batches : AnyRetire(t, c)
          BY <5>4, RetireOpen
        <5> QED
          BY <5>1, <5>2, <5>3, <5>4, StepKinds
      <4> QED
        BY <2>1, <2>5, <4>1
    <3> QED
      BY <3>1, <3>2
  <2> QED
    BY <1>3, <2>4, <2>5 DEF OweInv
<1> QED
  BY <1>2, <1>3

-----------------------------------------------------------------------------
(* Balances.                                                               *)

\* With a pair for every thread there are as many pairs as threads.
LEMMA Injected ==
    ASSUME NEW Y \in SUBSET Threads, NEW Z \in SUBSET (Slots \X Threads),
           \A u \in Y : \E e \in Z : e[2] = u
    PROVE  Cardinality(Y) <= Cardinality(Z)
<1> DEFINE f == [u \in Y |-> CHOOSE e \in Z : e[2] = u]
<1>1. IsFiniteSet(Z)
  <2>1. IsFiniteSet(Slots)
    BY FS_Interval, Constants DEF Slots
  <2>2. IsFiniteSet(Slots \X Threads)
    BY <2>1, FS_Product, Constants
  <2> QED
    BY <2>2, FS_Subset
<1>2. f \in Injection(Y, Z)
  <2>1. \A u \in Y : f[u] \in Z /\ f[u][2] = u
    OBVIOUS
  <2>2. f \in [Y -> Z]
    BY <2>1
  <2> HIDE DEF f
  <2>3. \A u, v \in Y : f[u] = f[v] => u = v
    BY <2>1
  <2> QED
    BY <2>2, <2>3 DEF Injection, IsInjective
<1> QED
  BY <1>1, <1>2, FS_Injection

\* The balance of X open slots, Y owers and Z uncounted references.
Weight(X, Y, Z) == Share * Cardinality(Slots \ X) + Cardinality(Y) - Cardinality(Z)

\* What it tells when every
\* ower of a batch that no slot has counted is in Z.
LEMMA Extent ==
    ASSUME NEW X \in SUBSET Slots, NEW Y \in SUBSET Threads,
           NEW Z \in SUBSET (X \X Threads),
           Slots \ X = {} => Cardinality(Y) <= Cardinality(Z)
    PROVE  LET B == Weight(X, Y, Z) IN
           /\ B \in Int /\ 0 - Mod < B /\ B < 2 * Mod
           /\ B = Mod <=> X = {} /\ Y = {}
           /\ B = 0 <=> Slots \ X = {} /\ Cardinality(Y) = Cardinality(Z)
           /\ X = {} => B = Mod + Cardinality(Y)
<1> DEFINE s == Cardinality(Slots \ X)
           o == Cardinality(Y)
           u == Cardinality(Z)
<1>1. /\ s \in 0 .. NumSlots /\ o \in 0 .. Cardinality(Threads) /\ u \in Nat
      /\ u <= (NumSlots - s) * Cardinality(Threads)
      /\ s = NumSlots <=> X = {}
      /\ s = 0 <=> Slots \ X = {}
      /\ o = 0 <=> Y = {}
  BY Sizes
<1> HIDE DEF s, o, u
<1>2. s = 0 => o <= u
  BY <1>1 DEF s, o, u
<1>3. /\ 0 - Mod < Share * s + o - u /\ Share * s + o - u < 2 * Mod
      /\ Share * s + o - u \in Int
      /\ Share * s + o - u = Mod <=> s = NumSlots /\ o = 0
      /\ Share * s + o - u = 0 <=> s = 0 /\ o = u
      /\ s = NumSlots => Share * s + o - u = Mod + o
  BY <1>1, <1>2, Tally
<1> QED
  BY <1>1, <1>3 DEF s, o, u, Weight

\* The sets that the balance of a batch is made of, now and after a step.
LEMMA BalanceSets ==
    ASSUME NEW b
    PROVE  /\ Open(b) \in SUBSET Slots /\ Owers(b) \in SUBSET Threads
           /\ Uncounted(b) \in SUBSET (Open(b) \X Threads)
           /\ Balance(b) = Share * Cardinality(Slots \ Open(b))
                           + Cardinality(Owers(b)) - Cardinality(Uncounted(b))
           /\ Open(b)' \in SUBSET Slots /\ Owers(b)' \in SUBSET Threads
           /\ Uncounted(b)' \in SUBSET (Open(b)' \X Threads)
           /\ Balance(b)' = Share * Cardinality(Slots \ Open(b)')
                           + Cardinality(Owers(b)') - Cardinality(Uncounted(b)')
<1>1. Open(b) \in SUBSET Slots /\ Owers(b) \in SUBSET Threads
  BY DEF Open, Owers
<1>2. Open(b)' \in SUBSET Slots /\ Owers(b)' \in SUBSET Threads
  BY DEF Open, Owers
<1>3. Uncounted(b) \in SUBSET (Open(b) \X Threads)
  BY DEF Uncounted, Open, Keeps, Adjusts
<1>4. Uncounted(b)' \in SUBSET (Open(b)' \X Threads)
  BY DEF Uncounted, Open, Keeps, Adjusts
<1>5. Balance(b) = Share * Cardinality(Slots \ Open(b))
                           + Cardinality(Owers(b)) - Cardinality(Uncounted(b))
  BY DEF Balance, Settled
<1>6. Balance(b)' = Share * Cardinality(Slots \ Open(b)')
                           + Cardinality(Owers(b)') - Cardinality(Uncounted(b)')
  BY DEF Balance, Settled
<1> QED
  BY <1>1, <1>2, <1>3, <1>4, <1>5, <1>6

\* What the balance of a batch tells.
Tells(b) ==
    /\ Balance(b) \in Int /\ 0 - Mod < Balance(b) /\ Balance(b) < 2 * Mod
    /\ Balance(b) = Mod <=> Open(b) = {} /\ Owers(b) = {}
    /\ Balance(b) = 0 <=>
         Settled(b) = {} /\ Cardinality(Owers(b)) = Cardinality(Uncounted(b))
    /\ Open(b) = {} => Balance(b) = Mod + Cardinality(Owers(b))

\* The balance of a batch tells whether its counter can be 0.
LEMMA BalanceTells ==
    ASSUME NEW b \in Batches
    PROVE  (OweInv => Tells(b)) /\ (OweInv' => Tells(b)')
<1>1. ASSUME OweInv PROVE Tells(b)
  <2>1. Settled(b) = {} => \A u \in Owers(b) : \E e \in Uncounted(b) : e[2] = u
    BY <1>1 DEF OweInv, Owers
  <2> DEFINE X == Open(b)
             Y == Owers(b)
             Z == Uncounted(b)
             B == Balance(b)
  <2>2. /\ X \in SUBSET Slots /\ Y \in SUBSET Threads /\ Z \in SUBSET (X \X Threads)
        /\ B = Share * Cardinality(Slots \ X) + Cardinality(Y) - Cardinality(Z)
        /\ Slots \ X = {} => \A u \in Y : \E e \in Z : e[2] = u
    BY <2>1, BalanceSets DEF Settled
  <2> HIDE DEF X, Y, Z, B
  <2>3. Slots \ X = {} => Cardinality(Y) <= Cardinality(Z)
    <3>1. Z \in SUBSET (Slots \X Threads)
      BY <2>2
    <3> QED
      BY <2>2, <3>1, Injected
  <2> DEFINE C == Weight(X, Y, Z)
  <2>4. /\ C \in Int /\ 0 - Mod < C /\ C < 2 * Mod
        /\ C = Mod <=> X = {} /\ Y = {}
        /\ C = 0 <=> Slots \ X = {} /\ Cardinality(Y) = Cardinality(Z)
        /\ X = {} => C = Mod + Cardinality(Y)
    <3>1. X \in SUBSET Slots /\ Y \in SUBSET Threads /\ Z \in SUBSET (X \X Threads)
      BY <2>2
    <3> QED
      BY <2>3, <3>1, Extent
  <2>5. B = C
    BY <2>2 DEF Weight
  <2> HIDE DEF C
  <2> QED
    BY <2>4, <2>5 DEF Tells, Settled, X, Y, Z, B
<1>2. ASSUME OweInv' PROVE Tells(b)'
  <2>1. Settled(b)' = {} => \A u \in Owers(b)' : \E e \in Uncounted(b)' : e[2] = u
    BY <1>2 DEF OweInv, Owers
  <2> DEFINE X == Open(b)'
             Y == Owers(b)'
             Z == Uncounted(b)'
             B == Balance(b)'
  <2>2. /\ X \in SUBSET Slots /\ Y \in SUBSET Threads /\ Z \in SUBSET (X \X Threads)
        /\ B = Share * Cardinality(Slots \ X) + Cardinality(Y) - Cardinality(Z)
        /\ Slots \ X = {} => \A u \in Y : \E e \in Z : e[2] = u
    BY <2>1, BalanceSets DEF Settled
  <2> HIDE DEF X, Y, Z, B
  <2>3. Slots \ X = {} => Cardinality(Y) <= Cardinality(Z)
    <3>1. Z \in SUBSET (Slots \X Threads)
      BY <2>2
    <3> QED
      BY <2>2, <3>1, Injected
  <2> DEFINE C == Weight(X, Y, Z)
  <2>4. /\ C \in Int /\ 0 - Mod < C /\ C < 2 * Mod
        /\ C = Mod <=> X = {} /\ Y = {}
        /\ C = 0 <=> Slots \ X = {} /\ Cardinality(Y) = Cardinality(Z)
        /\ X = {} => C = Mod + Cardinality(Y)
    <3>1. X \in SUBSET Slots /\ Y \in SUBSET Threads /\ Z \in SUBSET (X \X Threads)
      BY <2>2
    <3> QED
      BY <2>3, <3>1, Extent
  <2>5. B = C
    BY <2>2 DEF Weight
  <2> HIDE DEF C
  <2> QED
    BY <2>4, <2>5 DEF Tells, Settled, X, Y, Z, B
<1> QED
  BY <1>1, <1>2

\* The sizes of disjoint unions and of differences.
LEMMA DisjointSize ==
    ASSUME NEW A, NEW C, IsFiniteSet(A), IsFiniteSet(C), A \cap C = {}
    PROVE  /\ Cardinality(A) \in Nat /\ Cardinality(C) \in Nat
           /\ Cardinality(A \union C) = Cardinality(A) + Cardinality(C)
<1> DEFINE N == A \cap C
<1>1. IsFiniteSet(N) /\ N = {}
  BY FS_EmptySet
<1>2. Cardinality(A \union C) = Cardinality(A) + Cardinality(C) - Cardinality(N)
  BY FS_Union
<1> HIDE DEF N
<1>3. Cardinality(N) = 0
  BY <1>1, FS_EmptySet
<1>4. Cardinality(A) \in Nat /\ Cardinality(C) \in Nat
  BY FS_CardinalityType
<1> QED
  BY <1>2, <1>3, <1>4

\* The size of what is left of a finite set.
LEMMA RestSize ==
    ASSUME NEW A, NEW C, IsFiniteSet(A), C \subseteq A
    PROVE  /\ Cardinality(A) \in Nat /\ Cardinality(C) \in Nat /\ IsFiniteSet(C)
           /\ Cardinality(A \ C) = Cardinality(A) - Cardinality(C)
           /\ Cardinality(C) <= Cardinality(A)
<1> DEFINE D == A \ C
           U == D \union C
<1>1. IsFiniteSet(C) /\ IsFiniteSet(D) /\ Cardinality(C) <= Cardinality(A)
  BY FS_Subset
<1>2. U = A /\ D \cap C = {}
  OBVIOUS
<1>3. /\ Cardinality(D) \in Nat /\ Cardinality(C) \in Nat
      /\ Cardinality(U) = Cardinality(D) + Cardinality(C)
  BY <1>1, <1>2, DisjointSize
<1>4. Cardinality(U) = Cardinality(A)
  BY <1>2, Zenon
<1>5. Cardinality(A) \in Nat
  BY FS_CardinalityType
<1> HIDE DEF D, U
<1>6. Cardinality(D) = Cardinality(A) - Cardinality(C)
  BY <1>3, <1>4, <1>5
<1> QED
  BY <1>1, <1>3, <1>5, <1>6 DEF D

\* Shares of slots are whole numbers.
LEMMA SharesOut ==
    ASSUME NEW X \in SUBSET Slots
    PROVE  Share * Cardinality(Slots \ X) \in Int
<1>1. IsFiniteSet(Slots) /\ Slots \ X \subseteq Slots
  BY FS_Interval, Constants DEF Slots
<1>2. Cardinality(Slots \ X) \in Nat
  BY <1>1, RestSize
<1> QED
  BY <1>2, Constants

\* How a balance moves: with slots that contribute, with references that get
\* counted, with an ower that gives its reference back, and with references
\* that are taken and wait to be counted.
LEMMA WeightSettle ==
    ASSUME NEW X \in SUBSET Slots, NEW R \in SUBSET X, NEW Y, NEW Z,
           Cardinality(Y) \in Int, Cardinality(Z) \in Int
    PROVE  /\ Weight(X \ R, Y, Z) = Weight(X, Y, Z) + Share * Cardinality(R)
           /\ Cardinality(R) \in 0 .. NumSlots
           /\ R # {} => Slots \ (X \ R) # {}
<1> DEFINE K == Slots \ X
           L == Slots \ (X \ R)
           U == K \union R
           a == Cardinality(K)
           r == Cardinality(R)
<1>1. IsFiniteSet(Slots) /\ Cardinality(Slots) = NumSlots
  BY FS_Interval, Constants DEF Slots
<1>2. R \subseteq Slots /\ K \subseteq Slots /\ L = U /\ K \cap R = {}
  OBVIOUS
<1>3. IsFiniteSet(R) /\ IsFiniteSet(K)
  BY <1>1, <1>2, FS_Subset
<1>4. Cardinality(U) = a + r
  BY <1>2, <1>3, DisjointSize
<1>5. Cardinality(L) = Cardinality(U)
  BY <1>2, Zenon
<1>6. a \in Nat /\ r \in 0 .. NumSlots
  <2>1. a \in Nat /\ r \in Nat
    BY <1>3, FS_CardinalityType
  <2>2. r <= Cardinality(Slots)
    BY <1>1, <1>2, RestSize
  <2> QED
    BY <1>1, <2>1, <2>2, Constants
<1>7. Share * (a + r) = Share * a + Share * r /\ Share * a \in Nat /\ Share * r \in Nat
  BY <1>6, Constants
<1>8. /\ Weight(X \ R, Y, Z) = Share * Cardinality(L) + Cardinality(Y) - Cardinality(Z)
      /\ Weight(X, Y, Z) = Share * a + Cardinality(Y) - Cardinality(Z)
  BY DEF Weight
<1> HIDE DEF K, L, U, a, r
<1>9. Share * Cardinality(L) = Share * a + Share * r
  BY <1>4, <1>5, <1>7
<1> DEFINE sl == Share * Cardinality(L)
           sa == Share * a
           sr == Share * r
           w == Weight(X, Y, Z)
           w1 == Weight(X \ R, Y, Z)
<1>10. /\ w1 = sl + Cardinality(Y) - Cardinality(Z)
       /\ w = sa + Cardinality(Y) - Cardinality(Z)
       /\ sl = sa + sr /\ sa \in Int /\ sr \in Int
  BY <1>7, <1>8, <1>9
<1> HIDE DEF sl, sa, sr, w, w1
<1>11. w1 = w + sr
  BY <1>10
<1>12. R # {} => Slots \ (X \ R) # {}
  OBVIOUS
<1> QED
  BY <1>6, <1>11, <1>12 DEF w1, w, sr, r

\* The weight without the references that were counted.
LEMMA WeightCount ==
    ASSUME NEW X \in SUBSET Slots, NEW Y, NEW Z, NEW W \in SUBSET Z, IsFiniteSet(Z),
           Cardinality(Y) \in Int
    PROVE  Weight(X, Y, Z \ W) = Weight(X, Y, Z) + Cardinality(W)
<1> DEFINE a == Share * Cardinality(Slots \ X)
<1>1. /\ Cardinality(Z) \in Nat /\ Cardinality(W) \in Nat
      /\ Cardinality(Z \ W) = Cardinality(Z) - Cardinality(W)
  BY RestSize
<1>2. a \in Int
  BY SharesOut
<1>3. /\ Weight(X, Y, Z \ W) = a + Cardinality(Y) - Cardinality(Z \ W)
      /\ Weight(X, Y, Z) = a + Cardinality(Y) - Cardinality(Z)
  BY DEF Weight
<1> HIDE DEF a
<1> QED
  BY <1>1, <1>2, <1>3

\* The weight without a thread that owes.
LEMMA WeightDrop ==
    ASSUME NEW X \in SUBSET Slots, NEW Y \in SUBSET Threads, NEW t \in Y, NEW Z,
           Cardinality(Z) \in Int
    PROVE  /\ Weight(X, Y \ {t}, Z) = Weight(X, Y, Z) - 1
           /\ Cardinality(Y \ {t}) < Cardinality(Y)
<1> DEFINE a == Share * Cardinality(Slots \ X)
<1>1. Cardinality(Y) \in Nat /\ Cardinality(Y \ {t}) = Cardinality(Y) - 1
  <2>1. IsFiniteSet(Y)
    BY FS_Subset, Constants
  <2>2. Cardinality(Y \ {t}) = Cardinality(Y) - 1
    BY <2>1, FS_RemoveElement
  <2> QED
    BY <2>1, <2>2, FS_CardinalityType
<1>2. a \in Int
  BY SharesOut
<1>3. /\ Weight(X, Y \ {t}, Z) = a + Cardinality(Y \ {t}) - Cardinality(Z)
      /\ Weight(X, Y, Z) = a + Cardinality(Y) - Cardinality(Z)
  BY DEF Weight
<1> HIDE DEF a
<1> QED
  BY <1>1, <1>2, <1>3

\* The weight when threads begin to owe what was not counted.
LEMMA WeightTake ==
    ASSUME NEW X \in SUBSET Slots, NEW Y \in SUBSET Threads, NEW I \in SUBSET Threads,
           NEW Z, IsFiniteSet(Z), NEW J, IsFiniteSet(J), Cardinality(J) = Cardinality(I),
           Y \cap I = {}, Z \cap J = {}
    PROVE  Weight(X, Y \union I, Z \union J) = Weight(X, Y, Z)
<1> DEFINE a == Share * Cardinality(Slots \ X)
<1>1. IsFiniteSet(Y) /\ IsFiniteSet(I)
  BY FS_Subset, Constants
<1>2. /\ Cardinality(Y) \in Nat /\ Cardinality(I) \in Nat
      /\ Cardinality(Y \union I) = Cardinality(Y) + Cardinality(I)
  BY <1>1, DisjointSize
<1>3. /\ Cardinality(Z) \in Nat
      /\ Cardinality(Z \union J) = Cardinality(Z) + Cardinality(J)
  BY DisjointSize
<1>4. a \in Int
  BY SharesOut
<1>5. /\ Weight(X, Y \union I, Z \union J) = a + Cardinality(Y \union I)
                                               - Cardinality(Z \union J)
      /\ Weight(X, Y, Z) = a + Cardinality(Y) - Cardinality(Z)
  BY DEF Weight
<1> HIDE DEF a
<1> QED
  BY <1>2, <1>3, <1>4, <1>5

\* The references of the threads I in one slot.
LEMMA ColumnSize ==
    ASSUME NEW I \in SUBSET Threads, NEW s
    PROVE  /\ IsFiniteSet({s} \X I) /\ Cardinality({s} \X I) = Cardinality(I)
           /\ Cardinality(I) \in 0 .. Cardinality(Threads)
<1>1. IsFiniteSet(I) /\ Cardinality(I) \in Nat /\ Cardinality(I) <= Cardinality(Threads)
  BY RestSize, Constants
<1>2. IsFiniteSet({s}) /\ Cardinality({s}) = 1
  BY FS_Singleton
<1>3. IsFiniteSet({s} \X I) /\ Cardinality({s} \X I) = Cardinality({s}) * Cardinality(I)
  BY <1>1, <1>2, FS_Product
<1> QED
  BY <1>1, <1>2, <1>3, Constants

\* The balance is the weight of these three sets.
LEMMA BalanceIs ==
    ASSUME NEW b
    PROVE  /\ Balance(b) = Weight(Open(b), Owers(b), Uncounted(b))
           /\ Balance(b)' = Weight(Open(b)', Owers(b)', Uncounted(b)')
           /\ Open(b) \in SUBSET Slots /\ Owers(b) \in SUBSET Threads
           /\ Uncounted(b) \in SUBSET (Open(b) \X Threads)
           /\ IsFiniteSet(Uncounted(b))
           /\ Cardinality(Owers(b)) \in Int /\ Cardinality(Uncounted(b)) \in Int
<1>1. /\ Open(b) \in SUBSET Slots /\ Owers(b) \in SUBSET Threads
      /\ Uncounted(b) \in SUBSET (Open(b) \X Threads)
  BY BalanceSets
<1>2. IsFiniteSet(Uncounted(b))
  <2>1. IsFiniteSet(Slots)
    BY FS_Interval, Constants DEF Slots
  <2>2. IsFiniteSet(Slots \X Threads)
    BY <2>1, FS_Product, Constants
  <2>3. Uncounted(b) \subseteq Slots \X Threads
    BY <1>1
  <2> QED
    BY <2>2, <2>3, FS_Subset
<1>3. IsFiniteSet(Owers(b))
  BY <1>1, FS_Subset, Constants
<1>4. Cardinality(Owers(b)) \in Int /\ Cardinality(Uncounted(b)) \in Int
  BY <1>2, <1>3, FS_CardinalityType
<1>5. /\ Balance(b) = Weight(Open(b), Owers(b), Uncounted(b))
      /\ Balance(b)' = Weight(Open(b)', Owers(b)', Uncounted(b)')
  BY BalanceSets DEF Weight
<1> QED
  BY <1>1, <1>2, <1>4, <1>5

-----------------------------------------------------------------------------
(* The counter of a batch.                                                 *)

\* What the invariants say of one batch and its counter.
BatchOK(b) ==
    /\ status[b] # "retired" \/ Listed(b) => Open(b) = {} /\ Owers(b) = {}
    /\ Listed(b) => status[b] = "retired" /\ refs[b] = 0
    /\ \A t, u \in Threads : b \in list[t] \cap list[u] => t = u
    /\ status[b] = "retired" /\ ~Listed(b) =>
         /\ Open(b) # {} \/ Owers(b) # {}
         /\ refs[b] - Balance(b) \in {0 - Mod, 0, Mod}

\* The invariants of the counters, batch by batch.
LEMMA BatchInvariants == RefsInv /\ RefsAccountedFor <=> \A b \in Batches : BatchOK(b)
BY DEF RefsInv, RefsAccountedFor, BatchOK

\* The same after a step.
LEMMA BatchInvariantsNext ==
    (RefsInv /\ RefsAccountedFor)' <=> \A b \in Batches : BatchOK(b)'
BY DEF RefsInv, RefsAccountedFor, BatchOK

\* The counter, the contributions to come and the balance are as before.
LEMMA SameBatch ==
    ASSUME NEW b, BatchOK(b), refs'[b] = refs[b], status'[b] = status[b],
           \A u \in Threads : b \in list'[u] <=> b \in list[u],
           Open(b)' = Open(b), Owers(b)' = Owers(b) \/ Open(b) # {},
           Balance(b)' = Balance(b)
    PROVE  BatchOK(b)'
<1>1. Listed(b)' <=> Listed(b)
  BY DEF Listed
<1> QED
  BY <1>1 DEF BatchOK

\* d is added to the balance, and v, the same modulo 2^w, to the counter: it
\* becomes 0 when nothing more is to come.
LEMMA Recount ==
    ASSUME TypeOK, OweInv, OweInv', NEW b \in Batches, BatchOK(b), NEW t \in Threads,
           NEW v \in Word, AdjustRefs(t, b, v), status' = status,
           NEW d \in Int, v - d \in {0 - Mod, 0, Mod}, Balance(b)' = Balance(b) + d,
           Open(b) # {} \/ Owers(b) # {},
           ~(Settled(b) = {} /\ Cardinality(Owers(b)) = Cardinality(Uncounted(b)))'
    PROVE  BatchOK(b)'
<1>1. status[b] = "retired" /\ ~Listed(b) /\ refs[b] - Balance(b) \in {0 - Mod, 0, Mod}
  BY DEF BatchOK, TypeOK
<1>2. Tells(b) /\ Tells(b)'
  BY BalanceTells
<1> DEFINE r == refs[b]
           x == Balance(b)
           y == Balance(b)'
<1>3. /\ r \in Word /\ x \in Int /\ r - x \in {0 - Mod, 0, Mod}
      /\ y = x + d /\ 0 - Mod < y /\ y < 2 * Mod /\ y # 0
      /\ y = Mod <=> (Open(b) = {} /\ Owers(b) = {})'
  BY <1>1, <1>2 DEF Tells, TypeOK
<1>4. /\ refs'[b] = AddW(r, v)
      /\ list' = IF r = NegW(v) THEN [list EXCEPT ![t] = list[t] \union {b}] ELSE list
  BY DEF AdjustRefs, TypeOK
<1> HIDE DEF r, x, y
<1>5. /\ refs'[b] - y \in {0 - Mod, 0, Mod}
      /\ r = NegW(v) <=> y = Mod
      /\ r = NegW(v) => refs'[b] = 0
  BY <1>3, <1>4, Adjusted
<1>6. \A u \in Threads : b \in list'[u] <=> u = t /\ r = NegW(v)
  BY <1>1, <1>4 DEF TypeOK, Listed
<1>7. Listed(b)' <=> (Open(b) = {} /\ Owers(b) = {})'
  BY <1>3, <1>5, <1>6 DEF Listed
<1> QED
  BY <1>1, <1>5, <1>6, <1>7, <1>3 DEF BatchOK, y

\* The other batches.
LEMMA OtherBatch ==
    ASSUME TypeOK, NEW b \in Batches, NEW c \in Batches, c # b, NEW t \in Threads,
           NEW v, AdjustRefs(t, b, v)
    PROVE  refs'[c] = refs[c] /\ \A u \in Threads : c \in list'[u] <=> c \in list[u]
BY DEF AdjustRefs, TypeOK

-----------------------------------------------------------------------------
(* What every step does to a counter and its balance.                      *)

\* What has been shown so far of the state before a step and after it.
Grounds == /\ TypeOK /\ ThreadInv /\ SlotsAgree /\ KeepInv /\ OweInv /\ RefsInv
           /\ RefsAccountedFor
           /\ ThreadInv' /\ OweInv'

\* The steps that change no counter, no free list and no batch.
LEMMA IdleKeeps ==
    ASSUME NEW t \in Threads, Quiet(t) \/ Looks(t) \/ Clears(t) \/ Insert(t),
           ~TravDrop(t), \A b \in Batches : ~Free(t, b)
    PROVE  refs' = refs /\ list' = list /\ status' = status
<1> USE DEF shared, client
<1>1. CASE (\E s \in Slots : Enter(t, s)) \/ Reenter(t)
  BY <1>1 DEF Enter, Reenter
<1>2. CASE Leave(t) \/ NestedLeave(t) \/ LeaveRead(t) \/ LeaveCasFails(t)
  BY <1>2 DEF Leave, NestedLeave, LeaveBegin, LeaveRead, LeaveCasFails
<1>3. CASE LeaveCas(t) \/ LeaveClear(t) \/ LeaveClearFails(t)
  BY <1>3 DEF LeaveCas, LeaveClear, LeaveClearFails
<1>4. CASE TravRead(t) \/ Trim(t) \/ TrimRead(t) \/ AnyEnd(t)
  BY <1>4 DEF TravRead, Trim, TrimNothing, TrimBegin, TrimRead, AnyEnd, EndCall,
     EndFlushed
<1>5. CASE Looks(t) \/ Insert(t)
  BY <1>5 DEF Looks, AnyLoad, RetireLoad, PassByEpoch, InsertFails, RetireNext,
     Insert
<1> QED
  BY <1>1, <1>2, <1>3, <1>4, <1>5 DEF Quiet, Clears

\* A step that adds nothing to any counter keeps what holds of a batch.
LEMMA IdleBatch ==
    ASSUME Grounds, NEW t \in Threads, Quiet(t) \/ Looks(t) \/ Clears(t),
           AnyCall(t) \/ AnyStep(t), ~TravDrop(t), NEW b \in Batches,
           \A c \in Batches : ~Free(t, c)
    PROVE  BatchOK(b)'
<1>1. refs' = refs /\ list' = list /\ status' = status
  BY IdleKeeps
<1>2. Open(b)' = Open(b) /\ Uncounted(b)' = Uncounted(b)
  BY QuietOpen, LooksOpen, ClearsOpen, SameOpenIsOpen DEF Grounds
<1>3. ~Insert(t)
  <2>1. CASE Quiet(t)
    BY <2>1, QuietLabels DEF Grounds, Insert, AdjustLabels, RetireLabels
  <2>2. CASE Clears(t)
    BY <2>2 DEF Clears, LeaveClear, LeaveCas, Insert
  <2>3. CASE Looks(t)
    BY <2>3 DEF Looks, AnyLoad, RetireLoad, PassByEpoch, InsertFails, RetireNext,
       Insert
  <2> QED
    BY <2>1, <2>2, <2>3
<1>4. Owers(b)' = Owers(b)
  BY <1>3, OwersStep DEF Grounds
<1>5. Balance(b)' = Balance(b)
  BY <1>2, <1>4, BalanceIs
<1> QED
  BY <1>1, <1>2, <1>4, <1>5, SameBatch, BatchInvariants DEF Grounds

\* A batch that is freed was waited for by nobody.
LEMMA FreeBatch ==
    ASSUME Grounds, NEW t \in Threads, NEW c \in Batches, Free(t, c), NEW b \in Batches
    PROVE  BatchOK(b)'
<1>1. AnyCall(t) \/ AnyStep(t)
  BY DEF AnyStep, Step, AnyLoad, AnyEnd
<1>2. BatchOK(b) /\ BatchOK(c)
  BY BatchInvariants DEF Grounds
<1>3. Open(b)' = Open(b) /\ Uncounted(b)' = Uncounted(b)
  BY <1>1, QuietOpen, SameOpenIsOpen DEF Grounds, Quiet
<1>4. Owers(b)' = Owers(b)
  <2>1. ~TravDrop(t) /\ ~Insert(t)
    BY DEF Free, TravDrop, Insert
  <2> QED
    BY <1>1, <2>1, OwersStep DEF Grounds
<1>5. Balance(b)' = Balance(b)
  BY <1>3, <1>4, BalanceIs
<1>6. /\ refs' = refs /\ status' = [status EXCEPT ![c] = "freed"] /\ c \in list[t]
      /\ list' = [list EXCEPT ![t] = list[t] \ {c}]
  BY DEF Free
<1>7. CASE b = c
  <2>1. Open(b)' = {} /\ Owers(b)' = {} /\ \A u \in Threads : b \in list[u] => u = t
    BY <1>2, <1>3, <1>4, <1>6, <1>7 DEF BatchOK, Listed
  <2>2. \A u \in Threads : b \notin list'[u]
    BY <1>6, <1>7, <2>1 DEF Grounds, TypeOK
  <2>3. status'[b] = "freed"
    BY <1>6, <1>7 DEF Grounds, TypeOK
  <2> QED
    BY <2>1, <2>2, <2>3 DEF BatchOK, Listed
<1>8. CASE b # c
  <2>1. status'[b] = status[b] /\ \A u \in Threads : b \in list'[u] <=> b \in list[u]
    BY <1>6, <1>8 DEF Grounds, TypeOK
  <2> QED
    BY <1>2, <1>3, <1>4, <1>5, <1>6, <2>1, SameBatch
<1> QED
  BY <1>7, <1>8

\* A batch that is retired waits for every slot, and its balance is 0.
LEMMA RetireBatch ==
    ASSUME Grounds, NEW t \in Threads, NEW c \in Batches, AnyRetire(t, c), NEW b \in Batches
    PROVE  BatchOK(b)'
<1>1. AnyCall(t) \/ AnyStep(t)
  BY DEF AnyCall, Call, AnyRetire
<1>2. BatchOK(b)
  BY BatchInvariants DEF Grounds
<1>3. /\ Open(c) = {} /\ Owers(c) = {} /\ ~Listed(c)
      /\ Open(b)' = IF b = c THEN Slots ELSE Open(b)
      /\ Uncounted(b)' = Uncounted(b)
  BY RetireOpen DEF Grounds
<1>4. Owers(b)' = Owers(b)
  <2>1. ~TravDrop(t) /\ ~Insert(t)
    BY DEF AnyRetire, Retire, RetireUnseen, TravDrop, Insert
  <2> QED
    BY <1>1, <2>1, OwersStep DEF Grounds
<1>5. /\ refs' = [refs EXCEPT ![c] = 0] /\ status' = [status EXCEPT ![c] = "retired"]
      /\ list' = list
  BY DEF AnyRetire, Retire, RetireUnseen
<1>6. CASE b = c
  <2>1. Owers(b)' = {} /\ Uncounted(b)' = {} /\ Open(b)' = Slots
    <3>1. Uncounted(b) \in SUBSET (Open(b) \X Threads)
      BY BalanceIs
    <3> QED
      BY <1>3, <1>4, <1>6, <3>1
  <2>2. Balance(b)' = 0
    <3> DEFINE z == Slots \ Open(b)'
               o == Owers(b)'
               u == Uncounted(b)'
    <3>1. z = {} /\ o = {} /\ u = {}
      BY <2>1
    <3>2. Balance(b)' = Share * Cardinality(z) + Cardinality(o) - Cardinality(u)
      BY BalanceSets
    <3> HIDE DEF z, o, u
    <3>3. Cardinality(z) = 0 /\ Cardinality(o) = 0 /\ Cardinality(u) = 0
      <4>1. IsFiniteSet(z) /\ IsFiniteSet(o) /\ IsFiniteSet(u)
        BY <3>1, FS_EmptySet
      <4> QED
        BY <3>1, <4>1, FS_EmptySet
    <3> QED
      BY <3>2, <3>3, Constants
  <2>3. refs'[b] = 0 /\ status'[b] = "retired" /\ ~Listed(b)'
    BY <1>3, <1>5, <1>6 DEF Grounds, TypeOK, Listed
  <2>4. Open(b)' # {}
    BY <2>1, Constants
  <2>5. \A v \in Threads : b \notin list'[v]
    BY <1>3, <1>5, <1>6 DEF Listed
  <2> QED
    BY <2>2, <2>3, <2>4, <2>5, Constants DEF BatchOK
<1>7. CASE b # c
  <2>1. Balance(b)' = Balance(b) /\ Open(b)' = Open(b)
    BY <1>3, <1>4, <1>7, BalanceIs
  <2>2. refs'[b] = refs[b] /\ status'[b] = status[b]
    BY <1>5, <1>7 DEF Grounds, TypeOK
  <2> QED
    BY <1>2, <1>4, <1>5, <2>1, <2>2, SameBatch
<1> QED
  BY <1>6, <1>7

\* An insertion leaves the threads in the slot owing the old head, and waiting
\* to be counted: its balance is as before.
LEMMA InsertBatch ==
    ASSUME Grounds, NEW t \in Threads, Insert(t), NEW b \in Batches
    PROVE  BatchOK(b)'
<1>1. AnyCall(t) \/ AnyStep(t)
  BY DEF AnyStep, Step, AnyLoad, AnyEnd
<1>2. BatchOK(b)
  BY BatchInvariants DEF Grounds
<1>3. refs' = refs /\ list' = list /\ status' = status
  BY DEF Insert, client
<1>4. Open(b)' = Open(b)
  BY InsertOpen DEF Grounds
<1>5. CASE b # last[t].ptr
  <2>1. Uncounted(b)' = Uncounted(b)
    BY <1>5, InsertOpen DEF Grounds
  <2>2. Owers(b)' = Owers(b)
    BY <1>1, <1>5, OwersStep DEF Grounds
  <2>3. Balance(b)' = Balance(b)
    BY <1>4, <2>1, <2>2, BalanceIs
  <2> QED
    BY <1>2, <1>3, <1>4, <2>2, <2>3, SameBatch
<1>6. CASE b = last[t].ptr
  <2> DEFINE I == Inside(slot[t])
             J == {slot[t]} \X I
             X == Open(b)
             Y == Owers(b)
             Z == Uncounted(b)
  <2>1. Uncounted(b)' = Z \union J /\ Z \cap J = {}
    BY <1>6, InsertOpen DEF Grounds
  <2>2. Owers(b)' = Y \union I /\ Y \cap I = {}
    BY <1>1, <1>6, OwersStep DEF Grounds
  <2>3. slot[t] \in Slots /\ head[slot[t]].ptr = b /\ I \in SUBSET Threads
    BY <1>6, InsertNew DEF Grounds, Inside
  <2>4. Open(b) # {}
    BY <2>3 DEF Open
  <2>5. X \in SUBSET Slots /\ Y \in SUBSET Threads /\ IsFiniteSet(Z)
    BY BalanceIs
  <2>6. Balance(b) = Weight(X, Y, Z)
    BY BalanceIs
  <2>7. Balance(b)' = Weight(X, Y \union I, Z \union J)
    BY <1>4, <2>1, <2>2, BalanceIs
  <2>8. IsFiniteSet(J) /\ Cardinality(J) = Cardinality(I)
    BY <2>3, ColumnSize
  <2> HIDE DEF X, Y, Z, I, J
  <2>9. Weight(X, Y \union I, Z \union J) = Weight(X, Y, Z)
    BY <2>1, <2>2, <2>3, <2>5, <2>8, WeightTake
  <2>10. Balance(b)' = Balance(b)
    BY <2>6, <2>7, <2>9
  <2> QED
    BY <1>2, <1>3, <1>4, <2>4, <2>10, SameBatch
<1> QED
  BY <1>5, <1>6

\* A leaving thread gives its slot's share to the batch that was the head.
LEMMA LeaveAdjustBatch ==
    ASSUME Grounds, NEW t \in Threads, LeaveAdjust(t), NEW b \in Batches
    PROVE  BatchOK(b)'
<1>1. AnyCall(t) \/ AnyStep(t)
  BY DEF AnyStep, Step, AnyLoad, AnyEnd
<1>2. BatchOK(b)
  BY BatchInvariants DEF Grounds
<1>3. /\ pc[t] = "leaveAdjust" /\ AdjustRefs(t, last[t].ptr, Addend) /\ status' = status
      /\ last[t].ptr \in Batches /\ vec[t] \in Slots
  <2>1. pc[t] = "leaveAdjust" /\ AdjustRefs(t, last[t].ptr, Addend) /\ status' = status
    BY DEF LeaveAdjust, client
  <2> QED
    BY <2>1, RetiresBatch DEF Grounds, TypeOK
<1>4. Owers(b)' = Owers(b)
  <2>1. ~TravDrop(t) /\ ~Insert(t)
    BY <1>3 DEF TravDrop, Insert
  <2> QED
    BY <1>1, <2>1, OwersStep DEF Grounds
<1> DEFINE R == IF b = last[t].ptr THEN {vec[t]} ELSE {}
<1>5. Made(t, b, R) /\ Uncounted(b)' = Uncounted(b)
  BY LeaveAdjustOpen DEF Grounds
<1>6. R \in SUBSET Slots
  BY <1>3
<1>7. Open(b)' = Open(b) \ R /\ R \subseteq Open(b)
  BY <1>1, <1>5, <1>6, MadeOpen DEF Grounds
<1>8. CASE b = last[t].ptr
  <2>1. R = {vec[t]}
    BY <1>8
  <2>2. /\ Weight(Open(b) \ R, Owers(b), Uncounted(b))
             = Weight(Open(b), Owers(b), Uncounted(b)) + Share * Cardinality(R)
        /\ R # {} => Slots \ (Open(b) \ R) # {}
    BY <1>7, BalanceIs, WeightSettle
  <2>3. Cardinality(R) = 1
    BY <2>1, FS_Singleton
  <2>4. Balance(b)' = Balance(b) + Share
    <3>1. Balance(b)' = Weight(Open(b) \ R, Owers(b), Uncounted(b))
      BY <1>4, <1>5, <1>7, BalanceIs
    <3>2. Balance(b) = Weight(Open(b), Owers(b), Uncounted(b))
      BY BalanceIs
    <3>3. Share * Cardinality(R) = Share
      BY <2>3, Constants
    <3> HIDE DEF R
    <3> QED
      BY <2>2, <3>1, <3>2, <3>3
  <2>5. Settled(b)' # {}
    BY <1>7, <2>1, <2>2 DEF Settled
  <2>6. Addend \in Word /\ Share \in Int /\ Addend - Share \in {0 - Mod, 0, Mod}
    BY Constants
  <2>7. Open(b) # {}
    BY <1>7, <2>1
  <2>8. AdjustRefs(t, b, Addend)
    BY <1>3, <1>8
  <2>9. TypeOK /\ OweInv /\ OweInv'
    BY DEF Grounds
  <2> QED
    BY <1>2, <1>3, <2>4, <2>5, <2>6, <2>7, <2>8, <2>9, Recount
<1>9. CASE b # last[t].ptr
  <2>1. Open(b)' = Open(b)
    BY <1>7, <1>9
  <2>2. Balance(b)' = Balance(b)
    BY <1>4, <1>5, <2>1, BalanceIs
  <2>3. refs'[b] = refs[b] /\ \A u \in Threads : b \in list'[u] <=> b \in list[u]
    BY <1>3, <1>9, OtherBatch DEF Grounds
  <2> QED
    BY <1>2, <1>3, <1>4, <2>1, <2>2, <2>3, SameBatch
<1> QED
  BY <1>8, <1>9

\* Retire adds for a batch that was passed by the shares of those slots.
LEMMA RetireFinishBatch ==
    ASSUME Grounds, NEW t \in Threads, RetireFinish(t), NEW b \in Batches
    PROVE  BatchOK(b)'
<1>1. AnyCall(t) \/ AnyStep(t)
  BY DEF AnyStep, Step, AnyLoad, AnyEnd
<1>2. BatchOK(b)
  BY BatchInvariants DEF Grounds
<1>3. /\ pc[t] = "retireFinish" /\ AdjustRefs(t, batch[t], adjs[t]) /\ status' = status
      /\ batch[t] \in Batches /\ skipped[t] \in SUBSET Slots
  <2>1. pc[t] = "retireFinish" /\ AdjustRefs(t, batch[t], adjs[t]) /\ status' = status
    BY DEF RetireFinish, client
  <2> QED
    BY <2>1, RetiresBatch DEF Grounds, TypeOK, RetireLabels
<1>4. Owers(b)' = Owers(b)
  <2>1. ~TravDrop(t) /\ ~Insert(t)
    BY <1>3 DEF TravDrop, Insert
  <2> QED
    BY <1>1, <2>1, OwersStep DEF Grounds
<1> DEFINE R == IF b = batch[t] THEN skipped[t] ELSE {}
<1>5. Made(t, b, R) /\ Uncounted(b)' = Uncounted(b)
  BY RetireFinishOpen DEF Grounds
<1>6. R \in SUBSET Slots
  BY <1>3
<1>7. Open(b)' = Open(b) \ R /\ R \subseteq Open(b)
  BY <1>1, <1>5, <1>6, MadeOpen DEF Grounds
<1>8. CASE b = batch[t]
  <2> DEFINE n == Cardinality(skipped[t])
             d == Share * n
  <2>1. R = skipped[t] /\ R # {}
    BY <1>3, <1>8 DEF Grounds, ThreadInv, ThreadOK, RetireOK
  <2>2. adjs[t] = IF n = NumSlots THEN 0 ELSE d
    BY DEF Grounds, ThreadInv, ThreadOK, RetireOK
  <2>3. /\ Weight(Open(b) \ R, Owers(b), Uncounted(b))
             = Weight(Open(b), Owers(b), Uncounted(b)) + Share * Cardinality(R)
        /\ R # {} => Slots \ (Open(b) \ R) # {}
        /\ Cardinality(R) \in 0 .. NumSlots
    BY <1>7, BalanceIs, WeightSettle
  <2>4. n = Cardinality(R)
    BY <1>8
  <2>5. n \in Nat /\ d \in Int /\ (n = NumSlots => d = Mod)
    BY <2>3, <2>4, Constants
  <2>6. Balance(b)' = Balance(b) + d
    <3>1. Balance(b)' = Weight(Open(b) \ R, Owers(b), Uncounted(b))
      BY <1>4, <1>5, <1>7, BalanceIs
    <3>2. Balance(b) = Weight(Open(b), Owers(b), Uncounted(b))
      BY BalanceIs
    <3> HIDE DEF R
    <3> QED
      BY <2>3, <2>4, <3>1, <3>2
  <2>7. Settled(b)' # {}
    BY <1>7, <2>1, <2>3 DEF Settled
  <2>8. adjs[t] \in Word /\ adjs[t] - d \in {0 - Mod, 0, Mod}
    <3>1. adjs[t] \in Word
      BY DEF Grounds, TypeOK
    <3> HIDE DEF d, n
    <3> QED
      BY <2>2, <2>5, <3>1, Constants
  <2>9. Open(b) # {}
    BY <1>7, <2>1
  <2>10. AdjustRefs(t, b, adjs[t])
    BY <1>3, <1>8
  <2>11. TypeOK /\ OweInv /\ OweInv'
    BY DEF Grounds
  <2> HIDE DEF d, n
  <2> QED
    BY <1>2, <1>3, <2>5, <2>6, <2>7, <2>8, <2>9, <2>10, <2>11, Recount
<1>9. CASE b # batch[t]
  <2>1. Open(b)' = Open(b)
    BY <1>7, <1>9
  <2>2. Balance(b)' = Balance(b)
    BY <1>4, <1>5, <2>1, BalanceIs
  <2>3. refs'[b] = refs[b] /\ \A u \in Threads : b \in list'[u] <=> b \in list[u]
    BY <1>3, <1>9, OtherBatch DEF Grounds
  <2> QED
    BY <1>2, <1>3, <1>4, <2>1, <2>2, <2>3, SameBatch
<1> QED
  BY <1>8, <1>9

\* The share of a slot and the count of the threads that were in it, together.
LEMMA ShareAndCount ==
    ASSUME NEW k \in 0 .. Cardinality(Threads)
    PROVE  /\ AddW(Addend, k) \in Word
           /\ AddW(Addend, k) - (Share + k) \in {0 - Mod, 0, Mod}
<1>1. k \in Nat /\ k < Share
  BY Constants
<1>2. CASE NumSlots = 1
  <2>1. Addend = 0 /\ Share = Mod
    BY <1>2, Constants
  <2> QED
    BY <1>1, <2>1, Constants DEF AddW, Word
<1>3. CASE NumSlots # 1
  <2>1. Addend = Share /\ Share + Share <= Mod
    <3>1. 2 <= NumSlots /\ NumSlots \in Nat
      BY <1>3, Constants
    <3>2. 2 * Share <= NumSlots * Share
      BY <3>1, Constants
    <3> QED
      BY <1>3, <3>2, Constants
  <2> QED
    BY <1>1, <2>1, Constants DEF AddW, Word
<1> QED
  BY <1>2, <1>3

\* Retire gives the slot's share, and the threads that were in it, to the
\* batch that was the head.
LEMMA RetireAdjustBatch ==
    ASSUME Grounds, NEW t \in Threads, RetireAdjust(t), NEW b \in Batches
    PROVE  BatchOK(b)'
<1>1. AnyCall(t) \/ AnyStep(t)
  BY DEF AnyStep, Step, AnyLoad, AnyEnd
<1>2. BatchOK(b)
  BY BatchInvariants DEF Grounds
<1> DEFINE k == Cardinality(covers[t])
           v == AddW(Addend, k)
<1>3. /\ pc[t] = "retireAdjust" /\ AdjustRefs(t, last[t].ptr, v) /\ status' = status
      /\ last[t].ptr \in Batches /\ slot[t] \in Slots /\ covers[t] \in SUBSET Threads
  <2>1. /\ pc[t] = "retireAdjust" /\ status' = status
        /\ AdjustRefs(t, last[t].ptr, AddW(Addend, last[t].refs))
    BY DEF RetireAdjust, client
  <2>2. last[t].refs = k
    BY <2>1 DEF Grounds, ThreadInv, ThreadOK, RetireOK
  <2> QED
    BY <2>1, <2>2, RetiresBatch DEF Grounds, TypeOK
<1>4. Owers(b)' = Owers(b)
  <2>1. ~TravDrop(t) /\ ~Insert(t)
    BY <1>3 DEF TravDrop, Insert
  <2> QED
    BY <1>1, <2>1, OwersStep DEF Grounds
<1> DEFINE R == IF b = last[t].ptr THEN {slot[t]} ELSE {}
           W == {slot[t]} \X covers[t]
<1>5. /\ Made(t, b, R)
      /\ b # last[t].ptr => Uncounted(b)' = Uncounted(b)
      /\ b = last[t].ptr => Uncounted(b)' = Uncounted(b) \ W /\ W \subseteq Uncounted(b)
  BY RetireAdjustOpen DEF Grounds
<1>6. R \in SUBSET Slots
  BY <1>3
<1>7. Open(b)' = Open(b) \ R /\ R \subseteq Open(b)
  BY <1>1, <1>5, <1>6, MadeOpen DEF Grounds
<1>8. CASE b = last[t].ptr
  <2>1. R = {slot[t]}
    BY <1>8
  <2>2. /\ Weight(Open(b) \ R, Owers(b), Uncounted(b))
             = Weight(Open(b), Owers(b), Uncounted(b)) + Share * Cardinality(R)
        /\ R # {} => Slots \ (Open(b) \ R) # {}
    BY <1>7, BalanceIs, WeightSettle
  <2>3. Cardinality(R) = 1
    BY <2>1, FS_Singleton
  <2>4. k \in 0 .. Cardinality(Threads) /\ Cardinality(W) = k
    BY <1>3, ColumnSize
  <2>5. Weight(Open(b) \ R, Owers(b), Uncounted(b) \ W)
          = Weight(Open(b) \ R, Owers(b), Uncounted(b)) + Cardinality(W)
    <3>1. Open(b) \ R \in SUBSET Slots /\ W \in SUBSET Uncounted(b)
      BY <1>5, <1>8, BalanceIs
    <3> HIDE DEF R, W
    <3> QED
      BY <3>1, BalanceIs, WeightCount
  <2>6. Balance(b)' = Balance(b) + (Share + k) /\ Share + k \in Int
    <3>1. Balance(b)' = Weight(Open(b) \ R, Owers(b), Uncounted(b) \ W)
      BY <1>4, <1>5, <1>7, <1>8, BalanceIs
    <3>2. Balance(b) = Weight(Open(b), Owers(b), Uncounted(b))
      BY BalanceIs
    <3>3. Balance(b) \in Int
      BY BalanceTells DEF Grounds, Tells
    <3> HIDE DEF R, W, k
    <3>4. Share * Cardinality(R) = Share /\ Share \in Int /\ k \in Int
      BY <2>3, <2>4, Constants
    <3> QED
      BY <2>2, <2>4, <2>5, <3>1, <3>2, <3>3, <3>4
  <2>7. Settled(b)' # {}
    BY <1>7, <2>1, <2>2 DEF Settled
  <2>8. Open(b) # {}
    BY <1>7, <2>1
  <2>9. v \in Word /\ v - (Share + k) \in {0 - Mod, 0, Mod}
    BY <2>4, ShareAndCount
  <2>10. AdjustRefs(t, b, v)
    BY <1>3, <1>8
  <2>11. TypeOK /\ OweInv /\ OweInv'
    BY DEF Grounds
  <2> HIDE DEF k, v
  <2> QED
    BY <1>2, <1>3, <2>6, <2>7, <2>8, <2>9, <2>10, <2>11, Recount
<1>9. CASE b # last[t].ptr
  <2>1. Open(b)' = Open(b)
    BY <1>7, <1>9
  <2>2. Balance(b)' = Balance(b)
    BY <1>4, <1>5, <1>9, <2>1, BalanceIs
  <2>3. refs'[b] = refs[b] /\ \A u \in Threads : b \in list'[u] <=> b \in list[u]
    BY <1>3, <1>9, OtherBatch DEF Grounds
  <2> QED
    BY <1>2, <1>3, <1>4, <2>1, <2>2, <2>3, SameBatch
<1> QED
  BY <1>8, <1>9

\* A traversing thread gives back its reference.  It cannot take the counter
\* of a batch to 0 before a slot has counted it.
LEMMA TravDropBatch ==
    ASSUME Grounds, NEW t \in Threads, TravDrop(t), NEW b \in Batches
    PROVE  BatchOK(b)'
<1>1. AnyCall(t) \/ AnyStep(t)
  BY DEF AnyStep, Step, AnyLoad, AnyEnd
<1>2. BatchOK(b)
  BY BatchInvariants DEF Grounds
<1> DEFINE c == walk[t].curr
<1>3. AdjustRefs(t, c, MinusOne) /\ status' = status
  BY DEF TravDrop, client
<1>4. /\ c \in Batches /\ t \in Owers(c)
      /\ Owers(b)' = IF b = c THEN Owers(b) \ {t} ELSE Owers(b)
  BY <1>1, OwersStep DEF Grounds
<1>5. Open(b)' = Open(b) /\ Uncounted(b)' = Uncounted(b)
  BY <1>1, QuietOpen, SameOpenIsOpen DEF Grounds, Quiet
<1>6. CASE b = c
  <2> DEFINE X == Open(b)
             Y == Owers(b)
             Z == Uncounted(b)
  <2>1. /\ X \in SUBSET Slots /\ Y \in SUBSET Threads /\ t \in Y
        /\ Cardinality(Z) \in Int /\ Z \in SUBSET (Slots \X Threads)
    BY <1>4, <1>6, BalanceIs
  <2>2. Balance(b) = Weight(X, Y, Z) /\ Balance(b)' = Weight(X, Y \ {t}, Z)
    BY <1>4, <1>5, <1>6, BalanceIs
  <2>3. Slots \ X = {} => \A u \in Y : \E e \in Z : e[2] = u
    BY DEF Grounds, OweInv, Owers, Settled
  <2>4. Balance(b) \in Int
    BY BalanceTells DEF Grounds, Tells
  <2>5. Owers(b)' = Y \ {t} /\ Uncounted(b)' = Z /\ Settled(b)' = Slots \ X
    BY <1>4, <1>5, <1>6 DEF Settled
  <2>6. Owers(b) # {}
    BY <2>1
  <2> HIDE DEF X, Y, Z
  <2>7. /\ Weight(X, Y \ {t}, Z) = Weight(X, Y, Z) - 1
        /\ Cardinality(Y \ {t}) < Cardinality(Y)
        /\ Cardinality(Y) \in Nat /\ Cardinality(Y \ {t}) \in Nat
    <3>1. IsFiniteSet(Y) /\ {t} \subseteq Y /\ IsFiniteSet(Y \ {t})
      BY <2>1, FS_Subset, Constants
    <3> QED
      BY <2>1, <3>1, WeightDrop, FS_CardinalityType
  <2>8. Balance(b)' = Balance(b) + (0 - 1)
    BY <2>2, <2>4, <2>7
  <2>9. ~(Slots \ X = {} /\ Cardinality(Y \ {t}) = Cardinality(Z))
    <3>1. Slots \ X = {} => Cardinality(Y) <= Cardinality(Z)
      BY <2>1, <2>3, Injected
    <3> QED
      BY <2>1, <2>7, <3>1
  <2>10. ~(Settled(b) = {} /\ Cardinality(Owers(b)) = Cardinality(Uncounted(b)))'
    BY <2>5, <2>9
  <2>11. MinusOne \in Word /\ 0 - 1 \in Int /\ MinusOne - (0 - 1) \in {0 - Mod, 0, Mod}
    BY Constants DEF MinusOne
  <2>12. AdjustRefs(t, b, MinusOne)
    BY <1>3, <1>6
  <2>13. TypeOK /\ OweInv /\ OweInv'
    BY DEF Grounds
  <2> QED
    BY <1>2, <1>3, <2>6, <2>8, <2>10, <2>11, <2>12, <2>13, Recount
<1>7. CASE b # c
  <2>1. Owers(b)' = Owers(b)
    BY <1>4, <1>7
  <2>2. Balance(b)' = Balance(b)
    BY <1>5, <2>1, BalanceIs
  <2>3. refs'[b] = refs[b] /\ \A u \in Threads : b \in list'[u] <=> b \in list[u]
    BY <1>3, <1>4, <1>7, OtherBatch DEF Grounds
  <2> QED
    BY <1>2, <1>3, <1>5, <2>1, <2>2, <2>3, SameBatch
<1> QED
  BY <1>6, <1>7

\* The allocator takes up a freed batch, which has nothing to come.
LEMMA AllocBatch ==
    ASSUME Grounds, NEW c \in Batches, Alloc(c), NEW b \in Batches
    PROVE  BatchOK(b)'
<1>1. BatchOK(b)
  BY BatchInvariants DEF Grounds
<1>2. /\ Open(b)' = Open(b) /\ Owers(b)' = Owers(b) /\ Uncounted(b)' = Uncounted(b)
      /\ refs' = refs /\ list' = list
  BY NoStepOpen
<1>3. Balance(b)' = Balance(b)
  BY <1>2, BalanceIs
<1>4. status[c] = "freed" /\ status' = [status EXCEPT ![c] = "live"]
  BY DEF Alloc
<1>5. CASE b = c
  <2>1. status[b] = "freed" /\ status'[b] = "live" /\ (Listed(b)' <=> Listed(b))
    BY <1>2, <1>4, <1>5 DEF Grounds, TypeOK, Listed
  <2> QED
    BY <1>1, <1>2, <2>1 DEF BatchOK
<1>6. CASE b # c
  <2>1. status'[b] = status[b]
    BY <1>4, <1>6 DEF Grounds, TypeOK
  <2> QED
    BY <1>1, <1>2, <1>3, <2>1, SameBatch
<1> QED
  BY <1>5, <1>6

\* The counters are right after every step.
LEMMA BatchStep ==
    ASSUME Grounds, NEW t \in Threads, AnyCall(t) \/ AnyStep(t)
    PROVE  RefsInv' /\ RefsAccountedFor'
<1>1. SUFFICES ASSUME NEW b \in Batches PROVE BatchOK(b)'
  BY BatchInvariantsNext
<1>2. CASE Quiet(t)
  <2>1. CASE TravDrop(t)
    BY <2>1, TravDropBatch
  <2>2. CASE \E c \in Batches : Free(t, c)
    BY <2>2, FreeBatch
  <2> QED
    BY <1>2, <2>1, <2>2, IdleBatch
<1>3. CASE Looks(t) \/ Clears(t)
  <2>1. ~TravDrop(t)
    BY <1>3 DEF Looks, AnyLoad, RetireLoad, PassByEpoch, InsertFails, RetireNext,
       Clears, LeaveCas, LeaveClear, TravDrop
  <2>2. \A c \in Batches : ~Free(t, c)
    BY <1>3 DEF Looks, AnyLoad, RetireLoad, PassByEpoch, InsertFails, RetireNext,
       Clears, LeaveCas, LeaveClear, Free
  <2> QED
    BY <1>3, <2>1, <2>2, IdleBatch
<1>4. CASE LeaveAdjust(t) \/ RetireAdjust(t) \/ RetireFinish(t) \/ Insert(t)
  BY <1>4, LeaveAdjustBatch, RetireAdjustBatch, RetireFinishBatch, InsertBatch
<1>5. CASE \E c \in Batches : AnyRetire(t, c)
  BY <1>5, RetireBatch
<1> QED
  BY <1>2, <1>3, <1>4, <1>5, StepKinds

\* The allocation of a batch keeps the counters accounted for.
LEMMA AllocCounts ==
    ASSUME Grounds, NEW c \in Batches, Alloc(c)
    PROVE  RefsInv' /\ RefsAccountedFor'
BY AllocBatch, BatchInvariantsNext

-----------------------------------------------------------------------------
(* The count in a slot's head.                                             *)

\* What SlotsAgree says of one slot.
SlotOK(s) ==
    /\ head[s].refs = Cardinality(Inside(s))
    /\ head[s].refs = 0 /\ head[s].ptr # NULL =>
         \E u \in Threads : /\ pc[u] = "leaveClear" /\ vec[u] = s
                            /\ last[u].ptr = head[s].ptr

\* A thread keeps its place in the slots.
InPlace(u) == (In(u)' <=> In(u)) /\ (In(u) => vec'[u] = vec[u])

\* A step leaves the other threads where they are.
LEMMA OthersInPlace ==
    ASSUME TypeOK, NEW t \in Threads, AnyCall(t) \/ AnyStep(t), NEW u \in Threads, u # t
    PROVE  InPlace(u) /\ pc'[u] = pc[u] /\ vec'[u] = vec[u] /\ last'[u] = last[u]
BY KeptByOthers DEF Kept, InPlace, In

\* When all stay in place, so do the threads inside a slot.
LEMMA SameInside ==
    ASSUME \A u \in Threads : InPlace(u), NEW s
    PROVE  Inside(s)' = Inside(s)
BY DEF InPlace, Inside

\* A slot whose head and threads are as before.
LEMMA SlotFrame ==
    ASSUME TypeOK, NEW t \in Threads, AnyCall(t) \/ AnyStep(t), NEW s \in Slots, SlotOK(s),
           head'[s] = head[s], Inside(s)' = Inside(s),
           ~(pc[t] = "leaveClear" /\ vec[t] = s /\ head[s] = [refs |-> 0, ptr |-> last[t].ptr])
    PROVE  SlotOK(s)'
<1>1. head[s].refs = 0 /\ head[s].ptr # NULL =>
        \E u \in Threads : /\ u # t /\ pc[u] = "leaveClear" /\ vec[u] = s
                           /\ last[u].ptr = head[s].ptr
  <2>1. head[s] = [refs |-> head[s].refs, ptr |-> head[s].ptr]
    BY DEF TypeOK, HeadWord
  <2> QED
    BY <2>1 DEF SlotOK
<1>2. head[s].refs = 0 /\ head[s].ptr # NULL =>
        \E u \in Threads : /\ pc'[u] = "leaveClear" /\ vec'[u] = s
                           /\ last'[u].ptr = head[s].ptr
  BY <1>1, OthersInPlace
<1> QED
  BY <1>2 DEF SlotOK

\* The steps that change neither a head nor who is in a slot.
Indoors(t) ==
    \/ Leave(t) \/ NestedLeave(t) \/ LeaveRead(t) \/ LeaveCasFails(t)
    \/ LeaveClearFails(t) \/ LeaveAdjust(t) \/ TravRead(t) \/ TravDrop(t)
    \/ Trim(t) \/ TrimRead(t) \/ AnyEnd(t)
    \/ AnyLoad(t) \/ InsertFails(t) \/ RetireAdjust(t) \/ RetireNext(t)
    \/ RetireFinish(t)
    \/ \E b \in Batches : AnyRetire(t, b) \/ Free(t, b)

\* The steps that move a thread in or out, or change a head.
LEMMA PlaceKinds ==
    ASSUME NEW t \in Threads, AnyCall(t) \/ AnyStep(t)
    PROVE  \/ Indoors(t) \/ (\E s \in Slots : Enter(t, s)) \/ Reenter(t)
           \/ LeaveCas(t) \/ LeaveClear(t) \/ Insert(t)
BY DEF AnyCall, Call, AnyRetire, AnyStep, Step, AnyLoad, AnyEnd, Indoors

\* The other steps leave the heads and the threads in place.
LEMMA IndoorsPlaces ==
    ASSUME TypeOK, ThreadInv, NEW t \in Threads, Indoors(t)
    PROVE  /\ head' = head /\ InPlace(t)
           /\ pc[t] = "leaveClear" => LeaveClearFails(t)
<1> USE DEF Goto, shared, client, callerLocals, InPlace, In
<1>0. ControlOK(t) /\ t \in Threads
  BY DEF ThreadInv, ThreadOK
<1>1. CASE Leave(t) \/ NestedLeave(t)
  <2>1. LeaveBegin(t) /\ t \in active
    BY <1>0, <1>1 DEF Leave, NestedLeave, ControlOK
  <2>2. pc'[t] \in {"leaveRead", "leaveCas"} /\ vec' = vec /\ head' = head
    BY <2>1 DEF LeaveBegin, LoadedHead, TypeOK
  <2> QED
    BY <1>1, <2>1, <2>2 DEF Leave, NestedLeave
<1>2. CASE LeaveRead(t) \/ LeaveCasFails(t)
  <2>1. /\ pc[t] \in {"leaveRead", "leaveCas"} /\ pc'[t] \in {"leaveRead", "leaveCas"}
        /\ vec' = vec /\ head' = head
    BY <1>2 DEF LeaveRead, LeaveCasFails, LoadedHead, TypeOK
  <2> QED
    BY <2>1
<1>3. CASE LeaveClearFails(t) \/ LeaveAdjust(t)
  <2>1. /\ pc[t] \in {"leaveClear", "leaveAdjust"} /\ pc'[t] \in {"travRead", "free"}
        /\ vec' = vec /\ head' = head /\ active' = active
    BY <1>3 DEF LeaveClearFails, LeaveAdjust, LeaveTraverse, Return, TypeOK
  <2>2. pc[t] = "leaveClear" => LeaveClearFails(t)
    BY <1>3 DEF LeaveAdjust
  <2> QED
    BY <2>1, <2>2
<1>4. CASE TravRead(t) \/ TravDrop(t)
  <2>1. /\ pc[t] \in {"travRead", "travDrop"}
        /\ pc'[t] \in {"travRead", "travDrop", "free", "leaveLoad"}
        /\ vec' = vec /\ head' = head /\ active' = active
    BY <1>4 DEF TravRead, TravDrop, Return, TypeOK
  <2> QED
    BY <2>1
<1>5. CASE Trim(t) \/ TrimRead(t)
  <2>1. /\ pc[t] \in {"idle", "trimRead"} /\ pc'[t] \in {"idle", "trimRead", "travRead"}
        /\ vec' = vec /\ head' = head /\ active' = active
    BY <1>5 DEF Trim, TrimNothing, TrimBegin, TrimRead, TypeOK
  <2> QED
    BY <2>1
<1>6. CASE AnyEnd(t)
  <2>1. /\ pc[t] = "free" /\ pc'[t] \in {"idle", "reenter"}
        /\ head' = head /\ active' = active /\ (t \in active => vec'[t] = vec[t])
    <3>1. CASE EndCall(t)
      BY <3>1 DEF EndCall, TypeOK
    <3>2. CASE EndFlushed(t)
      BY <1>0, <3>2 DEF EndFlushed, TypeOK, ControlOK
    <3> QED
      BY <1>6, <3>1, <3>2 DEF AnyEnd
  <2> QED
    BY <2>1
<1>7. CASE AnyLoad(t) \/ InsertFails(t)
  <2>1. /\ pc[t] \in {"retireLoad", "retireCas"} /\ (\E w \in HeadWord : TrySlot(t, w))
        /\ vec' = vec /\ head' = head /\ active' = active
    BY <1>7, LoadTries
  <2>2. pc'[t] \in {"retireLoad", "retireCas", "retireFinish"}
    BY <2>1 DEF TrySlot, PassBy, NextSlot, TypeOK
  <2> QED
    BY <2>1, <2>2
<1>8. CASE RetireAdjust(t) \/ RetireNext(t) \/ RetireFinish(t)
  <2>1. /\ pc[t] \in {"retireAdjust", "retireNext", "retireFinish"}
        /\ pc'[t] \in {"retireNext", "retireLoad", "retireFinish", "free"}
        /\ vec' = vec /\ head' = head /\ active' = active
    BY <1>8 DEF RetireAdjust, RetireNext, RetireFinish, NextSlot, TypeOK
  <2> QED
    BY <2>1
<1>9. CASE \E b \in Batches : AnyRetire(t, b) \/ Free(t, b)
  <2>1. /\ pc[t] \in {"idle", "free"} /\ pc'[t] \in {"retireLoad", "free"}
        /\ vec' = vec /\ head' = head /\ active' = active
    BY <1>9 DEF AnyRetire, Retire, RetireUnseen, Free, TypeOK
  <2> QED
    BY <2>1
<1> QED
  BY <1>1, <1>2, <1>3, <1>4, <1>5, <1>6, <1>7, <1>8, <1>9 DEF Indoors

\* A thread that enters a slot is counted there, and nowhere else.
LEMMA EnterSlots ==
    ASSUME TypeOK, ThreadInv, SlotsAgree, NEW t \in Threads,
           (\E s \in Slots : Enter(t, s)) \/ Reenter(t), NEW s \in Slots
    PROVE  SlotOK(s)'
<1>1. AnyCall(t) \/ AnyStep(t)
  BY DEF AnyCall, Call, AnyRetire, AnyStep, Step, AnyLoad, AnyEnd
<1>2. PICK r \in Slots : EnterSlot(t, r)
  BY DEF Enter, Reenter, TypeOK
<1>3. pc[t] \in {"idle", "reenter"} /\ pc'[t] = "idle" /\ t \notin active
  BY DEF Enter, Reenter, Goto, TypeOK, ThreadInv, ThreadOK, ControlOK
<1>4. /\ head'[r] = [refs |-> AddW(head[r].refs, 1), ptr |-> head[r].ptr]
      /\ \A q \in Slots : q # r => head'[q] = head[q]
      /\ vec'[t] = r /\ t \in active'
  BY <1>2 DEF EnterSlot, TypeOK
<1>5. ~In(t) /\ In(t)'
  BY <1>3, <1>4 DEF In
<1>6. \A u \in Threads : u # t => (u \in Inside(s)' <=> u \in Inside(s))
  BY <1>1, OthersInPlace DEF InPlace, Inside
<1>7. SlotOK(s)
  BY DEF SlotsAgree, SlotOK
<1>8. CASE s = r
  <2>1. Inside(s)' = Inside(s) \union {t} /\ t \notin Inside(s)
    BY <1>4, <1>5, <1>6, <1>8 DEF Inside
  <2>2. /\ IsFiniteSet(Inside(s)) /\ head[s].refs \in Nat
        /\ head[s].refs <= Cardinality(Threads) /\ head[s].refs = Cardinality(Inside(s))
    BY InsideCount
  <2> DEFINE I == Inside(s)
             J == Inside(s)'
             K == I \union {t}
  <2>3. Cardinality(K) = Cardinality(I) + 1
    BY <2>1, <2>2, FS_AddElement
  <2>4. Cardinality(J) = Cardinality(K)
    BY <2>1, Zenon
  <2>5. head'[s].refs = head[s].refs + 1
    <3> DEFINE n == head[s].refs
               N == Cardinality(Threads)
    <3>1. K \subseteq Threads
      BY <2>1 DEF Inside
    <3>2. Cardinality(K) <= Cardinality(Threads)
      BY <3>1, Constants, FS_Subset
    <3> HIDE DEF I, J, K
    <3>3. n + 1 <= N
      BY <2>2, <2>3, <3>2, Constants DEF I
    <3>4. n \in Nat /\ N \in Nat /\ N < Mod /\ Mod \in Nat
      BY <2>2, Constants
    <3>5. head'[s].refs = AddW(n, 1)
      BY <1>4, <1>8
    <3> HIDE DEF n, N
    <3> QED
      BY <3>3, <3>4, <3>5 DEF AddW, n
  <2> HIDE DEF I, J, K
  <2>6. head'[s].refs = Cardinality(J) /\ head'[s].refs # 0
    BY <2>2, <2>3, <2>4, <2>5 DEF I
  <2> QED
    BY <2>6 DEF SlotOK, J
<1>9. CASE s # r
  <2>1. Inside(s)' = Inside(s)
    BY <1>4, <1>5, <1>6, <1>9 DEF Inside
  <2> QED
    BY <1>1, <1>3, <1>4, <1>7, <1>9, <2>1, SlotFrame
<1> QED
  BY <1>8, <1>9

\* A thread that leaves a slot is not counted there any more; the last one out
\* takes the list along, or is about to clear it away.
LEMMA LeaveSlots ==
    ASSUME TypeOK, ThreadInv, SlotsAgree, NEW t \in Threads, LeaveCas(t), NEW s \in Slots
    PROVE  SlotOK(s)'
<1>1. AnyCall(t) \/ AnyStep(t)
  BY DEF AnyStep, Step, AnyLoad, AnyEnd
<1> DEFINE r == vec[t]
           w == last[t]
<1>2. /\ pc[t] = "leaveCas" /\ head[r] = w /\ r \in Slots
      /\ head'[r] = HeadAfterLeave(w)
      /\ \A q \in Slots : q # r => head'[q] = head[q]
      /\ pc'[t] \in {"leaveClear", "leaveAdjust", "travRead", "free"}
      /\ active' = active /\ vec' = vec
      /\ ~CmpxchgFull /\ LastOut(w) => pc'[t] = "leaveClear" /\ last' = last
  BY DEF LeaveCas, LeaveTraverse, Return, Goto, TypeOK, client, callerLocals
<1>3. ControlOK(t)
  BY DEF ThreadInv, ThreadOK
<1>4. t \notin active /\ In(t) /\ ~In(t)'
  BY <1>2, <1>3 DEF In, ControlOK, LeaveLabels
<1>5. \A u \in Threads : u # t => (u \in Inside(s)' <=> u \in Inside(s))
  BY <1>1, OthersInPlace DEF InPlace, Inside
<1>6. SlotOK(s)
  BY DEF SlotsAgree, SlotOK
<1>7. CASE s = r
  <2>1. Inside(s)' = Inside(s) \ {t} /\ t \in Inside(s)
    BY <1>4, <1>5, <1>7 DEF Inside
  <2>2. /\ IsFiniteSet(Inside(s)) /\ head[s].refs \in Nat
        /\ head[s].refs <= Cardinality(Threads) /\ head[s].refs = Cardinality(Inside(s))
        /\ head[s].refs = 0 <=> Inside(s) = {}
    BY InsideCount
  <2> DEFINE I == Inside(s)
             J == Inside(s)'
             K == I \ {t}
  <2>3. Cardinality(K) = Cardinality(I) - 1
    BY <2>1, <2>2, FS_RemoveElement
  <2>4. Cardinality(J) = Cardinality(K)
    BY <2>1, Zenon
  <2>5. head'[s].refs = head[s].refs - 1
    <3>1. head[s].refs > 0 /\ head[s].refs < Mod
      BY <2>1, <2>2, Constants
    <3>2. AddW(head[s].refs, MinusOne) = head[s].refs - 1
      BY <2>2, <3>1, Constants DEF AddW, MinusOne
    <3>3. w.refs = head[s].refs
      BY <1>2, <1>7
    <3> QED
      BY <1>2, <1>7, <2>2, <3>2, <3>3 DEF HeadAfterLeave, Empty
  <2> HIDE DEF I, J, K
  <2>6. head'[s].refs = Cardinality(J)
    BY <2>2, <2>3, <2>4, <2>5 DEF I
  <2>7. ASSUME head'[s].refs = 0, head'[s].ptr # NULL
        PROVE  pc'[t] = "leaveClear" /\ vec'[t] = s /\ last'[t].ptr = head'[s].ptr
    <3>1. w.refs = 1
      BY <1>2, <1>7, <2>2, <2>5, <2>7
    <3>2. ~CmpxchgFull /\ head'[s].ptr = w.ptr
      BY <1>2, <1>7, <2>7, <3>1 DEF HeadAfterLeave, Empty
    <3>3. LastOut(w)
      BY <2>7, <3>1, <3>2 DEF LastOut
    <3> QED
      BY <1>2, <1>7, <3>2, <3>3
  <2> QED
    BY <2>6, <2>7 DEF SlotOK, J
<1>8. CASE s # r
  <2>1. Inside(s)' = Inside(s)
    BY <1>2, <1>4, <1>5, <1>8 DEF Inside
  <2> QED
    BY <1>1, <1>2, <1>6, <1>8, <2>1, SlotFrame
<1> QED
  BY <1>7, <1>8

\* Every step of a thread keeps the counts of the slots.
LEMMA SlotsStep ==
    ASSUME TypeOK, ThreadInv, SlotsAgree, KeepInv, OweInv, NEW t \in Threads,
           AnyCall(t) \/ AnyStep(t)
    PROVE  SlotsAgree'
<1>1. SUFFICES ASSUME NEW s \in Slots PROVE SlotOK(s)'
  BY DEF SlotsAgree, SlotOK
<1>2. SlotOK(s)
  BY DEF SlotsAgree, SlotOK
<1>3. CASE Indoors(t)
  <2>1. head' = head /\ InPlace(t) /\ (pc[t] = "leaveClear" => LeaveClearFails(t))
    BY <1>3, IndoorsPlaces
  <2>2. \A u \in Threads : InPlace(u)
    BY <2>1, OthersInPlace
  <2>3. Inside(s)' = Inside(s)
    BY <2>2, SameInside
  <2>4. ~(pc[t] = "leaveClear" /\ vec[t] = s /\ head[s] = [refs |-> 0, ptr |-> last[t].ptr])
    BY <2>1 DEF LeaveClearFails
  <2> QED
    BY <1>2, <2>1, <2>3, <2>4, SlotFrame
<1>4. CASE LeaveClear(t)
  <2>1. /\ pc[t] = "leaveClear" /\ pc'[t] = "leaveAdjust" /\ vec' = vec
        /\ active' = active /\ vec[t] \in Slots
        /\ head[vec[t]] = [refs |-> 0, ptr |-> last[t].ptr]
        /\ head'[vec[t]] = Empty /\ \A q \in Slots : q # vec[t] => head'[q] = head[q]
    BY <1>4 DEF LeaveClear, Goto, TypeOK, client, callerLocals
  <2>2. \A u \in Threads : InPlace(u)
    BY <2>1, OthersInPlace DEF InPlace, In
  <2>3. Inside(s)' = Inside(s)
    BY <2>2, SameInside
  <2>4. CASE s = vec[t]
    BY <1>2, <2>1, <2>3, <2>4 DEF SlotOK, Empty
  <2>5. CASE s # vec[t]
    BY <1>2, <2>1, <2>3, <2>5, SlotFrame
  <2> QED
    BY <2>4, <2>5
<1>5. CASE Insert(t)
  <2>1. /\ pc[t] = "retireCas" /\ pc'[t] \in {"retireNext", "retireAdjust"} /\ vec' = vec
        /\ active' = active /\ slot[t] \in Slots
        /\ head[slot[t]] = last[t] /\ head'[slot[t]].refs = last[t].refs
        /\ \A q \in Slots : q # slot[t] => head'[q] = head[q]
    BY <1>5 DEF Insert, Goto, TypeOK, client, callerLocals
  <2>2. \A u \in Threads : InPlace(u)
    BY <2>1, OthersInPlace DEF InPlace, In
  <2>3. Inside(s)' = Inside(s)
    BY <2>2, SameInside
  <2>4. last[t].refs # 0
    BY <2>1 DEF ThreadInv, ThreadOK, RetireOK
  <2>5. CASE s = slot[t]
    BY <1>2, <2>1, <2>3, <2>4, <2>5 DEF SlotOK
  <2>6. CASE s # slot[t]
    BY <1>2, <2>1, <2>3, <2>6, SlotFrame
  <2> QED
    BY <2>5, <2>6
<1>6. CASE (\E r \in Slots : Enter(t, r)) \/ Reenter(t)
  BY <1>6, EnterSlots
<1>7. CASE LeaveCas(t)
  BY <1>7, LeaveSlots
<1> QED
  BY <1>3, <1>4, <1>5, <1>6, <1>7, PlaceKinds

-----------------------------------------------------------------------------
(* The invariant of the slots, lists and counters.                         *)

\* To begin with the slots are empty, and nobody holds or owes anything.
LEMMA CoreInit == AnyInit => CoreInv
<1> SUFFICES ASSUME AnyInit PROVE CoreInv
  OBVIOUS
<1>1. TypeOK
  BY TypeInit
<1>2. /\ \A u \in Threads : pc[u] = "idle" /\ u \notin active
      /\ \A u \in Threads : ~In(u) /\ Ahead(u) = {} /\ skipped[u] = {}
      /\ \A u \in Threads, b \in Batches : ~Owes(u, b) /\ b \notin list[u]
      /\ \A u \in Threads : op[u] = "none" /\ batch[u] = NULL /\ slot[u] = 0
      /\ \A u \in Threads : adjs[u] = 0 /\ ~doAdjs[u] /\ list[u] = {}
      /\ \A u \in Threads : held[u] = <<>> /\ todo[u] = <<>> /\ later[u] = <<>>
  BY InEmpty DEF AnyInit, Blank, In, Ahead, Owes
<1>3. \A s \in Slots : head[s] = Empty /\ Inside(s) = {}
  BY <1>2 DEF AnyInit, Blank, Inside
<1>4. SlotsAgree
  <2>1. \A s \in Slots : head[s].refs = 0 /\ head[s].ptr = NULL
    BY <1>3 DEF Empty
  <2>2. Cardinality({}) = 0
    BY FS_EmptySet
  <2> QED
    BY <1>3, <2>1, <2>2 DEF SlotsAgree
<1>5. ThreadInv
  <2>1. Cardinality({}) = 0 /\ NumSlots \in Nat \ {0} /\ Share \in Nat
    BY FS_EmptySet, Constants
  <2>2. SUFFICES ASSUME NEW u \in Threads PROVE ThreadOK(u)
    BY DEF ThreadInv
  <2>3. ControlOK(u)
    BY <1>2 DEF ControlOK, LeaveLabels
  <2>4. RetireOK(u)
    <3>1. adjs[u] = LET n == Cardinality(skipped[u]) IN
                    IF n = NumSlots THEN 0 ELSE Share * n
      <4>1. skipped[u] = {} /\ adjs[u] = 0 /\ Share * 0 = 0
        BY <1>2, <2>1
      <4>2. Cardinality(skipped[u]) = 0
        BY <2>1, <4>1
      <4> QED
        BY <4>1, <4>2
    <3>2. doAdjs[u] <=> skipped[u] # {}
      BY <1>2
    <3>3. pc[u] \notin RetireLabels /\ pc[u] = "idle"
      BY <1>2 DEF RetireLabels
    <3> QED
      BY <1>2, <3>1, <3>2, <3>3 DEF RetireOK, RetireLabels
  <2>5. HeldOK(u) /\ LeavesOK(u) /\ WalksOK(u)
    BY <1>2 DEF HeldOK, LeavesOK, WalksOK
  <2>6. OnceOK(u)
    BY <1>2, InEmpty DEF OnceOK
  <2> QED
    BY <2>3, <2>4, <2>5, <2>6 DEF ThreadOK
<1>6. \A b \in Batches : Open(b) = {} /\ Owers(b) = {} /\ ~Listed(b)
  <2>1. ASSUME NEW u \in Threads, NEW b \in Batches, NEW s \in Slots
        PROVE  ~Keeps(u, b, s)
    BY <1>2, Constants DEF Keeps, Adjusts
  <2> QED
    BY SMTT(30), <1>2, <1>3, <2>1, Constants DEF Open, Owers, Listed, Empty
<1>7. KeepInv /\ OweInv
  <2>1. ASSUME NEW u \in Threads, NEW b \in Batches, NEW s \in Slots
        PROVE  ~Keeps(u, b, s)
    BY <1>2, Constants DEF Keeps, Adjusts
  <2> QED
    BY <1>2, <2>1 DEF KeepInv, OweInv
<1>8. RefsInv /\ RefsAccountedFor
  <2>1. \A b \in Batches : status[b] \in {"live", "freed"}
    BY DEF AnyInit
  <2> QED
    BY <1>2, <1>6, <2>1 DEF RefsInv, RefsAccountedFor
<1> QED
  BY <1>1, <1>4, <1>5, <1>7, <1>8 DEF CoreInv

\* What the allocator does, and a step that is none.
LEMMA NoStep ==
    ASSUME CoreInv, (\E b \in Batches : Alloc(b)) \/ UNCHANGED vars, ThreadInv'
    PROVE  SlotsAgree' /\ KeepInv' /\ OweInv' /\ RefsInv' /\ RefsAccountedFor'
<1>1. UNCHANGED <<head, next, refs, active, grace, held, todo, later, pc, op, vec, smr,
                  last, walk, outer, thr, list, batch, slot, adjs, doAdjs, skipped,
                  covers>>
  BY DEF Alloc, vars, shared, history, callerLocals, walkLocals, retireLocals
<1>2. SlotsAgree'
  BY <1>1 DEF CoreInv, SlotsAgree, Inside, In
<1>3. KeepInv' /\ OweInv'
  <2>1. KeepInv'
    <3>1. \A b \in Batches, u \in Threads, s \in Slots : Keeps(u, b, s)' <=> Keeps(u, b, s)
      BY NoStepOpen
    <3> QED
      BY <1>1, <3>1 DEF CoreInv, KeepInv
  <2>2. OweInv'
    <3>1. \A b \in Batches : Settled(b)' = Settled(b) /\ Uncounted(b)' = Uncounted(b)
      BY NoStepOpen
    <3>2. \A u \in Threads, b \in Batches : Owes(u, b)' <=> Owes(u, b)
      BY <1>1 DEF Owes
    <3> QED
      BY <1>1, <3>1, <3>2 DEF CoreInv, OweInv
  <2> QED
    BY <2>1, <2>2
<1>4. RefsInv' /\ RefsAccountedFor'
  <2>1. CASE \E b \in Batches : Alloc(b)
    BY <1>3, <2>1, AllocCounts DEF Grounds, CoreInv
  <2>2. CASE UNCHANGED vars
    <3>1. \A b \in Batches : /\ Open(b)' = Open(b) /\ Owers(b)' = Owers(b)
                             /\ Uncounted(b)' = Uncounted(b)
      BY <2>2, NoStepOpen
    <3>2. \A b \in Batches : Balance(b)' = Balance(b)
      BY <3>1, BalanceIs
    <3>3. status' = status /\ \A b \in Batches : Listed(b)' <=> Listed(b)
      BY <1>1, <2>2 DEF vars, Listed
    <3> QED
      BY <1>1, <3>1, <3>2, <3>3 DEF CoreInv, RefsInv, RefsAccountedFor
  <2> QED
    BY <2>1, <2>2
<1> QED
  BY <1>2, <1>3, <1>4

\* Every step of Hyaline and of the robust scheme keeps it.
LEMMA CoreStep == CoreInv /\ [AnyNext]_vars => CoreInv'
<1> SUFFICES ASSUME CoreInv, [AnyNext]_vars PROVE CoreInv'
  OBVIOUS
<1>1. /\ TypeOK /\ SlotsAgree /\ ThreadInv /\ KeepInv /\ OweInv /\ RefsInv
      /\ RefsAccountedFor
  BY DEF CoreInv
<1>2. TypeOK' /\ ThreadInv'
  BY <1>1, TypeStep, ThreadStep
<1>3. ASSUME NEW t \in Threads, AnyCall(t) \/ AnyStep(t) PROVE CoreInv'
  <2>1. OweInv' /\ KeepInv'
    BY <1>1, <1>2, <1>3, OweInvStep, KeepStep
  <2>2. RefsInv' /\ RefsAccountedFor'
    BY <1>1, <1>2, <1>3, <2>1, BatchStep DEF Grounds
  <2>3. SlotsAgree'
    BY <1>1, <1>3, SlotsStep
  <2> QED
    BY <1>2, <2>1, <2>2, <2>3 DEF CoreInv
<1>4. CASE (\E b \in Batches : Alloc(b)) \/ UNCHANGED vars
  BY <1>2, <1>4, NoStep DEF CoreInv
<1> QED
  BY <1>3, <1>4 DEF AnyNext

\* A slot contributes to every counter once, and a counter that waits is what
\* its slots and threads have contributed, in Hyaline as in the robust scheme.
THEOREM CoreInvariance == AnySpec => []CoreInv
BY CoreInit, CoreStep, PTL DEF AnySpec

-----------------------------------------------------------------------------
(* The threads that a retired batch has to outlive.                        *)

\* Hyaline takes some of the steps.
LEMMA NextIsAny ==
    /\ Init => AnyInit
    /\ \A t \in Threads : Call(t) \/ Step(t) => AnyCall(t) \/ AnyStep(t)
    /\ [Next]_vars => [AnyNext]_vars
BY DEF Init, AnyInit, AnyCall, AnyStep, Next, AnyNext

\* Only the robust scheme passes by a slot with threads in it.
Ignores(t) == PassByEpoch(t) /\ ~(Call(t) \/ Step(t))

\* While a thread is inside, its slot stays the same, and so do what it holds
\* and the head of the slot, but for insertions and its own trims.
LEMMA StaysWithin ==
    ASSUME TypeOK, ThreadInv, SlotsAgree, NEW t \in Threads, AnyCall(t) \/ AnyStep(t),
           ~Insert(t), NEW u \in Threads, u \in active, ~(u = t /\ Trim(t))
    PROVE  /\ vec'[u] = vec[u] /\ held'[u] = held[u]
           /\ head'[vec[u]].ptr = head[vec[u]].ptr
<1>0. ControlOK(t) /\ vec[u] \in Slots /\ u \in Inside(vec[u])
  BY DEF ThreadInv, ThreadOK, TypeOK, Inside, In
<1>1. CASE Indoors(t)
  <2>1. head' = head /\ InPlace(u)
    BY <1>1, IndoorsPlaces, OthersInPlace
  <2>2. vec'[u] = vec[u]
    BY <2>1 DEF InPlace, In
  <2>3. held'[u] = held[u]
    <3> USE DEF history, TypeOK
    <3>1. CASE Leave(t) \/ NestedLeave(t)
      BY <3>1 DEF Leave, NestedLeave, LeaveBegin
    <3>2. CASE LeaveRead(t) \/ LeaveCasFails(t) \/ LeaveClearFails(t) \/ LeaveAdjust(t)
      BY <3>2 DEF LeaveRead, LeaveCasFails, LeaveClearFails, LeaveAdjust
    <3>3. CASE TravRead(t) \/ TravDrop(t)
      BY <3>3 DEF TravRead, TravDrop
    <3>4. CASE Trim(t)
      BY <3>4 DEF Trim, TrimNothing, TrimBegin
    <3>5. CASE TrimRead(t) \/ AnyEnd(t)
      BY <3>5 DEF TrimRead, AnyEnd, EndCall, EndFlushed
    <3>6. CASE AnyLoad(t) \/ InsertFails(t) \/ RetireAdjust(t) \/ RetireNext(t)
      BY <3>6 DEF AnyLoad, RetireLoad, PassByEpoch, InsertFails, RetireAdjust,
         RetireNext
    <3>7. CASE RetireFinish(t) \/ \E b \in Batches : AnyRetire(t, b) \/ Free(t, b)
      BY <3>7 DEF RetireFinish, AnyRetire, Retire, RetireUnseen, Free
    <3> QED
      BY <1>1, <3>1, <3>2, <3>3, <3>4, <3>5, <3>6, <3>7 DEF Indoors
  <2> QED
    BY <2>1, <2>2, <2>3
<1>2. CASE (\E s \in Slots : Enter(t, s)) \/ Reenter(t)
  <2>1. PICK r \in Slots : EnterSlot(t, r)
    BY <1>2 DEF Enter, Reenter, TypeOK
  <2>2. t \notin active /\ held' = held
    BY <1>0, <1>2 DEF Enter, Reenter, ControlOK, history
  <2> QED
    BY <1>0, <2>1, <2>2 DEF EnterSlot, TypeOK
<1>3. CASE LeaveCas(t)
  <2>1. pc[t] = "leaveCas" /\ head[vec[t]] = last[t] /\ vec' = vec /\ t \notin active
    BY <1>0, <1>3 DEF LeaveCas, callerLocals, ControlOK, LeaveLabels
  <2>2. held'[u] = held[u] /\ u # t
    BY <1>3, <2>1 DEF LeaveCas, TypeOK
  <2>3. CASE vec[u] = vec[t]
    <3>1. t \in Inside(vec[u])
      BY <2>1, <2>3 DEF Inside, In
    <3>2. last[t].refs # 1
      BY <1>0, <2>1, <2>2, <2>3, <3>1, InsideCount
    <3> QED
      BY <1>0, <1>3, <2>1, <2>2, <3>2 DEF LeaveCas, HeadAfterLeave, TypeOK
  <2>4. CASE vec[u] # vec[t]
    BY <1>3, <2>1, <2>2, <2>4 DEF LeaveCas, TypeOK
  <2> QED
    BY <2>3, <2>4
<1>4. CASE LeaveClear(t)
  <2>1. /\ head[vec[t]].refs = 0 /\ vec' = vec /\ held' = held /\ vec[t] \in Slots
        /\ \A s \in Slots : s # vec[t] => head'[s] = head[s]
    BY <1>4 DEF LeaveClear, callerLocals, history, TypeOK
  <2>2. vec[u] # vec[t]
    BY <1>0, <2>1, InsideCount
  <2> QED
    BY <1>0, <2>1, <2>2
<1> QED
  BY <1>1, <1>2, <1>3, <1>4, PlaceKinds

\* The batch of a retirement: what the retirement has not come to shrinks by
\* the slots that get the batch, and those that nobody is in or that are passed
\* by for their epoch.
LEMMA AheadStep ==
    ASSUME TypeOK, NEW t \in Threads, AnyCall(t) \/ AnyStep(t), NEW v \in Threads,
           NEW s \in Slots, s \in Ahead(v)
    PROVE  /\ batch'[v] = batch[v]
           /\ \/ s \in Ahead(v)'
              \/ /\ v = t /\ s = slot[t]
                 /\ Insert(t) \/ Ignores(t) \/ head[s].refs = 0
<1>1. CASE v # t
  <2>1. Kept(v)
    BY <1>1, KeptByOthers
  <2> QED
    BY <2>1 DEF Kept, Ahead
<1>2. CASE v = t
  <2> USE DEF Ahead, Goto, TypeOK, retireLocals, countLocals, Slots
  <2>0. NumSlots \in Nat /\ slot[t] \in Nat /\ s \in Nat
    BY Constants
  <2>1. pc[t] \in {"retireLoad", "retireCas", "retireAdjust", "retireNext"}
    BY <1>2
  <2>2. CASE RetireLoad(t) \/ InsertFails(t)
    <3>1. TrySlot(t, head[slot[t]]) /\ batch' = batch /\ s \in slot[t] .. NumSlots - 1
      BY <1>2, <2>2 DEF RetireLoad, InsertFails
    <3>2. CASE head[slot[t]].refs = 0
      <4>1. NextSlot(t, TRUE)
        BY <3>1, <3>2 DEF TrySlot, PassBy
      <4> QED
        BY <1>2, <2>0, <3>1, <3>2, <4>1 DEF NextSlot
    <3>3. CASE head[slot[t]].refs # 0
      BY <1>2, <3>1, <3>3 DEF TrySlot
    <3> QED
      BY <3>2, <3>3
  <2>3. CASE Insert(t)
    <3>1. /\ batch' = batch /\ slot' = slot /\ pc[t] = "retireCas"
          /\ pc'[t] \in {"retireAdjust", "retireNext"}
      BY <2>3 DEF Insert
    <3> QED
      BY <1>2, <2>0, <2>3, <3>1
  <2>4. CASE RetireAdjust(t)
    BY <1>2, <2>4 DEF RetireAdjust
  <2>5. CASE RetireNext(t)
    BY <1>2, <2>0, <2>5 DEF RetireNext, NextSlot
  <2>6. CASE Ignores(t)
    <3>1. NextSlot(t, TRUE) /\ batch' = batch /\ s \in slot[t] .. NumSlots - 1
      BY <1>2, <2>6 DEF Ignores, PassByEpoch, PassBy
    <3> QED
      BY <1>2, <2>0, <2>6, <3>1 DEF NextSlot
  <2> QED
    BY <2>1, <2>2, <2>3, <2>4, <2>5, <2>6 DEF Ignores, AnyCall, Call, AnyRetire, AnyStep, Step,
       AnyLoad, AnyEnd, Enter, Leave, Trim, TrimNothing, TrimBegin, Retire,
       RetireUnseen, NestedLeave, LeaveRead, LeaveCas, LeaveCasFails, LeaveClear,
       LeaveClearFails, LeaveAdjust, TravRead, TravDrop, TrimRead, Reenter,
       RetireFinish, EndCall, EndFlushed, Free
<1> QED
  BY <1>1, <1>2

\* What GraceInv says of one thread.
Shields(u, b) ==
    /\ u \in active
    /\ \/ InSeq(b, held[u])
       \/ head[vec[u]].ptr = b
       \/ \E t \in Threads : batch[t] = b /\ vec[u] \in Ahead(t)

\* An insertion turns a slot ahead into a batch in the slot, and an old head
\* into a batch that the threads in the slot hold.
LEMMA InsertShields ==
    ASSUME TypeOK, ThreadInv, SlotsAgree, KeepInv, OweInv, NEW t \in Threads, Insert(t),
           NEW b \in Batches, NEW u \in Threads, Shields(u, b)
    PROVE  Shields(u, b)'
<1>1. AnyCall(t) \/ AnyStep(t)
  BY DEF AnyStep, Step, AnyLoad, AnyEnd
<1>2. /\ vec' = vec /\ active' = active /\ head'[slot[t]].ptr = batch[t]
      /\ \A s \in Slots : s # slot[t] => head'[s] = head[s]
      /\ held'[u] = IF u \in Inside(slot[t]) /\ last[t].ptr # NULL
                    THEN <<last[t].ptr>> \o held[u] ELSE held[u]
  BY InsertEffect
<1>3. last[t].ptr = head[slot[t]].ptr /\ slot[t] \in Slots
  BY InsertNew
<1>4. vec[u] \in Slots /\ held[u] \in Seq(Batches)
  BY DEF TypeOK
<1>5. u \in Inside(vec[u])
  BY DEF Shields, Inside, In
<1>6. CASE InSeq(b, held[u])
  <2>1. CASE u \in Inside(slot[t]) /\ last[t].ptr # NULL
    <3>1. last[t].ptr \in Batches
      BY <2>1 DEF TypeOK, HeadWord, Ptr
    <3>2. InSeq(b, <<last[t].ptr>> \o held[u])
      BY <1>4, <1>6, <3>1, InCons
    <3> QED
      BY <1>2, <2>1, <3>2 DEF Shields
  <2>2. CASE ~(u \in Inside(slot[t]) /\ last[t].ptr # NULL)
    BY <1>2, <1>6, <2>2 DEF Shields
  <2> QED
    BY <2>1, <2>2
<1>7. CASE head[vec[u]].ptr = b
  <2>1. CASE vec[u] = slot[t]
    <3>1. last[t].ptr = b /\ last[t].ptr # NULL
      BY <1>3, <1>7, <2>1, Constants
    <3>2. InSeq(b, <<last[t].ptr>> \o held[u])
      BY <1>4, <3>1, InCons
    <3> QED
      BY <1>2, <1>5, <2>1, <3>1, <3>2 DEF Shields
  <2>2. CASE vec[u] # slot[t]
    BY <1>2, <1>4, <1>7, <2>2 DEF Shields
  <2> QED
    BY <2>1, <2>2
<1>8. CASE \E v \in Threads : batch[v] = b /\ vec[u] \in Ahead(v)
  <2>1. PICK v \in Threads : batch[v] = b /\ vec[u] \in Ahead(v)
    BY <1>8
  <2>2. /\ batch'[v] = b
        /\ vec[u] \in Ahead(v)' \/ (v = t /\ vec[u] = slot[t])
    BY <1>1, <1>4, <2>1, AheadStep
  <2>3. CASE vec[u] \in Ahead(v)'
    BY <1>2, <2>2, <2>3 DEF Shields
  <2>4. CASE v = t /\ vec[u] = slot[t]
    BY <1>2, <2>1, <2>4 DEF Shields
  <2> QED
    BY <2>2, <2>3, <2>4
<1> QED
  BY <1>6, <1>7, <1>8 DEF Shields

\* Any other step of any thread, but for the trims of u.
LEMMA StillShields ==
    ASSUME TypeOK, ThreadInv, SlotsAgree, NEW t \in Threads, AnyCall(t) \/ AnyStep(t),
           ~Insert(t), ~Ignores(t), NEW b \in Batches, NEW u \in Threads,
           u \in active', ~(u = t /\ Trim(t)), Shields(u, b)
    PROVE  Shields(u, b)'
<1>1. /\ vec'[u] = vec[u] /\ held'[u] = held[u] /\ head'[vec[u]].ptr = head[vec[u]].ptr
      /\ vec[u] \in Slots /\ u \in Inside(vec[u])
  BY StaysWithin DEF Shields, TypeOK, Inside, In
<1>2. ASSUME NEW v \in Threads, batch[v] = b, vec[u] \in Ahead(v)
      PROVE  batch'[v] = b /\ vec[u] \in Ahead(v)'
  BY <1>1, <1>2, AheadStep, InsideCount
<1> QED
  BY <1>1, <1>2 DEF Shields

\* What happens to a grace period: its threads leave it when they leave or
\* trim, and it begins with a retirement.
LEMMA GraceShrinks ==
    ASSUME TypeOK, ThreadInv, NEW t \in Threads, Call(t) \/ Step(t), NEW b \in Batches,
           ~Retire(t, b)
    PROVE  /\ grace'[b] = IF Leave(t) \/ NestedLeave(t) \/ Trim(t)
                         THEN grace[b] \ {t} ELSE grace[b]
           /\ ~(Leave(t) \/ NestedLeave(t)) => active \subseteq active'
<1> USE DEF TypeOK, client
<1>1. CASE Leave(t) \/ NestedLeave(t) \/ Trim(t)
  BY ZenonT(60), <1>1 DEF Leave, NestedLeave, Trim, LeaveBegin, TrimNothing, TrimBegin, Released
<1>2. CASE (\E s \in Slots : Enter(t, s)) \/ Reenter(t)
  BY <1>2 DEF Enter, Reenter, EnterSlot, Leave, NestedLeave, Trim, TrimNothing,
              TrimBegin, Goto
<1>3. CASE \E c \in Batches : Retire(t, c) \/ Free(t, c)
  BY <1>3 DEF Retire, Free, Leave, NestedLeave, Trim, TrimNothing, TrimBegin, LeaveBegin,
              LoadedHead, Goto
<1>4. CASE LeaveRead(t) \/ LeaveCas(t) \/ LeaveCasFails(t) \/ LeaveClear(t)
           \/ LeaveClearFails(t) \/ LeaveAdjust(t)
  BY <1>4 DEF LeaveRead, LeaveCas, LeaveCasFails, LeaveClear, LeaveClearFails,
              LeaveAdjust, Leave, NestedLeave, Trim, TrimNothing, TrimBegin
<1>5. CASE TravRead(t) \/ TravDrop(t) \/ TrimRead(t) \/ EndCall(t)
  BY <1>5 DEF TravRead, TravDrop, TrimRead, EndCall, Leave, NestedLeave, Trim,
              TrimNothing, TrimBegin
<1>6. CASE RetireLoad(t) \/ Insert(t) \/ InsertFails(t) \/ RetireAdjust(t)
           \/ RetireNext(t) \/ RetireFinish(t)
  BY <1>6 DEF RetireLoad, Insert, InsertFails, RetireAdjust, RetireNext, RetireFinish,
              Leave, NestedLeave, Trim, TrimNothing, TrimBegin
<1> QED
  BY <1>1, <1>2, <1>3, <1>4, <1>5, <1>6 DEF Call, Step

\* Every step of a thread keeps the grace of the batches in the slots.
LEMMA GraceStep ==
    ASSUME TypeOK, ThreadInv, SlotsAgree, KeepInv, OweInv, GraceInv, NEW t \in Threads,
           Call(t) \/ Step(t)
    PROVE  GraceInv'
<1>1. SUFFICES ASSUME NEW b \in Batches, NEW u \in grace'[b] PROVE Shields(u, b)'
  BY DEF GraceInv, Shields
<1>2. CASE Retire(t, b)
  <2>1. /\ grace'[b] = active /\ active' = active /\ vec' = vec /\ batch'[t] = b
        /\ pc'[t] = "retireLoad" /\ slot' = slot /\ pc[t] = "idle"
    BY <1>2 DEF Retire, Goto, TypeOK, callerLocals
  <2>2. slot[t] = 0
    BY <2>1 DEF ThreadInv, ThreadOK, ControlOK, RetireOK
  <2>3. Ahead(t)' = Slots
    BY <2>1, <2>2 DEF Ahead, Slots
  <2>4. u \in active /\ vec[u] \in Slots
    BY <1>1, <2>1 DEF TypeOK
  <2> QED
    BY <2>1, <2>3, <2>4 DEF Shields
<1>3. CASE ~Retire(t, b)
  <2>1. u \in grace[b] /\ (Leave(t) \/ NestedLeave(t) \/ Trim(t) => u # t)
    BY <1>1, <1>3, GraceShrinks
  <2>2. Shields(u, b) /\ u \in Threads
    BY <2>1 DEF GraceInv, Shields, TypeOK
  <2>3. u \in active'
    <3>1. CASE u # t
      BY <2>2, <3>1, KeptByOthers, NextIsAny DEF Kept, Shields
    <3>2. CASE u = t
      BY <1>3, <2>1, <2>2, <3>2, GraceShrinks DEF Shields
    <3> QED
      BY <3>1, <3>2
  <2>4. CASE Insert(t)
    BY <2>2, <2>4, InsertShields DEF AnyStep, Step
  <2>5. CASE ~Insert(t)
    BY <2>1, <2>2, <2>3, <2>5, StillShields, NextIsAny DEF Ignores
  <2> QED
    BY <2>4, <2>5
<1> QED
  BY <1>2, <1>3

\* A thread that retires stays in the grace period of its batch: no step of
\* the retirement takes it out, and nobody retires the batch meanwhile.
LEMMA RetirerStep ==
    ASSUME TypeOK, ThreadInv, RefsInv, GraceInv, RetirerInv, NEW t \in Threads,
           Call(t) \/ Step(t)
    PROVE  RetirerInv'
<1>1. SUFFICES ASSUME ~RetireOutside, NEW v \in Threads,
                      pc'[v] \in RetireLabels \ {"retireFinish"}
               PROVE  v \in grace'[batch'[v]]
  BY DEF RetirerInv, RetireLabels
<1>2. CASE \E b \in Batches : v = t /\ Retire(t, b)
  BY <1>1, <1>2 DEF Retire, TypeOK
<1>3. CASE ~\E b \in Batches : v = t /\ Retire(t, b)
  <2>1. /\ pc[v] \in RetireLabels \ {"retireFinish"} /\ batch'[v] = batch[v]
        /\ ~(v = t /\ (Leave(t) \/ NestedLeave(t) \/ Trim(t)))
    <3>1. CASE v # t
      BY <1>1, <3>1, KeptByOthers, NextIsAny DEF Kept
    <3>2. CASE v = t
      <4> USE DEF Goto, TypeOK, RetireLabels, retireLocals
      <4>1. CASE RetireLoad(t) \/ InsertFails(t) \/ Insert(t) \/ RetireAdjust(t)
                 \/ RetireNext(t)
        BY <3>2, <4>1 DEF RetireLoad, InsertFails, Insert, RetireAdjust, RetireNext,
             Leave, NestedLeave, Trim, TrimNothing, TrimBegin
      <4>2. pc'[t] \in RetireLabels \ {"retireFinish"}
        BY <1>1, <3>2
      <4>3. CASE (\E s \in Slots : Enter(t, s)) \/ Reenter(t)
        BY <4>2, <4>3 DEF Enter, Reenter
      <4>4. CASE Leave(t) \/ NestedLeave(t) \/ LeaveRead(t) \/ LeaveCasFails(t)
        BY <4>2, <4>4 DEF Leave, NestedLeave, LeaveBegin, LoadedHead, LeaveRead,
                          LeaveCasFails
      <4>5. CASE LeaveCas(t) \/ LeaveClear(t) \/ LeaveClearFails(t) \/ LeaveAdjust(t)
        BY <4>2, <4>5 DEF LeaveCas, LeaveClear, LeaveClearFails, LeaveAdjust,
                          LeaveTraverse, Return
      <4>6. CASE TravRead(t) \/ TravDrop(t)
        BY <4>2, <4>6 DEF TravRead, TravDrop, Return
      <4>7. CASE Trim(t) \/ TrimRead(t)
        BY <4>2, <4>7 DEF Trim, TrimNothing, TrimBegin, TrimRead
      <4>8. CASE RetireFinish(t) \/ EndCall(t)
        BY <4>2, <4>8 DEF RetireFinish, EndCall
      <4>9. CASE \E b \in Batches : Free(t, b)
        BY <4>2, <4>9 DEF Free
      <4> QED
        BY <1>3, <3>2, <4>1, <4>3, <4>4, <4>5, <4>6, <4>7, <4>8, <4>9 DEF Call, Step
    <3> QED
      BY <3>1, <3>2
  <2>2. v \in grace[batch[v]] /\ batch[v] \in Batches
    BY <1>1, <2>1 DEF RetirerInv, ThreadInv, ThreadOK, RetireOK, TypeOK, Ptr
  <2>3. CASE Retire(t, batch[v])
    BY <2>1, <2>2, <2>3 DEF Retire, TypeOK, GraceInv
  <2>4. CASE ~Retire(t, batch[v])
    BY <2>1, <2>2, <2>4, GraceShrinks
  <2> QED
    BY <2>3, <2>4
<1> QED
  BY <1>2, <1>3

-----------------------------------------------------------------------------
(* The invariant of Hyaline.                                               *)

\* The invariant holds initially.
LEMMA InvInit == Init => IInv
<1> SUFFICES ASSUME Init PROVE IInv
  OBVIOUS
<1>1. CoreInv
  BY CoreInit, NextIsAny
<1>2. GraceInv /\ RetirerInv
  BY DEF Init, Blank, GraceInv, RetirerInv, RetireLabels
<1> QED
  BY <1>1, <1>2 DEF IInv, CoreInv

\* Every step keeps it.
LEMMA InvStep == IInv /\ [Next]_vars => IInv'
<1> SUFFICES ASSUME IInv, [Next]_vars PROVE IInv'
  OBVIOUS
<1>1. /\ TypeOK /\ SlotsAgree /\ ThreadInv /\ KeepInv /\ OweInv /\ RefsInv
      /\ RefsAccountedFor /\ GraceInv /\ RetirerInv
  BY DEF IInv
<1>2. CoreInv'
  BY <1>1, CoreStep, NextIsAny DEF CoreInv
<1>3. GraceInv' /\ RetirerInv'
  <2>1. CASE \E t \in Threads : Call(t) \/ Step(t)
    BY <1>1, <2>1, GraceStep, RetirerStep
  <2>2. CASE (\E b \in Batches : Alloc(b)) \/ UNCHANGED vars
    <3>1. UNCHANGED <<head, active, grace, held, pc, vec, batch, slot>>
      BY <2>2 DEF Alloc, vars, shared, history, callerLocals, retireLocals
    <3>2. \A u \in Threads : Ahead(u)' = Ahead(u)
      BY <3>1 DEF Ahead
    <3> QED
      BY <1>1, <3>1, <3>2 DEF GraceInv, RetirerInv
  <2> QED
    BY <2>1, <2>2 DEF Next
<1> QED
  BY <1>2, <1>3 DEF IInv, CoreInv

\* Every reachable state satisfies the inductive invariant.
THEOREM Invariance == Spec => []IInv
BY InvInit, InvStep, PTL DEF Spec

-----------------------------------------------------------------------------
(* What the client can rely on.                                            *)

\* A batch that anything is still to be given back for waits to be freed.
LEMMA StillRetired ==
    ASSUME IInv, NEW b \in Batches, Open(b) # {} \/ Owers(b) # {}
    PROVE  status[b] = "retired" /\ ~Listed(b)
BY DEF IInv, RefsInv

\* A thread in the grace period of a batch keeps the batch waiting.
LEMMA GraceWaits ==
    ASSUME IInv, NEW b \in Batches, grace[b] # {}
    PROVE  Open(b) # {} \/ Owers(b) # {}
<1>1. PICK u \in grace[b] : TRUE
  OBVIOUS
<1>2. u \in Threads /\ vec[u] \in Slots
  BY DEF IInv, TypeOK
<1>3. \/ InSeq(b, held[u])
      \/ head[vec[u]].ptr = b
      \/ \E t \in Threads : batch[t] = b /\ vec[u] \in Ahead(t)
  BY DEF IInv, GraceInv
<1>4. CASE InSeq(b, held[u])
  BY <1>2, <1>4 DEF Owers, Owes
<1>5. CASE head[vec[u]].ptr = b
  BY <1>2, <1>5 DEF Open
<1>6. CASE \E t \in Threads : batch[t] = b /\ vec[u] \in Ahead(t)
  BY <1>2, <1>6 DEF Open, Keeps
<1> QED
  BY <1>3, <1>4, <1>5, <1>6

\* No one inside waits for a batch that is freed.
LEMMA InvFrees == IInv => FreesAreSafe
<1> SUFFICES ASSUME IInv, NEW t \in Threads, NEW b \in list[t]
             PROVE  /\ status[b] = "retired" /\ refs[b] = 0
                    /\ grace[b] = {}
                    /\ Owers(b) = {}
                    /\ \A s \in Slots : head[s].ptr # b
  BY DEF FreesAreSafe
<1>1. b \in Batches /\ Listed(b)
  BY DEF IInv, TypeOK, Listed
<1>2. status[b] = "retired" /\ refs[b] = 0 /\ Open(b) = {} /\ Owers(b) = {}
  BY <1>1 DEF IInv, RefsInv
<1>3. grace[b] = {}
  BY <1>1, <1>2, GraceWaits
<1>4. \A s \in Slots : head[s].ptr # b
  BY <1>2 DEF Open
<1> QED
  BY <1>2, <1>3, <1>4

\* What a thread is about to touch has been retired and not freed.
LEMMA InvTouches == IInv /\ ~RetireOutside => TouchesOnlyRetired
<1> SUFFICES ASSUME IInv, ~RetireOutside, NEW t \in Threads, NEW b \in Target(t)
             PROVE  b \in Batches /\ (Open(b) # {} \/ Owers(b) # {})
  BY StillRetired DEF TouchesOnlyRetired
<1>1. TypeOK /\ ThreadInv /\ ControlOK(t) /\ RetireOK(t)
  BY DEF IInv, ThreadInv, ThreadOK
<1>2. vec[t] \in Slots /\ slot[t] \in Slots /\ skipped[t] \subseteq Slots
  BY <1>1 DEF TypeOK
<1>3. ASSUME b \in Batches, Linked(t, b) PROVE Open(b) # {} \/ Owers(b) # {}
  BY <1>2, <1>3 DEF Linked, Open, Owers
<1>4. ASSUME NEW s \in Slots, Keeps(t, b, s) PROVE Open(b) # {}
  BY <1>4 DEF Open
<1>5. CASE pc[t] = "leaveRead"
  <2>1. b = last[t].ptr /\ last[t].ptr # smr[t]
    BY <1>5 DEF Target, IInv, ThreadInv, ThreadOK, LeavesOK
  <2>2. b \in Batches /\ Linked(t, b)
    BY <1>1, <1>5, <2>1, LeavesHead
  <2> QED
    BY <1>3, <2>2
<1>6. CASE pc[t] \in {"leaveAdjust", "retireAdjust"}
  <2>1. b = last[t].ptr
    BY <1>6 DEF Target
  <2>2. b \in Batches
    BY <1>1, <1>6, <2>1, RetiresBatch
  <2>3. \E s \in Slots : Keeps(t, b, s)
    BY <1>2, <1>6, <2>1 DEF Keeps, Adjusts
  <2> QED
    BY <1>4, <2>2, <2>3
<1>7. CASE pc[t] = "trimRead"
  <2>1. b = smr[t] /\ b \in Batches /\ Linked(t, b)
    BY <1>1, <1>7, TrimsHandle DEF Target
  <2> QED
    BY <1>3, <2>1
<1>8. CASE pc[t] = "travRead"
  <2>1. b = walk[t].nxt /\ b # NULL
    BY <1>8 DEF Target
  <2>2. todo[t] # <<>> /\ b = todo[t][1] /\ b \in Batches
    BY <1>1, <1>8, <2>1, ReadsTodo
  <2>3. todo[t] \in Seq(Batches)
    BY <1>1 DEF TypeOK
  <2>4. InSeq(b, todo[t])
    BY <2>2, <2>3, TailFacts DEF InSeq
  <2> QED
    BY <1>3, <2>2, <2>4 DEF Linked, Owes
<1>9. CASE pc[t] = "travDrop"
  <2>1. b = walk[t].curr
    BY <1>9 DEF Target
  <2>2. /\ todo[t] # <<>> /\ b = todo[t][1] /\ b \in Batches
        /\ todo[t] \in Seq(Batches)
    BY <1>1, <1>9, <2>1, DropsTodo
  <2>3. InSeq(b, todo[t])
    BY <2>2, TailFacts DEF InSeq
  <2> QED
    BY <1>3, <2>2, <2>3 DEF Linked, Owes
<1>10. CASE pc[t] = "retireNext"
  <2>1. b = batch[t] /\ b \in Batches
    BY <1>1, <1>10, RetiresBatch DEF Target, RetireLabels
  <2>2. t \in grace[b]
    BY <1>10, <2>1 DEF IInv, RetirerInv, RetireLabels
  <2> QED
    BY <2>1, <2>2, GraceWaits
<1>11. CASE pc[t] = "retireFinish"
  <2>1. b = batch[t] /\ b \in Batches /\ skipped[t] # {}
    BY <1>1, <1>11, RetiresBatch DEF Target, RetireLabels, RetireOK
  <2>2. \E s \in Slots : Keeps(t, b, s)
    BY <1>2, <2>1 DEF Keeps
  <2> QED
    BY <1>4, <2>1, <2>2
<1> QED
  BY <1>5, <1>6, <1>7, <1>8, <1>9, <1>10, <1>11 DEF Target

\* A freed batch has every share and owes no reference.
LEMMA InvPaid == IInv => AllPaid
<1> SUFFICES ASSUME IInv, NEW t \in Threads, t \notin active,
                    pc[t] \in {"idle", "free", "reenter"}, NEW b \in Batches
             PROVE  ~Owes(t, b)
  BY DEF AllPaid
<1>1. ControlOK(t)
  BY DEF IInv, ThreadInv, ThreadOK
<1>2. held[t] = <<>> /\ todo[t] = <<>> /\ later[t] = <<>>
  BY <1>1 DEF ControlOK, In, LeaveLabels
<1> QED
  BY <1>2, InEmpty DEF Owes

\* When no one is inside, every retired batch has been freed.
LEMMA InvQuiet == IInv => QuietIsClean
<1> SUFFICES ASSUME IInv, active = {}, \A t \in Threads : pc[t] = "idle"
             PROVE  /\ head = [s \in Slots |-> Empty]
                    /\ \A b \in Batches : status[b] # "retired"
  BY DEF QuietIsClean
<1>1. ASSUME NEW s \in Slots PROVE head[s] = Empty
  <2>1. Inside(s) = {}
    BY DEF Inside, In
  <2>2. head[s].refs = 0
    BY <2>1, InsideCount DEF IInv
  <2>3. head[s].ptr = NULL
    BY <2>2 DEF IInv, SlotsAgree
  <2> QED
    BY <2>2, <2>3 DEF IInv, TypeOK, HeadWord, Empty
<1>2. ASSUME NEW b \in Batches PROVE Open(b) = {} /\ Owers(b) = {} /\ ~Listed(b)
  <2>1. \A t \in Threads : ~Owes(t, b) /\ list[t] = {} /\ Ahead(t) = {} /\ skipped[t] = {}
    BY InvPaid DEF AllPaid, IInv, ThreadInv, ThreadOK, ControlOK, RetireOK, RetireLabels,
                   Ahead
  <2>2. \A s \in Slots, t \in Threads : ~Keeps(t, b, s)
    BY <2>1 DEF Keeps, Adjusts
  <2> QED
    BY <1>1, <2>1, <2>2, Constants DEF Open, Owers, Listed, Empty
<1>3. \A b \in Batches : status[b] # "retired"
  BY <1>2 DEF IInv, RefsInv
<1> QED
  BY <1>1, <1>3 DEF IInv, TypeOK

\* The variables always have their types: no count leaves its word, and no
\* pointer is anything but a batch or null.
THEOREM TypeCorrect == Spec => []TypeOK
BY Invariance, PTL DEF IInv

\* The count in a slot's head is the number of threads in the slot, and the
\* list of a slot that nobody is in is about to be taken away.
THEOREM SlotsCount == Spec => []SlotsAgree
BY Invariance, PTL DEF IInv

\* The counting argument: modulo 2^w the counter of a batch that waits is the
\* shares of the slots that are finished with it, and one for every thread
\* that was counted and still has to come by.
THEOREM RefsAccounted == Spec => []RefsAccountedFor
BY Invariance, PTL DEF IInv

\* A batch is only handed to free when every thread that was inside at its
\* retirement has left or trimmed, nobody owes it a decrement and no slot
\* leads to it.
THEOREM FreesSafe == Spec => []FreesAreSafe
BY Invariance, InvFrees, PTL

\* leave, traverse, trim and retire never access memory that was given back,
\* or is about to be, nor the null pointer, as long as only threads that are
\* inside retire.
THEOREM TouchesSafe == ASSUME ~RetireOutside PROVE Spec => []TouchesOnlyRetired
<1>1. IInv => TouchesOnlyRetired
  BY InvTouches
<1> QED
  BY <1>1, Invariance, PTL

\* A thread that is out, or is about to re-enter after a flush, has given back
\* every reference it was counted for.
THEOREM Paid == Spec => []AllPaid
BY Invariance, InvPaid, PTL

\* When everybody has left and all calls have returned, the slots are empty
\* and nothing that was retired is still waiting to be freed.
THEOREM QuietClean == Spec => []QuietIsClean
BY Invariance, InvQuiet, PTL

-----------------------------------------------------------------------------
(* Refinement.                                                             *)

\* Every step is a step of SafeReclaim or a stutter.
LEMMA AbstractStep == IInv /\ [Next]_vars => [Abstract!Next]_(Abstract!vars)
<1> SUFFICES ASSUME IInv, [Next]_vars
             PROVE  Abstract!Next \/ UNCHANGED client
  BY DEF Abstract!vars, client
<1> USE DEF client
<1>0. \A t \in Threads : ControlOK(t)
  BY DEF IInv, ThreadInv, ThreadOK
<1>1. CASE UNCHANGED vars
  BY <1>1 DEF vars
<1>2. ASSUME NEW t \in Threads, (\E s \in Slots : Enter(t, s)) \/ Reenter(t)
      PROVE  Abstract!Next
  <2>1. t \notin active
    BY <1>0, <1>2 DEF Enter, Reenter, ControlOK
  <2>2. Abstract!Enter(t)
    BY <1>2, <2>1 DEF Enter, Reenter, EnterSlot, Abstract!Enter
  <2> QED
    BY <2>2 DEF Abstract!Next
<1>3. ASSUME NEW t \in Threads, Leave(t) \/ NestedLeave(t) PROVE Abstract!Next
  <2>1. t \in active /\ LeaveBegin(t)
    BY <1>0, <1>3 DEF Leave, NestedLeave, ControlOK
  <2>2. Abstract!Leave(t)
    BY <2>1 DEF LeaveBegin, Released, Abstract!Leave, Abstract!Released
  <2> QED
    BY <2>2 DEF Abstract!Next
<1>4. ASSUME NEW t \in Threads, Trim(t) PROVE Abstract!Next
  <2>1. Abstract!Trim(t)
    BY <1>4 DEF Trim, TrimNothing, TrimBegin, Released, Abstract!Trim, Abstract!Released
  <2> QED
    BY <2>1 DEF Abstract!Next
<1>5. ASSUME NEW t \in Threads, NEW b \in Batches, Retire(t, b) PROVE Abstract!Next
  <2>1. Abstract!Retire(b)
    BY <1>5 DEF Retire, Abstract!Retire
  <2> QED
    BY <2>1 DEF Abstract!Next
<1>6. ASSUME NEW t \in Threads, NEW b \in Batches, Free(t, b) PROVE Abstract!Next
  <2>1. status[b] = "retired" /\ grace[b] = {}
    BY <1>6, InvFrees DEF FreesAreSafe, Free
  <2>2. Abstract!Free(b)
    BY <1>6, <2>1 DEF Free, Abstract!Free
  <2> QED
    BY <2>2 DEF Abstract!Next
<1>7. ASSUME NEW b \in Batches, Alloc(b) PROVE Abstract!Next
  <2>1. Abstract!Alloc(b)
    BY <1>7 DEF Alloc, Abstract!Alloc
  <2> QED
    BY <2>1 DEF Abstract!Next
<1>8. ASSUME NEW t \in Threads,
             \/ LeaveRead(t) \/ LeaveCas(t) \/ LeaveCasFails(t) \/ LeaveClear(t)
             \/ LeaveClearFails(t) \/ LeaveAdjust(t)
             \/ TravRead(t) \/ TravDrop(t) \/ TrimRead(t) \/ EndCall(t)
             \/ RetireLoad(t) \/ Insert(t) \/ InsertFails(t) \/ RetireAdjust(t)
             \/ RetireNext(t) \/ RetireFinish(t)
      PROVE  UNCHANGED client
  BY <1>8 DEF LeaveRead, LeaveCas, LeaveCasFails, LeaveClear, LeaveClearFails,
       LeaveAdjust, TravRead, TravDrop, TrimRead, EndCall, RetireLoad, Insert,
       InsertFails, RetireAdjust, RetireNext, RetireFinish
<1> QED
  BY <1>1, <1>2, <1>3, <1>4, <1>5, <1>6, <1>7, <1>8 DEF Next, Call, Step

\* Hyaline implements the abstract scheme: whether or not threads retire from
\* outside, the client cannot tell it from one that remembers for every batch
\* the threads it has to outlive.
THEOREM Implements == Spec => ImplementsSafeReclaim
<1>1. Init => Abstract!Init
  BY DEF Init, Blank, Abstract!Init
<1> QED
  BY <1>1, AbstractStep, Invariance, PTL
     DEF Spec, ImplementsSafeReclaim, Abstract!Spec
=============================================================================
