---------------------------- MODULE Hyaline1Proofs ---------------------------
(***************************************************************************)
(* Hyaline-1 is safe for every number of threads, every set of batches and *)
(* every use of trim: the invariant IInv of Hyaline1 is inductive, and the *)
(* scheme implements SafeReclaim.                                          *)
(*                                                                         *)
(* The first part looks at one thread at a time: every step keeps the      *)
(* types, and every step keeps the pointers of every thread in agreement   *)
(* with the decrements it still owes.  The second part counts: the counter *)
(* of a batch against the threads that owe it a decrement, and the grace   *)
(* of a batch against the slots it is in.                                  *)
(***************************************************************************)
EXTENDS Hyaline1, HyalineLemmas, FiniteSetTheorems

-----------------------------------------------------------------------------
(* What the pointers of a thread in the middle of a call lead to.          *)

\* The assumptions on the constants as the lemmas about words need them.
LEMMA Constants ==
    /\ Mod \in Nat \ {0} /\ NumThreads \in Nat \ {0} /\ NumThreads < Mod
    /\ NULL \notin Batches
    /\ 0 \in Threads /\ 0 \in Word /\ MinusOne \in Word /\ 1 \in Word
BY Hyaline1Assumption DEF Threads, Word, MinusOne

\* traverse is about to read the next node: the null pointer is the end.
LEMMA ReadsTodo ==
    ASSUME TypeOK, ThreadInv, NEW t \in Threads, pc[t] = "travRead"
    PROVE  /\ walk[t].nxt = NULL => todo[t] = <<>>
           /\ walk[t].nxt # NULL => /\ todo[t] # <<>>
                                    /\ walk[t].nxt = todo[t][1]
                                    /\ walk[t].nxt \in Batches
<1> DEFINE n == walk[t].nxt
           e == walk[t].end
<1>1. Chain(next, t, todo[t], n, e) /\ todo[t] \in Seq(Batches)
  BY DEF ThreadInv, ThreadOK, ChainOK, TypeOK
<1> HIDE DEF n, e
<1>2. todo[t] # <<>> => n = todo[t][1] /\ n \in Batches
  BY <1>1, ChainTail, Constants
<1>3. todo[t] = <<>> => n = NULL
  BY <1>1 DEF Chain
<1> QED
  BY <1>2, <1>3, Constants DEF n

\* traverse is about to decrement the first batch it still has to come to.
LEMMA DropsTodo ==
    ASSUME TypeOK, ThreadInv, NEW t \in Threads, pc[t] = "travDrop"
    PROVE  /\ todo[t] # <<>> /\ todo[t] \in Seq(Batches)
           /\ walk[t].curr = todo[t][1] /\ walk[t].curr \in Batches
           /\ Tail(todo[t]) \in Seq(Batches)
           /\ IF walk[t].curr = walk[t].end
              THEN Tail(todo[t]) = <<>>
              ELSE Chain(next, t, Tail(todo[t]), walk[t].nxt, walk[t].end)
<1> DEFINE c == walk[t].curr
           n == walk[t].nxt
           e == walk[t].end
<1>1. /\ Chain(next, t, todo[t], c, e)
      /\ todo[t] \in Seq(Batches) /\ todo[t] # <<>>
      /\ n = next[c][t]
  BY DEF ThreadInv, ThreadOK, ChainOK, TypeOK
<1>2. Tail(todo[t]) \in Seq(Batches)
  BY <1>1, TailFacts
<1> HIDE DEF c, n, e
<1>3. /\ c = todo[t][1] /\ c \in Batches
      /\ c = e => Tail(todo[t]) = <<>>
      /\ c # e => Chain(next, t, Tail(todo[t]), next[c][t], e)
  BY <1>1, ChainTail, Constants
<1>4. c # e => Chain(next, t, Tail(todo[t]), n, e)
  BY <1>1, <1>3
<1> QED
  BY <1>1, <1>2, <1>3, <1>4 DEF c, n, e

\* trim found a new head: it is the first batch held, the rest is what trim
\* has to acknowledge.
LEMMA TrimsHeld ==
    ASSUME TypeOK, ThreadInv, NEW t \in Threads, t \in active, head[t].ptr # smr[t]
    PROVE  /\ held[t] # <<>> /\ held[t] \in Seq(Batches)
           /\ head[t].ptr = held[t][1] /\ head[t].ptr \in Batches
           /\ Tail(held[t]) \in Seq(Batches)
           /\ Chain(next, t, Tail(held[t]), next[head[t].ptr][t], smr[t])
<1> DEFINE h == head[t].ptr
<1>1. Chain(next, t, held[t], h, smr[t]) /\ held[t] \in Seq(Batches) /\ h # smr[t]
  BY DEF ThreadInv, ThreadOK, ChainOK, TypeOK
<1> HIDE DEF h
<1>2. held[t] # <<>>
  BY <1>1 DEF Chain
<1>3. Tail(held[t]) \in Seq(Batches)
  BY <1>1, <1>2, TailFacts
<1>4. /\ h = held[t][1] /\ h \in Batches
      /\ Chain(next, t, Tail(held[t]), next[h][t], smr[t])
  BY <1>1, <1>2, ChainTail, Constants
<1> QED
  BY <1>1, <1>2, <1>3, <1>4 DEF h

\* A retirement under way is one of a batch.
LEMMA RetiresBatch ==
    ASSUME TypeOK, ThreadInv, NEW t \in Threads,
           pc[t] \in {"retireLoad", "retireCas", "retireFinish"}
    PROVE  batch[t] \in Batches /\ Retiring(t, batch[t])
BY DEF TypeOK, ThreadInv, ThreadOK, ControlOK, Retiring, Ptr

-----------------------------------------------------------------------------
(* Types.                                                                  *)

\* The members of the types that the actions assign.
LEMMA Members ==
    /\ "idle" \in Labels /\ "leaveSwap" \in Labels /\ "trimRead" \in Labels
    /\ "travRead" \in Labels /\ "travDrop" \in Labels /\ "retireLoad" \in Labels
    /\ "retireCas" \in Labels /\ "retireFinish" \in Labels /\ "free" \in Labels
    /\ "reenter" \in Labels
    /\ "none" \in Ops /\ "leave" \in Ops /\ "trim" \in Ops /\ "nested" \in Ops
    /\ "trimLeft" \in Ops /\ "retire" \in Ops
    /\ NULL \in Ptr /\ \A b \in Batches : b \in Ptr
    /\ NoWalk \in Walk
    /\ \A c, n, e \in Ptr : [curr |-> c, nxt |-> n, end |-> e] \in Walk
    /\ \A w \in Walk : w.curr \in Ptr /\ w.nxt \in Ptr /\ w.end \in Ptr
    /\ Off \in HeadWord
    /\ \A p \in Ptr : [on |-> TRUE, ptr |-> p] \in HeadWord
    /\ \A h \in HeadWord : h.ptr \in Ptr /\ h.on \in BOOLEAN
    /\ <<>> \in Seq(Batches)
BY DEF Labels, Ops, Ptr, NoWalk, Walk, Off, HeadWord

\* The next slot, while there is one.
LEMMA SlotAfter ==
    /\ 0 \in Threads
    /\ \A s \in Threads : s + 1 < NumThreads => s + 1 \in Threads
BY Constants DEF Threads

LEMMA TypeInit == Init => TypeOK
BY Constants, Members, SlotAfter DEF Init, TypeOK

LEMMA AdjustType ==
    ASSUME TypeOK, NEW t \in Threads, NEW b \in Batches, NEW v \in Word,
           AdjustRefs(t, b, v)
    PROVE  refs' \in [Batches -> Word] /\ list' \in [Threads -> SUBSET Batches]
<1>1. AddW(refs[b], v) \in Word
  BY Constants, WordClosed DEF TypeOK
<1> QED
  BY <1>1 DEF AdjustRefs, TypeOK

LEMMA ReturnType ==
    ASSUME TypeOK, NEW t \in Threads, Return(t)
    PROVE  /\ op' \in [Threads -> Ops] /\ walk' \in [Threads -> Walk]
           /\ outer' \in [Threads -> Walk] /\ thr' \in [Threads -> Nat]
           /\ later' \in [Threads -> Seq(Batches)] /\ pc' \in [Threads -> Labels]
<1>1. /\ "trimLeft" \in Ops /\ NoWalk \in Walk /\ <<>> \in Seq(Batches)
      /\ "free" \in Labels /\ "travRead" \in Labels
  BY Members
<1>2. op' \in [Threads -> Ops]
  <2>1. op \in [Threads -> Ops] /\ (op' = op \/ op' = [op EXCEPT ![t] = "trimLeft"])
    BY DEF TypeOK, Return
  <2> QED
    BY <1>1, <2>1
<1>3. walk' \in [Threads -> Walk]
  <2>1. /\ walk \in [Threads -> Walk] /\ outer[t] \in Walk
        /\ \/ walk' = [walk EXCEPT ![t] = outer[t]]
           \/ walk' = [walk EXCEPT ![t] = NoWalk]
    BY DEF TypeOK, Return
  <2> QED
    BY <1>1, <2>1
<1>4. outer' \in [Threads -> Walk]
  <2>1. /\ outer \in [Threads -> Walk]
        /\ outer' = outer \/ outer' = [outer EXCEPT ![t] = NoWalk]
    BY DEF TypeOK, Return
  <2> QED
    BY <1>1, <2>1
<1>5. thr' \in [Threads -> Nat]
  <2>1. thr \in [Threads -> Nat] /\ (thr' = thr \/ thr' = [thr EXCEPT ![t] = 0])
    BY DEF TypeOK, Return
  <2> QED
    BY <2>1
<1>6. later' \in [Threads -> Seq(Batches)]
  <2>1. /\ later \in [Threads -> Seq(Batches)]
        /\ later' = later \/ later' = [later EXCEPT ![t] = <<>>]
    BY DEF TypeOK, Return
  <2> QED
    BY <1>1, <2>1
<1>7. pc' \in [Threads -> Labels]
  <2>1. \E l \in {"free", "travRead"} : pc' = [pc EXCEPT ![t] = l]
    BY DEF Return, Goto
  <2>2. pc \in [Threads -> Labels]
    BY DEF TypeOK
  <2> QED
    BY <1>1, <2>1, <2>2
<1> QED
  BY <1>2, <1>3, <1>4, <1>5, <1>6, <1>7

LEMMA NextSlotType ==
    ASSUME TypeOK, NEW t \in Threads, NextSlot(t)
    PROVE  slot' \in [Threads -> Threads] /\ pc' \in [Threads -> Labels]
<1>1. \/ slot' = slot
      \/ slot[t] + 1 \in Threads /\ slot' = [slot EXCEPT ![t] = slot[t] + 1]
  <2>1. slot[t] \in Threads
    BY DEF TypeOK
  <2> QED
    BY <2>1, SlotAfter DEF NextSlot
<1>2. slot' \in [Threads -> Threads]
  BY <1>1 DEF TypeOK
<1>3. \E l \in Labels : pc' = [pc EXCEPT ![t] = l]
  BY Members DEF NextSlot, Goto
<1> QED
  BY <1>2, <1>3 DEF TypeOK

LEMMA TypeStep ==
    ASSUME TypeOK, ThreadInv, [Next]_vars
    PROVE  TypeOK'
<1> USE Constants, Members
<1>1. CASE UNCHANGED vars
  BY <1>1 DEF TypeOK, vars
<1>2. ASSUME NEW t \in Threads, Enter(t) \/ Reenter(t) PROVE TypeOK'
  <2>1. /\ head' \in [Threads -> HeadWord] /\ smr' \in [Threads -> Ptr]
        /\ active' \in SUBSET Threads
    <3>1. EnterSlot(t)
      BY <1>2 DEF Enter, Reenter
    <3> QED
      BY <3>1 DEF TypeOK, EnterSlot
  <2>2. pc' \in [Threads -> Labels]
    BY <1>2 DEF TypeOK, Enter, Reenter, Goto
  <2>3. UNCHANGED <<next, refs, status, grace, held, todo, later, op, walk, outer,
                    thr, list, batch, slot, adjs, last>>
    BY <1>2 DEF Enter, Reenter, history, walkLocals, retireLocals
  <2> QED
    BY <2>1, <2>2, <2>3 DEF TypeOK
<1>3. ASSUME NEW t \in Threads, Leave(t) \/ NestedLeave(t) PROVE TypeOK'
  <2>1. LeaveBegin(t)
    BY <1>3 DEF Leave, NestedLeave
  <2>2. op' \in [Threads -> Ops]
    BY <1>3, <2>1 DEF Leave, NestedLeave, TypeOK
  <2>3. /\ head' \in [Threads -> HeadWord] /\ active' \in SUBSET Threads
        /\ grace' \in [Batches -> SUBSET Threads]
    BY <2>1 DEF TypeOK, LeaveBegin, Released
  <2>4. /\ held' \in [Threads -> Seq(Batches)] /\ todo' \in [Threads -> Seq(Batches)]
        /\ walk' \in [Threads -> Walk] /\ pc' \in [Threads -> Labels]
    <3>1. [curr |-> NULL, nxt |-> head[t].ptr, end |-> smr[t]] \in Walk
      BY DEF TypeOK, HeadWord, Walk
    <3> QED
      BY <2>1, <3>1 DEF TypeOK, LeaveBegin, Goto
  <2>5. UNCHANGED <<next, refs, status, later, smr, outer, thr, list, batch, slot,
                    adjs, last>>
    BY <2>1 DEF LeaveBegin, retireLocals
  <2> QED
    BY <2>2, <2>3, <2>4, <2>5 DEF TypeOK
<1>4. ASSUME NEW t \in Threads, TravRead(t) PROVE TypeOK'
  <2>1. CASE walk[t].nxt = NULL
    <3>1. Return(t) /\ todo' \in [Threads -> Seq(Batches)]
      <4>1. /\ Return(t)
            /\ todo' = [todo EXCEPT ![t] = TodoAfterReturn(t, todo[t])]
        BY <1>4, <2>1 DEF TravRead
      <4>2. todo \in [Threads -> Seq(Batches)] /\ later \in [Threads -> Seq(Batches)]
        BY DEF TypeOK
      <4>3. TodoAfterReturn(t, todo[t]) \in Seq(Batches)
        BY <4>2 DEF TodoAfterReturn
      <4> QED
        BY <4>1, <4>2, <4>3
    <3> QED
      BY <1>4, <3>1, ReturnType DEF TypeOK, TravRead, shared, client, retireLocals
  <2>2. CASE walk[t].nxt # NULL
    <3>1. walk[t].nxt \in Batches
      BY <1>4, <2>2, ReadsTodo DEF TravRead
    <3>2. walk' \in [Threads -> Walk] /\ pc' \in [Threads -> Labels]
      <4>1. [curr |-> walk[t].nxt, nxt |-> next[walk[t].nxt][t],
             end |-> walk[t].end] \in Walk
        BY <3>1 DEF TypeOK
      <4>2. /\ walk' = [walk EXCEPT ![t] = [curr |-> walk[t].nxt,
                             nxt |-> next[walk[t].nxt][t], end |-> walk[t].end]]
            /\ Goto(t, "travDrop")
        BY <1>4, <2>2 DEF TravRead
      <4> QED
        BY <4>1, <4>2 DEF TypeOK, Goto
    <3>3. UNCHANGED <<head, next, refs, active, status, grace, held, todo, later, op,
                      smr, outer, thr, list, batch, slot, adjs, last>>
      BY <1>4, <2>2 DEF TravRead, shared, client, retireLocals
    <3> QED
      BY <3>2, <3>3 DEF TypeOK
  <2> QED
    BY <2>1, <2>2
<1>5. ASSUME NEW t \in Threads, TravDrop(t) PROVE TypeOK'
  <2>1. walk[t].curr \in Batches /\ Tail(todo[t]) \in Seq(Batches)
    BY <1>5, DropsTodo DEF TravDrop
  <2>2. refs' \in [Batches -> Word] /\ list' \in [Threads -> SUBSET Batches]
    BY <1>5, <2>1, AdjustType DEF TravDrop
  <2>3. /\ op' \in [Threads -> Ops] /\ walk' \in [Threads -> Walk]
        /\ outer' \in [Threads -> Walk] /\ thr' \in [Threads -> Nat]
        /\ later' \in [Threads -> Seq(Batches)] /\ pc' \in [Threads -> Labels]
        /\ todo' \in [Threads -> Seq(Batches)]
    <3>1. CASE Flushes(t, walk[t].curr)
      <4>1. /\ op' = [op EXCEPT ![t] = "nested"]
            /\ outer' = [outer EXCEPT ![t] = walk[t]]
            /\ walk' = [walk EXCEPT ![t] = NoWalk]
            /\ later' = [later EXCEPT ![t] = Tail(todo[t])]
            /\ todo' = [todo EXCEPT ![t] = <<>>]
            /\ pc' = [pc EXCEPT ![t] = "leaveSwap"]
            /\ thr' = thr
        BY <1>5, <3>1 DEF TravDrop, Goto
      <4> QED
        BY <2>1, <4>1 DEF TypeOK
    <3>2. CASE ~Flushes(t, walk[t].curr) /\ walk[t].curr # walk[t].end
      <4>1. /\ todo' = [todo EXCEPT ![t] = Tail(todo[t])]
            /\ pc' = [pc EXCEPT ![t] = "travRead"]
            /\ UNCHANGED <<op, walk, outer, thr, later>>
        BY <1>5, <3>2 DEF TravDrop, Goto, Return, Flushes
      <4> QED
        BY <2>1, <4>1 DEF TypeOK
    <3>3. CASE ~Flushes(t, walk[t].curr) /\ walk[t].curr = walk[t].end
      <4>1. Return(t) /\ todo' = [todo EXCEPT ![t] = TodoAfterReturn(t, Tail(todo[t]))]
        BY <1>5, <3>3 DEF TravDrop
      <4>2. todo' \in [Threads -> Seq(Batches)]
        BY <2>1, <4>1 DEF TypeOK, TodoAfterReturn
      <4> QED
        BY <4>1, <4>2, ReturnType
    <3> QED
      BY <3>1, <3>2, <3>3
  <2> QED
    BY <1>5, <2>2, <2>3 DEF TravDrop, TypeOK, client, retireLocals
<1>6. ASSUME NEW t \in Threads, TrimNothing(t) PROVE TypeOK'
  BY <1>6 DEF TypeOK, TrimNothing, Released, shared, history, walkLocals, retireLocals
<1>7. ASSUME NEW t \in Threads, NEW th \in TrimThresholds, TrimBegin(t, th)
      PROVE TypeOK'
  <2>1. /\ head[t].ptr \in Batches /\ Tail(held[t]) \in Seq(Batches)
        /\ <<head[t].ptr>> \in Seq(Batches)
        /\ th \in Nat
    BY <1>7, TrimsHeld, Hyaline1Assumption DEF TrimBegin
  <2> QED
    BY <1>7, <2>1 DEF TypeOK, TrimBegin, Released, Goto, shared, retireLocals
<1>8. ASSUME NEW t \in Threads, TrimRead(t) PROVE TypeOK'
  <2>1. smr[t] \in Batches
    BY <1>8 DEF TrimRead, TypeOK, ThreadInv, ThreadOK, ChainOK, Ptr
  <2>2. [curr |-> NULL, nxt |-> next[smr[t]][t], end |-> walk[t].end] \in Walk
    BY <2>1 DEF TypeOK
  <2> QED
    BY <1>8, <2>2 DEF TypeOK, TrimRead, Goto, shared, client, history, retireLocals
<1>9. ASSUME NEW t \in Threads, NEW b \in Batches, Retire(t, b) PROVE TypeOK'
  BY <1>9 DEF TypeOK, Retire, Goto, history, walkLocals
<1>10. ASSUME NEW t \in Threads, RetireLoad(t) \/ InsertFails(t) PROVE TypeOK'
  <2>1. TrySlot(t, head[slot[t]]) /\ head[slot[t]] \in HeadWord
    BY <1>10 DEF RetireLoad, InsertFails, TypeOK
  <2>2. slot' \in [Threads -> Threads] /\ pc' \in [Threads -> Labels]
    <3>1. CASE NextSlot(t)
      BY <3>1, NextSlotType
    <3>2. CASE slot' = slot /\ Goto(t, "retireCas")
      BY <3>2 DEF TypeOK, Goto
    <3> QED
      BY <2>1, <3>1, <3>2 DEF TrySlot
  <2>3. last' \in [Threads -> HeadWord]
    BY <2>1 DEF TypeOK, TrySlot
  <2>4. UNCHANGED <<head, next, refs, active, status, grace, held, todo, later, op,
                    smr, walk, outer, thr, list, batch, adjs>>
    BY <1>10 DEF RetireLoad, InsertFails, shared, client, history, walkLocals
  <2> QED
    BY <2>2, <2>3, <2>4 DEF TypeOK
<1>11. ASSUME NEW t \in Threads, Insert(t) PROVE TypeOK'
  <2>1. batch[t] \in Batches
    BY <1>11, RetiresBatch DEF Insert
  <2>2. /\ slot[t] \in Threads /\ adjs[t] \in Word
        /\ <<batch[t]>> \o held[slot[t]] \in Seq(Batches)
        /\ AddW(adjs[t], 1) \in Word
    BY <2>1, ConsFacts, WordClosed DEF TypeOK
  <2>3. slot' \in [Threads -> Threads] /\ pc' \in [Threads -> Labels]
    BY <1>11, NextSlotType DEF Insert
  <2>4. head' \in [Threads -> HeadWord] /\ next' \in [Batches -> [Threads -> Ptr]]
    BY <1>11, <2>1, <2>2 DEF Insert, TypeOK
  <2> QED
    BY <1>11, <2>2, <2>3, <2>4 DEF TypeOK, Insert, client, walkLocals
<1>12. ASSUME NEW t \in Threads, RetireFinish(t) PROVE TypeOK'
  <2>1. batch[t] \in Batches /\ adjs[t] \in Word
    BY <1>12, RetiresBatch DEF RetireFinish, TypeOK
  <2>2. refs' \in [Batches -> Word] /\ list' \in [Threads -> SUBSET Batches]
    BY <1>12, <2>1, AdjustType DEF RetireFinish
  <2> QED
    BY <1>12, <2>2 DEF TypeOK, RetireFinish, Goto, client, history, walkLocals, retireLocals
<1>13. ASSUME NEW t \in Threads, NEW b \in Batches, Free(t, b) PROVE TypeOK'
  BY <1>13 DEF TypeOK, Free, shared, history, walkLocals, retireLocals
<1>14. ASSUME NEW t \in Threads, EndCall(t) PROVE TypeOK'
  BY <1>14 DEF TypeOK, EndCall, Goto, shared, client, history
<1>15. ASSUME NEW b \in Batches, Alloc(b) PROVE TypeOK'
  BY <1>15 DEF TypeOK, Alloc, history, walkLocals, retireLocals
<1> QED
  BY <1>1, <1>2, <1>3, <1>4, <1>5, <1>6, <1>7, <1>8, <1>9, <1>10, <1>11, <1>12,
     <1>13, <1>14, <1>15 DEF Next, Call, Step, Trim

-----------------------------------------------------------------------------
(* A thread moves on its own words and locals; only Insert reaches into    *)
(* the slot of another one.                                                *)

\* What no step of t changes for another thread u.
Kept(u) ==
    /\ pc'[u] = pc[u] /\ op'[u] = op[u] /\ smr'[u] = smr[u] /\ walk'[u] = walk[u]
    /\ outer'[u] = outer[u] /\ thr'[u] = thr[u] /\ list'[u] = list[u]
    /\ batch'[u] = batch[u] /\ slot'[u] = slot[u] /\ adjs'[u] = adjs[u]
    /\ last'[u] = last[u] /\ todo'[u] = todo[u] /\ later'[u] = later[u]
    /\ u \in active' <=> u \in active

LEMMA KeptByReturn ==
    ASSUME TypeOK, NEW t \in Threads, NEW u \in Threads, u # t, Return(t)
    PROVE  /\ pc'[u] = pc[u] /\ op'[u] = op[u] /\ walk'[u] = walk[u]
           /\ outer'[u] = outer[u] /\ thr'[u] = thr[u] /\ later'[u] = later[u]
BY DEF Return, Goto, TypeOK

LEMMA KeptByOthers ==
    ASSUME TypeOK, NEW t \in Threads, NEW u \in Threads, u # t, Call(t) \/ Step(t)
    PROVE  Kept(u)
<1> USE DEF Kept, TypeOK, Goto, history, walkLocals, retireLocals, client, shared
<1>1. ASSUME Enter(t) \/ Reenter(t) PROVE Kept(u)
  BY <1>1 DEF Enter, Reenter, EnterSlot
<1>2. ASSUME Leave(t) \/ NestedLeave(t) PROVE Kept(u)
  BY <1>2 DEF Leave, NestedLeave, LeaveBegin
<1>3. ASSUME TravRead(t) PROVE Kept(u)
  BY <1>3, KeptByReturn DEF TravRead
<1>4. ASSUME TravDrop(t) PROVE Kept(u)
  BY <1>4, KeptByReturn DEF TravDrop, AdjustRefs
<1>5. ASSUME TrimNothing(t) PROVE Kept(u)
  BY <1>5 DEF TrimNothing
<1>6. ASSUME NEW th \in TrimThresholds, TrimBegin(t, th) PROVE Kept(u)
  BY <1>6 DEF TrimBegin
<1>7. ASSUME TrimRead(t) PROVE Kept(u)
  BY <1>7 DEF TrimRead
<1>8. ASSUME NEW b \in Batches, Retire(t, b) PROVE Kept(u)
  BY <1>8 DEF Retire
<1>9. ASSUME RetireLoad(t) \/ InsertFails(t) PROVE Kept(u)
  <2>1. UNCHANGED <<shared, client, history, op, smr, walkLocals, list, batch, adjs>>
    BY <1>9 DEF RetireLoad, InsertFails
  <2>2. TrySlot(t, head[slot[t]])
    BY <1>9 DEF RetireLoad, InsertFails
  <2>3. /\ \E l \in Labels : pc' = [pc EXCEPT ![t] = l]
        /\ slot' = slot \/ slot' = [slot EXCEPT ![t] = slot[t] + 1]
        /\ last' = last \/ last' = [last EXCEPT ![t] = head[slot[t]]]
    <3>1. CASE NextSlot(t) /\ UNCHANGED last
      BY <3>1, Members DEF NextSlot
    <3>2. CASE /\ last' = [last EXCEPT ![t] = head[slot[t]]]
               /\ Goto(t, "retireCas") /\ UNCHANGED slot
      BY <3>2, Members
    <3> QED
      BY <2>2, <3>1, <3>2 DEF TrySlot
  <2>4. pc'[u] = pc[u]
    BY <2>3
  <2>5. slot'[u] = slot[u]
    BY <2>3
  <2>6. last'[u] = last[u]
    BY <2>3
  <2> QED
    BY <2>1, <2>4, <2>5, <2>6
<1>10. ASSUME Insert(t) PROVE Kept(u)
  BY <1>10 DEF Insert, NextSlot
<1>11. ASSUME RetireFinish(t) PROVE Kept(u)
  BY <1>11 DEF RetireFinish, AdjustRefs
<1>12. ASSUME NEW b \in Batches, Free(t, b) PROVE Kept(u)
  BY <1>12 DEF Free
<1>13. ASSUME EndCall(t) PROVE Kept(u)
  BY <1>13 DEF EndCall
<1> HIDE DEF Kept, TypeOK
<1> QED
  BY <1>1, <1>2, <1>3, <1>4, <1>5, <1>6, <1>7, <1>8, <1>9, <1>10, <1>11, <1>12,
     <1>13 DEF Call, Step, Trim

\* The slot of u, and the links between the batches that u owes, stay.
SlotKept(u) ==
    /\ head'[u] = head[u] /\ held'[u] = held[u]
    /\ \A b \in Batches : Owes(u, b) => next'[b][u] = next[b][u]

\* What most steps leave behind: t owes the same decrements, and its pointers
\* still lead to them.
Settled(t) == ThreadOK(t)' /\ \A b : Owes(t, b)' <=> Owes(t, b)

\* A call that walks a list keeps its way while the links it depends on stay.
LEMMA WalksKept ==
    ASSUME TypeOK, ThreadInv, NEW u \in Threads,
           \A b \in Batches : Owes(u, b) => next'[b][u] = next[b][u],
           \A b : InSeq(b, held[u]) => InSeq(b, held[u])',
           pc'[u] = pc[u] \/ pc'[u] \notin {"trimRead", "travRead", "travDrop"},
           op'[u] = op[u], smr'[u] = smr[u], walk'[u] = walk[u],
           outer'[u] = outer[u], todo'[u] = todo[u], later'[u] = later[u],
           (u \in active => Chain(next, u, held[u], head[u].ptr, smr[u]))'
    PROVE  ChainOK(u)'
<1>1. ChainOK(u)
  BY DEF ThreadInv, ThreadOK
<1>2. /\ held[u] \in Seq(Batches) /\ todo[u] \in Seq(Batches)
      /\ later[u] \in Seq(Batches)
  BY DEF TypeOK
<1>3. /\ \A b : InSeq(b, held[u]) => next'[b][u] = next[b][u]
      /\ \A b : InSeq(b, todo[u]) => next'[b][u] = next[b][u]
      /\ \A b : InSeq(b, later[u]) => next'[b][u] = next[b][u]
  BY <1>2, ElementOfSeq DEF Owes, InSeq
<1>4. /\ \A p, e : Chain(next, u, todo[u], p, e) => Chain(next', u, todo[u], p, e)
      /\ \A p, e : Chain(next, u, later[u], p, e) => Chain(next', u, later[u], p, e)
  BY <1>2, <1>3, ChainFrame
<1>5. ASSUME pc'[u] = "trimRead"
      PROVE  /\ smr[u]' # NULL /\ InSeq(smr[u], held[u])'
             /\ Chain(next, u, todo[u], next[smr[u]][u], walk[u].end)'
  <2> DEFINE e == walk[u].end
             n == next[smr[u]][u]
  <2>1. /\ smr[u] # NULL /\ InSeq(smr[u], held[u])
        /\ Chain(next, u, todo[u], n, e)
    BY <1>1, <1>5 DEF ChainOK
  <2>2. n' = n /\ e' = e /\ InSeq(smr[u], held[u])'
    BY <1>3, <2>1
  <2> HIDE DEF n, e
  <2>3. Chain(next', u, todo[u], n, e)
    BY <1>4, <2>1
  <2>4. Chain(next, u, todo[u], n, e)'
    BY <2>2, <2>3
  <2> QED
    BY <2>1, <2>2, <2>4 DEF n, e
<1>6. (pc[u] = "travRead" => Chain(next, u, todo[u], walk[u].nxt, walk[u].end))'
  <2> DEFINE n == walk[u].nxt
             e == walk[u].end
  <2>1. pc[u] = "travRead" => Chain(next, u, todo[u], n, e)
    BY <1>1 DEF ChainOK
  <2>2. n' = n /\ e' = e
    OBVIOUS
  <2> HIDE DEF n, e
  <2>3. (pc[u] = "travRead" => Chain(next, u, todo[u], n, e))'
    BY <1>4, <2>1, <2>2
  <2> QED
    BY <2>3 DEF n, e
<1>7. ASSUME pc'[u] = "travDrop"
      PROVE  /\ todo[u]' # <<>>
             /\ Chain(next, u, todo[u], walk[u].curr, walk[u].end)'
             /\ (walk[u].nxt = next[walk[u].curr][u])'
  <2> DEFINE c == walk[u].curr
             n == walk[u].nxt
             e == walk[u].end
  <2>1. todo[u] # <<>> /\ Chain(next, u, todo[u], c, e) /\ n = next[c][u]
    BY <1>1, <1>7 DEF ChainOK
  <2>2. n' = n /\ e' = e /\ c' = c
    OBVIOUS
  <2>3. InSeq(c, todo[u])
    BY <1>7, DropsTodo, TailFacts DEF InSeq
  <2> HIDE DEF c, n, e
  <2>4. Chain(next, u, todo[u], c, e)'
    BY <1>4, <2>1, <2>2
  <2>5. n' = next'[c'][u]
    BY <1>3, <2>1, <2>2, <2>3
  <2> QED
    BY <2>1, <2>4, <2>5 DEF c, n, e
<1>8. (op[u] = "nested" =>
          IF outer[u].curr = outer[u].end THEN later[u] = <<>>
          ELSE Chain(next, u, later[u], outer[u].nxt, outer[u].end))'
  <2> DEFINE c == outer[u].curr
             n == outer[u].nxt
             e == outer[u].end
  <2>1. op[u] = "nested" =>
          IF c = e THEN later[u] = <<>> ELSE Chain(next, u, later[u], n, e)
    BY <1>1 DEF ChainOK
  <2>2. n' = n /\ e' = e /\ c' = c
    OBVIOUS
  <2> HIDE DEF c, n, e
  <2>3. (op[u] = "nested" =>
          IF c = e THEN later[u] = <<>> ELSE Chain(next, u, later[u], n, e))'
    BY <1>4, <2>1, <2>2
  <2> QED
    BY <2>3 DEF c, n, e
<1> QED
  BY <1>5, <1>6, <1>7, <1>8 DEF ChainOK

\* A step that changes neither the locals of u nor its slot keeps all that
\* is said of u.
LEMMA Untouched ==
    ASSUME TypeOK, ThreadInv, NEW u \in Threads, Kept(u), SlotKept(u)
    PROVE  Settled(u)
<1>1. SlotOK(u) /\ ControlOK(u) /\ ChainOK(u) /\ OnceOK(u)
  BY DEF ThreadInv, ThreadOK
<1>2. \A b : Owes(u, b)' <=> Owes(u, b)
  BY DEF Kept, SlotKept, Owes
<1>3. SlotOK(u)'
  BY <1>1 DEF SlotOK, Kept, SlotKept
<1>4. ControlOK(u)'
  BY <1>1 DEF ControlOK, Kept
<1>5. OnceOK(u)'
  BY <1>1 DEF OnceOK, Kept, SlotKept
<1>6. (u \in active => Chain(next, u, held[u], head[u].ptr, smr[u]))'
  <2> DEFINE p == head[u].ptr
  <2>1. u \in active => Chain(next, u, held[u], p, smr[u])
    BY <1>1 DEF ChainOK
  <2>2. p' = p
    BY DEF SlotKept
  <2>3. held[u] \in Seq(Batches)
        /\ \A b : InSeq(b, held[u]) => next'[b][u] = next[b][u]
    <3>1. held[u] \in Seq(Batches)
      BY DEF TypeOK
    <3> QED
      BY <3>1, ElementOfSeq DEF SlotKept, Owes, InSeq
  <2> HIDE DEF p
  <2>4. u \in active => Chain(next', u, held[u], p, smr[u])
    BY <2>1, <2>3, ChainFrame
  <2>5. (u \in active => Chain(next, u, held[u], p, smr[u]))'
    BY <2>2, <2>4 DEF Kept, SlotKept
  <2> QED
    BY <2>5 DEF p
<1>7. ChainOK(u)'
  BY <1>6, WalksKept DEF Kept, SlotKept
<1> QED
  BY <1>2, <1>3, <1>4, <1>5, <1>7 DEF Settled, ThreadOK

-----------------------------------------------------------------------------
(* What every action does to the thread that takes it.                     *)

LEMMA EnterSettled ==
    ASSUME TypeOK, ThreadInv, NEW t \in Threads, Enter(t) \/ Reenter(t)
    PROVE  Settled(t)
<1>1. /\ SlotOK(t) /\ ControlOK(t) /\ ChainOK(t) /\ OnceOK(t)
      /\ held[t] = <<>> /\ pc[t] \in {"idle", "reenter"} /\ t \notin active
      /\ op[t] = "none"
  BY DEF ThreadInv, ThreadOK, SlotOK, ControlOK, Enter, Reenter
<1>2. /\ head'[t] = [on |-> TRUE, ptr |-> NULL] /\ smr'[t] = NULL
      /\ active' = active \union {t} /\ pc'[t] = "idle"
      /\ UNCHANGED <<next, held, todo, later, op, list, batch, last, walk, outer>>
  <2>1. EnterSlot(t)
    BY DEF Enter, Reenter
  <2>2. /\ head'[t] = [on |-> TRUE, ptr |-> NULL] /\ smr'[t] = NULL
        /\ active' = active \union {t}
    BY <2>1 DEF EnterSlot, TypeOK
  <2>3. pc'[t] = "idle"
    BY <1>1 DEF Enter, Reenter, Goto, TypeOK
  <2>4. UNCHANGED <<next, held, todo, later, op, list, batch, last, walk, outer>>
    BY DEF Enter, Reenter, history, walkLocals, retireLocals
  <2> QED
    BY <2>2, <2>3, <2>4
<1>3. SlotOK(t)'
  BY <1>1, <1>2 DEF SlotOK
<1>4. ControlOK(t)'
  BY <1>1, <1>2 DEF ControlOK
<1>5. ChainOK(t)'
  BY <1>1, <1>2 DEF ChainOK, Chain
<1>6. OnceOK(t)' /\ \A b : Owes(t, b)' <=> Owes(t, b)
  BY <1>1, <1>2 DEF OnceOK, Owes
<1> QED
  BY <1>3, <1>4, <1>5, <1>6 DEF Settled, ThreadOK

LEMMA LeaveSettled ==
    ASSUME TypeOK, ThreadInv, NEW t \in Threads, Leave(t) \/ NestedLeave(t)
    PROVE  Settled(t)
<1> DEFINE h == head[t].ptr
<1>1. /\ SlotOK(t) /\ ControlOK(t) /\ ChainOK(t) /\ OnceOK(t)
      /\ t \in active /\ pc[t] \in {"idle", "leaveSwap"} /\ todo[t] = <<>>
      /\ op[t] # "nested" => later[t] = <<>>
      /\ \/ pc[t] = "idle" /\ op'[t] = "leave" /\ op[t] = "none"
         \/ pc[t] = "leaveSwap" /\ op'[t] = "nested" /\ op[t] = "nested"
  <2>1. SlotOK(t) /\ ControlOK(t) /\ ChainOK(t) /\ OnceOK(t)
    BY DEF ThreadInv, ThreadOK
  <2>2. CASE Leave(t)
    <3>1. pc[t] = "idle" /\ t \in active /\ op'[t] = "leave"
      BY <2>2 DEF Leave, TypeOK
    <3> QED
      BY <2>1, <3>1 DEF ControlOK
  <2>3. CASE NestedLeave(t)
    <3>1. pc[t] = "leaveSwap" /\ op' = op
      BY <2>3 DEF NestedLeave
    <3> QED
      BY <2>1, <3>1 DEF ControlOK
  <2> QED
    BY <2>1, <2>2, <2>3
<1>2. /\ head'[t] = Off /\ pc'[t] = "travRead" /\ active' = active \ {t}
      /\ walk'[t] = [curr |-> NULL, nxt |-> h, end |-> smr[t]]
      /\ todo'[t] = held[t] /\ held'[t] = <<>>
      /\ UNCHANGED <<next, later, list, batch, last, outer>>
  <2>1. LeaveBegin(t)
    BY DEF Leave, NestedLeave
  <2> QED
    BY <2>1 DEF LeaveBegin, Goto, retireLocals, TypeOK
<1>3. Chain(next, t, held[t], h, smr[t])
  BY <1>1 DEF ChainOK
<1> HIDE DEF h
<1>4. SlotOK(t)'
  BY <1>2 DEF SlotOK, Off
<1>5. ControlOK(t)'
  BY <1>1, <1>2 DEF ControlOK
<1>6. ChainOK(t)'
  <2>1. walk'[t].nxt = h /\ walk'[t].end = smr[t]
    BY <1>2
  <2>2. Chain(next, t, todo[t], walk[t].nxt, walk[t].end)'
    BY <1>2, <1>3, <2>1
  <2>3. (op[t] = "nested" =>
          IF outer[t].curr = outer[t].end THEN later[t] = <<>>
          ELSE Chain(next, t, later[t], outer[t].nxt, outer[t].end))'
    <3>1. CASE op[t] = "nested"
      BY <1>1, <1>2, <3>1 DEF ChainOK
    <3>2. CASE op[t] # "nested"
      BY <1>1, <3>2
    <3> QED
      BY <3>1, <3>2
  <2> QED
    BY <1>2, <2>2, <2>3 DEF ChainOK
<1>7. OnceOK(t)' /\ \A b : Owes(t, b)' <=> Owes(t, b)
  BY <1>1, <1>2, InEmpty DEF OnceOK, Owes, Disjoint
<1> QED
  BY <1>4, <1>5, <1>6, <1>7 DEF Settled, ThreadOK

\* traverse returns when it has come to the last batch it had to come to.
LEMMA ReturnLeaves ==
    ASSUME TypeOK, ThreadInv, NEW t \in Threads, Return(t),
           pc[t] \in {"travRead", "travDrop"},
           todo'[t] = IF op[t] = "nested" THEN later[t] ELSE <<>>,
           UNCHANGED <<next, head, held, active, smr, batch, last>>
    PROVE  /\ ThreadOK(t)'
           /\ \A b : Owes(t, b)' <=> InSeq(b, held[t]) \/ InSeq(b, later[t])
<1>1. SlotOK(t) /\ ControlOK(t) /\ ChainOK(t) /\ OnceOK(t)
  BY DEF ThreadInv, ThreadOK
<1>2. /\ later'[t] = <<>>
      /\ op[t] # "nested" => later[t] = <<>>
      /\ op'[t] = IF op[t] = "nested" THEN "trimLeft" ELSE op[t]
      /\ op[t] = "nested" => walk'[t] = outer[t]
      /\ pc'[t] = IF op[t] = "nested" /\ outer[t].curr # outer[t].end
                  THEN "travRead" ELSE "free"
      /\ op[t] \in {"leave", "trim", "trimLeft", "nested"}
      /\ op[t] = "nested" => t \notin active
  BY <1>1 DEF Return, Goto, TypeOK, ControlOK, Ops
<1>3. SlotOK(t)'
  BY <1>1 DEF SlotOK
<1>4. ControlOK(t)'
  <2>1. op[t] = "nested" /\ outer[t].curr = outer[t].end => later[t] = <<>>
    BY <1>1 DEF ChainOK
  <2> QED
    BY <1>1, <1>2, <2>1 DEF ControlOK
<1>5. ChainOK(t)'
  <2>1. (t \in active => Chain(next, t, held[t], head[t].ptr, smr[t]))'
    BY <1>1 DEF ChainOK
  <2>2. (pc[t] = "travRead" => Chain(next, t, todo[t], walk[t].nxt, walk[t].end))'
    <3>1. SUFFICES ASSUME op[t] = "nested", outer[t].curr # outer[t].end
                   PROVE  Chain(next, t, todo[t], walk[t].nxt, walk[t].end)'
      BY <1>2
    <3>2. Chain(next, t, later[t], outer[t].nxt, outer[t].end)
      BY <1>1, <3>1 DEF ChainOK
    <3> QED
      BY <1>2, <3>1, <3>2
  <2> QED
    BY <1>2, <2>1, <2>2 DEF ChainOK
<1>6. OnceOK(t)' /\ \A b : Owes(t, b)' <=> InSeq(b, held[t]) \/ InSeq(b, later[t])
  BY <1>1, <1>2, InEmpty DEF OnceOK, Owes, Disjoint
<1> QED
  BY <1>3, <1>4, <1>5, <1>6 DEF ThreadOK

LEMMA TravReadSettled ==
    ASSUME TypeOK, ThreadInv, NEW t \in Threads, TravRead(t)
    PROVE  Settled(t)
<1> DEFINE n == walk[t].nxt
           e == walk[t].end
<1>1. /\ SlotOK(t) /\ ControlOK(t) /\ ChainOK(t) /\ OnceOK(t)
      /\ pc[t] = "travRead" /\ Chain(next, t, todo[t], n, e)
  BY DEF ThreadInv, ThreadOK, TravRead, ChainOK
<1>2. UNCHANGED <<next, refs, head, held, active, smr, list, batch, slot, adjs, last>>
  BY DEF TravRead, shared, client, retireLocals
<1>3. CASE walk[t].nxt = NULL
  <2>1. todo[t] = <<>>
    BY <1>1, <1>3, ReadsTodo
  <2>2. Return(t) /\ todo'[t] = IF op[t] = "nested" THEN later[t] ELSE <<>>
    BY <1>3, <2>1 DEF TravRead, TodoAfterReturn, TypeOK
  <2>3. /\ ThreadOK(t)'
        /\ \A b : Owes(t, b)' <=> InSeq(b, held[t]) \/ InSeq(b, later[t])
    BY <1>1, <1>2, <2>2, ReturnLeaves
  <2> QED
    BY <2>1, <2>3, InEmpty DEF Settled, Owes
<1>4. CASE walk[t].nxt # NULL
  <2>1. /\ walk'[t] = [curr |-> n, nxt |-> next[n][t], end |-> e]
        /\ pc'[t] = "travDrop"
        /\ UNCHANGED <<op, outer, todo, later>>
    BY <1>4 DEF TravRead, Goto, TypeOK
  <2>2. todo[t] # <<>>
    BY <1>1, <1>4, ReadsTodo
  <2>3. SlotOK(t)' /\ OnceOK(t)' /\ \A b : Owes(t, b)' <=> Owes(t, b)
    BY <1>1, <1>2, <2>1 DEF SlotOK, OnceOK, Owes
  <2>4. ControlOK(t)'
    BY <1>1, <1>2, <2>1 DEF ControlOK
  <2>5. ChainOK(t)'
    <3>1. (t \in active => Chain(next, t, held[t], head[t].ptr, smr[t]))'
      BY <1>1, <1>2 DEF ChainOK
    <3>2. (op[t] = "nested" =>
            IF outer[t].curr = outer[t].end THEN later[t] = <<>>
            ELSE Chain(next, t, later[t], outer[t].nxt, outer[t].end))'
      BY <1>1, <1>2, <2>1 DEF ChainOK
    <3> HIDE DEF n, e
    <3>3. walk'[t].curr = n /\ walk'[t].end = e /\ walk'[t].nxt = next[n][t]
      BY <2>1
    <3>4. /\ Chain(next, t, todo[t], walk[t].curr, walk[t].end)'
          /\ (walk[t].nxt = next[walk[t].curr][t])'
      BY <1>1, <1>2, <2>1, <3>3
    <3> QED
      BY <1>2, <2>1, <2>2, <3>1, <3>2, <3>4 DEF ChainOK
  <2> QED
    BY <2>3, <2>4, <2>5 DEF Settled, ThreadOK
<1> QED
  BY <1>3, <1>4

\* The one action after which t owes a decrement less.
LEMMA TravDropSettled ==
    ASSUME TypeOK, ThreadInv, NEW t \in Threads, TravDrop(t)
    PROVE  /\ ThreadOK(t)'
           /\ Owes(t, walk[t].curr)
           /\ \A b \in Batches :
                  Owes(t, b)' <=> Owes(t, b) /\ b # walk[t].curr
<1> DEFINE c == walk[t].curr
           e == walk[t].end
           n == walk[t].nxt
           r == Tail(todo[t])
<1>1. /\ SlotOK(t) /\ ControlOK(t) /\ ChainOK(t) /\ OnceOK(t)
      /\ pc[t] = "travDrop"
  BY DEF ThreadInv, ThreadOK, TravDrop
<1>2. UNCHANGED <<next, head, held, active, smr, batch, slot, adjs, last>>
  BY DEF TravDrop, client, retireLocals
<1>3. /\ todo[t] # <<>> /\ todo[t] \in Seq(Batches)
      /\ c = todo[t][1] /\ c \in Batches
      /\ r \in Seq(Batches)
      /\ c = e => r = <<>>
      /\ c # e => Chain(next, t, r, n, e)
  BY <1>1, DropsTodo
<1>4. /\ Distinct(r) /\ ~InSeq(c, r) /\ InSeq(c, todo[t])
      /\ \A b : InSeq(b, todo[t]) <=> b = c \/ InSeq(b, r)
  BY <1>1, <1>3, InTail DEF OnceOK
<1>5. ~InSeq(c, held[t]) /\ ~InSeq(c, later[t])
  BY <1>1, <1>3, <1>4 DEF OnceOK, Disjoint
<1>6. Disjoint(held[t], r) /\ Disjoint(r, later[t])
  BY <1>1, <1>4 DEF OnceOK, Disjoint
<1>7. Owes(t, c)
  BY <1>4 DEF Owes
<1>8. \A b : (InSeq(b, held[t]) \/ InSeq(b, r) \/ InSeq(b, later[t])
                <=> Owes(t, b) /\ b # c)
  BY <1>4, <1>5 DEF Owes
<1>9. (t \in active => Chain(next, t, held[t], head[t].ptr, smr[t]))'
  BY <1>1, <1>2 DEF ChainOK
<1>10. CASE Flushes(t, c)
  <2>1. /\ op'[t] = "nested" /\ outer'[t] = walk[t] /\ later'[t] = r
        /\ todo'[t] = <<>> /\ pc'[t] = "leaveSwap"
        /\ op[t] = "trim"
    BY <1>10 DEF TravDrop, Flushes, Goto, TypeOK
  <2>2. later[t] = <<>> /\ t \in active
    BY <1>1, <2>1 DEF ControlOK
  <2>3. SlotOK(t)'
    BY <1>1, <1>2 DEF SlotOK
  <2>4. ControlOK(t)'
    BY <1>1, <1>2, <2>1, <2>2 DEF ControlOK
  <2>5. OnceOK(t)'
    BY <1>1, <1>2, <1>4, <1>6, <2>1, InEmpty DEF OnceOK
  <2>6. ChainOK(t)'
    <3>1. outer'[t].curr = c /\ outer'[t].end = e /\ outer'[t].nxt = n
      BY <2>1
    <3> HIDE DEF c, n, e, r
    <3>2. (IF outer[t].curr = outer[t].end THEN later[t] = <<>>
           ELSE Chain(next, t, later[t], outer[t].nxt, outer[t].end))'
      BY <1>2, <1>3, <2>1, <3>1
    <3> QED
      BY <1>9, <2>1, <3>2 DEF ChainOK
  <2>7. \A b : Owes(t, b)' <=> Owes(t, b) /\ b # c
    BY <1>2, <1>8, <2>1, <2>2, InEmpty DEF Owes
  <2> QED
    BY <1>7, <2>3, <2>4, <2>5, <2>6, <2>7 DEF ThreadOK
<1>11. CASE ~Flushes(t, c) /\ c # e
  <2>1. /\ todo'[t] = r /\ pc'[t] = "travRead"
        /\ UNCHANGED <<op, walk, outer, later>>
    BY <1>11 DEF TravDrop, Flushes, Goto, TypeOK
  <2>2. SlotOK(t)'
    BY <1>1, <1>2 DEF SlotOK
  <2>3. ControlOK(t)'
    BY <1>1, <1>2, <2>1 DEF ControlOK
  <2>4. OnceOK(t)'
    BY <1>1, <1>2, <1>4, <1>6, <2>1 DEF OnceOK
  <2>5. ChainOK(t)'
    <3>1. (op[t] = "nested" =>
            IF outer[t].curr = outer[t].end THEN later[t] = <<>>
            ELSE Chain(next, t, later[t], outer[t].nxt, outer[t].end))'
      BY <1>1, <1>2, <2>1 DEF ChainOK
    <3>2. walk'[t].end = e /\ walk'[t].nxt = n
      BY <2>1
    <3> HIDE DEF c, n, e, r
    <3>3. Chain(next, t, todo[t], walk[t].nxt, walk[t].end)'
      BY <1>2, <1>3, <1>11, <2>1, <3>2
    <3> QED
      BY <1>9, <2>1, <3>1, <3>3 DEF ChainOK
  <2>6. \A b : Owes(t, b)' <=> Owes(t, b) /\ b # c
    BY <1>2, <1>8, <2>1 DEF Owes
  <2> QED
    BY <1>7, <2>2, <2>3, <2>4, <2>5, <2>6 DEF ThreadOK
<1>12. CASE ~Flushes(t, c) /\ c = e
  <2>1. Return(t) /\ todo'[t] = IF op[t] = "nested" THEN later[t] ELSE r
    BY <1>12 DEF TravDrop, TodoAfterReturn, TypeOK
  <2>2. r = <<>>
    BY <1>3, <1>12
  <2>3. /\ ThreadOK(t)'
        /\ \A b : Owes(t, b)' <=> InSeq(b, held[t]) \/ InSeq(b, later[t])
    BY <1>1, <1>2, <2>1, <2>2, ReturnLeaves
  <2> QED
    BY <1>7, <1>8, <2>2, <2>3, InEmpty
<1> QED
  BY <1>10, <1>11, <1>12

LEMMA TrimBeginSettled ==
    ASSUME TypeOK, ThreadInv, NEW t \in Threads, NEW th \in TrimThresholds,
           TrimBegin(t, th)
    PROVE  Settled(t)
<1> DEFINE h == head[t].ptr
           r == Tail(held[t])
<1>1. /\ SlotOK(t) /\ ControlOK(t) /\ ChainOK(t) /\ OnceOK(t)
      /\ pc[t] = "idle" /\ t \in active /\ h # smr[t]
  BY DEF ThreadInv, ThreadOK, TrimBegin
<1>2. /\ smr'[t] = h /\ op'[t] = "trim" /\ pc'[t] = "trimRead"
      /\ walk'[t].end = smr[t]
      /\ todo'[t] = r /\ held'[t] = <<h>>
      /\ UNCHANGED <<next, head, active, later, outer, list, batch, last>>
  BY DEF TrimBegin, Goto, shared, retireLocals, TypeOK
<1>3. /\ held[t] # <<>> /\ held[t] \in Seq(Batches)
      /\ h = held[t][1] /\ h \in Batches
      /\ r \in Seq(Batches)
      /\ Chain(next, t, r, next[h][t], smr[t])
  BY <1>1, TrimsHeld
<1>4. todo[t] = <<>> /\ later[t] = <<>> /\ op[t] = "none"
  BY <1>1 DEF ControlOK
<1>5. /\ Distinct(r) /\ ~InSeq(h, r)
      /\ \A b : InSeq(b, held[t]) <=> b = h \/ InSeq(b, r)
  BY <1>1, <1>3, InTail DEF OnceOK
<1>6. Distinct(<<h>>) /\ \A b : InSeq(b, <<h>>) <=> b = h
  BY <1>3, InSingle
<1>7. Chain(next, t, <<h>>, h, h)
  BY <1>3, ChainSingle, Constants
<1>8. h # NULL
  BY <1>3, Constants
<1>9. (head[t].ptr = h)'
  BY <1>2
<1>10. h' = h
  BY <1>2
<1> HIDE DEF h, r
<1>11. SlotOK(t)'
  BY <1>1, <1>2 DEF SlotOK
<1>12. ControlOK(t)'
  BY <1>1, <1>2, <1>4 DEF ControlOK
<1>13. OnceOK(t)'
  BY <1>2, <1>4, <1>5, <1>6, InEmpty DEF OnceOK, Disjoint
<1>14. ChainOK(t)'
  <2>1. Chain(next, t, held[t], h, smr[t])'
    BY <1>2, <1>7, <1>10
  <2>2. Chain(next, t, held[t], head[t].ptr, smr[t])'
    BY <2>1 DEF h
  <2>3. smr'[t] # NULL /\ InSeq(smr[t], held[t])'
    BY <1>2, <1>6, <1>8
  <2>4. Chain(next, t, todo[t], next[smr[t]][t], walk[t].end)'
    BY <1>2, <1>3
  <2> QED
    BY <1>2, <2>2, <2>3, <2>4 DEF ChainOK
<1>15. \A b : Owes(t, b)' <=> Owes(t, b)
  BY <1>2, <1>4, <1>5, <1>6, InEmpty DEF Owes
<1> QED
  BY <1>11, <1>12, <1>13, <1>14, <1>15 DEF Settled, ThreadOK

LEMMA TrimReadSettled ==
    ASSUME TypeOK, ThreadInv, NEW t \in Threads, TrimRead(t)
    PROVE  Settled(t)
<1> DEFINE n == next[smr[t]][t]
           e == walk[t].end
<1>1. /\ SlotOK(t) /\ ControlOK(t) /\ ChainOK(t) /\ OnceOK(t)
      /\ pc[t] = "trimRead"
  BY DEF ThreadInv, ThreadOK, TrimRead
<1>2. /\ walk'[t] = [curr |-> NULL, nxt |-> n, end |-> e] /\ pc'[t] = "travRead"
      /\ UNCHANGED <<next, head, active, held, todo, later, op, smr, outer, list,
                     batch, last>>
  BY DEF TrimRead, Goto, shared, client, history, retireLocals, TypeOK
<1>3. Chain(next, t, todo[t], n, e)
  BY <1>1 DEF ChainOK
<1>4. SlotOK(t)' /\ OnceOK(t)' /\ \A b : Owes(t, b)' <=> Owes(t, b)
  BY <1>1, <1>2 DEF SlotOK, OnceOK, Owes
<1>5. ControlOK(t)'
  BY <1>1, <1>2 DEF ControlOK
<1>6. ChainOK(t)'
  <2>1. op[t] # "nested"
    BY <1>1 DEF ControlOK
  <2>2. (t \in active => Chain(next, t, held[t], head[t].ptr, smr[t]))'
    BY <1>1, <1>2 DEF ChainOK
  <2> HIDE DEF n, e
  <2>3. walk'[t].nxt = n /\ walk'[t].end = e
    BY <1>2
  <2>4. Chain(next, t, todo[t], walk[t].nxt, walk[t].end)'
    BY <1>2, <1>3, <2>3
  <2> QED
    BY <1>2, <2>1, <2>2, <2>4 DEF ChainOK
<1> QED
  BY <1>4, <1>5, <1>6 DEF Settled, ThreadOK

\* The actions of a call that is at no slot or list of its own.
LEMMA OtherSettled ==
    ASSUME TypeOK, ThreadInv, NEW t \in Threads,
           \/ TrimNothing(t) \/ RetireLoad(t) \/ InsertFails(t) \/ RetireFinish(t)
           \/ EndCall(t) \/ \E b \in Batches : Retire(t, b) \/ Free(t, b)
    PROVE  Settled(t)
<1>1. /\ SlotOK(t) /\ ControlOK(t) /\ ChainOK(t) /\ OnceOK(t)
  BY DEF ThreadInv, ThreadOK
<1>2. /\ UNCHANGED <<head, next, active, held, todo, later, outer>>
      /\ t \in active => smr'[t] = smr[t]
  <2>1. CASE EndCall(t)
    BY <2>1 DEF EndCall, shared, client, history, TypeOK
  <2>2. CASE ~EndCall(t)
    BY <2>2 DEF TrimNothing, RetireLoad, InsertFails, RetireFinish, Retire, Free,
                shared, client, history, walkLocals, AdjustRefs
  <2> QED
    BY <2>1, <2>2
<1>3. SlotOK(t)' /\ OnceOK(t)' /\ \A b : Owes(t, b)' <=> Owes(t, b)
  BY <1>1, <1>2 DEF SlotOK, OnceOK, Owes
<1>4. /\ ControlOK(t)' /\ op'[t] # "nested"
      /\ pc'[t] \notin {"trimRead", "travRead", "travDrop"}
  <2>1. CASE TrimNothing(t)
    BY <1>1, <2>1 DEF TrimNothing, ControlOK, history, walkLocals, retireLocals
  <2>2. CASE RetireLoad(t) \/ InsertFails(t)
    <3>1. /\ UNCHANGED <<op, list, batch, walk, outer>>
          /\ TrySlot(t, head[slot[t]])
          /\ pc[t] \in {"retireLoad", "retireCas"}
      BY <2>2 DEF RetireLoad, InsertFails, client, walkLocals
    <3>2. \/ pc'[t] \in {"retireLoad", "retireFinish"}
          \/ pc'[t] = "retireCas" /\ last'[t].on
      BY <3>1 DEF TrySlot, NextSlot, Goto, TypeOK
    <3> QED
      BY <1>1, <1>2, <3>1, <3>2 DEF ControlOK
  <2>3. CASE RetireFinish(t)
    <3>1. /\ UNCHANGED <<op, batch, walk, outer, last>>
          /\ pc[t] = "retireFinish" /\ pc'[t] = "free"
      BY <2>3 DEF RetireFinish, client, walkLocals, retireLocals, Goto, TypeOK
    <3> QED
      BY <1>1, <1>2, <3>1 DEF ControlOK
  <2>4. CASE EndCall(t)
    <3>1. /\ pc[t] = "free" /\ op'[t] = "none" /\ list'[t] = {} /\ batch'[t] = NULL
          /\ pc'[t] = IF op[t] = "trimLeft" THEN "reenter" ELSE "idle"
      BY <2>4 DEF EndCall, Goto, TypeOK
    <3> QED
      BY <1>1, <1>2, <3>1 DEF ControlOK
  <2>5. ASSUME NEW b \in Batches, Retire(t, b)
        PROVE  ControlOK(t)' /\ op'[t] = "retire" /\ pc'[t] = "retireLoad"
    <3>1. /\ pc[t] = "idle" /\ pc'[t] = "retireLoad" /\ op'[t] = "retire"
          /\ batch'[t] = b /\ b # NULL
          /\ UNCHANGED <<walk, outer, list>>
      BY <2>5, Constants DEF Retire, Goto, TypeOK, walkLocals
    <3> QED
      BY <1>1, <1>2, <3>1 DEF ControlOK
  <2>6. ASSUME NEW b \in Batches, Free(t, b)
        PROVE  ControlOK(t)' /\ op'[t] # "nested" /\ pc'[t] = "free"
    <3>1. /\ pc[t] = "free"
          /\ UNCHANGED <<pc, op, walk, outer, batch, last>>
      BY <2>6 DEF Free, walkLocals, retireLocals, history
    <3> QED
      BY <1>1, <1>2, <3>1 DEF ControlOK
  <2> QED
    BY <2>1, <2>2, <2>3, <2>4, <2>5, <2>6
<1>5. ChainOK(t)'
  BY <1>1, <1>2, <1>4 DEF ChainOK
<1> QED
  BY <1>3, <1>4, <1>5 DEF Settled, ThreadOK

\* The one action after which a thread, the owner of the slot, owes a
\* decrement more.
LEMMA InsertSettled ==
    ASSUME TypeOK, ThreadInv, NEW t \in Threads, Insert(t),
           NEW u \in Threads, ~Owes(slot[t], batch[t])
    PROVE  /\ ThreadOK(u)'
           /\ \A c : Owes(u, c)' <=> Owes(u, c) \/ (u = slot[t] /\ c = batch[t])
<1> DEFINE s == slot[t]
           b == batch[t]
           p == last[t].ptr
<1>1. b \in Batches /\ s \in Threads /\ pc[t] = "retireCas"
  BY RetiresBatch DEF Insert, TypeOK
<1>2. SlotOK(u) /\ ControlOK(u) /\ ChainOK(u) /\ OnceOK(u) /\ ControlOK(t)
  BY DEF ThreadInv, ThreadOK
<1>3. /\ head[s] = last[t]
      /\ head' = [head EXCEPT ![s] = [on |-> TRUE, ptr |-> b]]
      /\ held' = [held EXCEPT ![s] = <<b>> \o held[s]]
      /\ next' = [next EXCEPT ![b] = [next[b] EXCEPT ![s] = p]]
      /\ UNCHANGED <<active, smr, walk, outer, op, todo, later, list, batch, last>>
      /\ NextSlot(t)
  BY DEF Insert, client, walkLocals
<1>4. /\ u # s => head'[u] = head[u] /\ held'[u] = held[u]
      /\ u = s => head'[u] = [on |-> TRUE, ptr |-> b] /\ held'[u] = <<b>> \o held[u]
      /\ \A c \in Batches : c # b \/ u # s => next'[c][u] = next[c][u]
      /\ next'[b][s] = p
  BY <1>1, <1>3 DEF TypeOK
<1>5. pc'[u] = pc[u] \/ (u = t /\ pc'[u] \in {"retireLoad", "retireFinish"})
  BY <1>3 DEF NextSlot, Goto, TypeOK
<1>6. u = s => head[u].on /\ u \in active /\ p = head[u].ptr
  BY <1>1, <1>2, <1>3 DEF ControlOK, SlotOK
<1>7. held[u] \in Seq(Batches) /\ todo[u] \in Seq(Batches) /\ later[u] \in Seq(Batches)
  BY DEF TypeOK
<1>8. u = s => /\ \A c : InSeq(c, held'[u]) <=> c = b \/ InSeq(c, held[u])
               /\ Distinct(held'[u])
  <2>1. SUFFICES ASSUME u = s
                 PROVE  /\ \A c : InSeq(c, held'[u]) <=> c = b \/ InSeq(c, held[u])
                        /\ Distinct(held'[u])
    OBVIOUS
  <2>2. held'[u] = <<b>> \o held[u] /\ Distinct(held[u])
    BY <1>2, <1>4, <2>1 DEF OnceOK
  <2>3. ~InSeq(b, held[u])
    BY <2>1 DEF Owes
  <2> HIDE DEF b
  <2> QED
    BY <1>1, <1>7, <2>2, <2>3, InCons
<1>9. u = s => ~InSeq(b, held[u]) /\ ~InSeq(b, todo[u]) /\ ~InSeq(b, later[u])
  BY DEF Owes
<1> HIDE DEF s, b, p
<1>10. \A c \in Batches : Owes(u, c) => next'[c][u] = next[c][u]
  BY <1>4, <1>9 DEF Owes
<1>11. \A c : Owes(u, c)' <=> Owes(u, c) \/ (u = s /\ c = b)
  BY <1>3, <1>4, <1>8 DEF Owes
<1>12. SlotOK(u)'
  BY <1>2, <1>3, <1>4, <1>6 DEF SlotOK
<1>13. ControlOK(u)'
  BY <1>1, <1>2, <1>3, <1>5 DEF ControlOK
<1>14. OnceOK(u)'
  <2>1. CASE u = s
    BY <1>2, <1>3, <1>8, <1>9, <2>1 DEF OnceOK, Disjoint
  <2>2. CASE u # s
    BY <1>2, <1>3, <1>4, <2>2 DEF OnceOK
  <2> QED
    BY <2>1, <2>2
<1>15. (u \in active => Chain(next, u, held[u], head[u].ptr, smr[u]))'
  <2> DEFINE h == head[u].ptr
  <2>1. u \in active => Chain(next, u, held[u], h, smr[u])
    BY <1>2 DEF ChainOK
  <2>2. u # s => h' = h
    BY <1>4
  <2>3. u = s => h' = b /\ h = p
    BY <1>4, <1>6
  <2>4. \A c : InSeq(c, held[u]) => next'[c][u] = next[c][u]
    BY <1>7, <1>10, ElementOfSeq DEF Owes, InSeq
  <2> HIDE DEF h
  <2>5. u \in active => Chain(next', u, held[u], h, smr[u])
    BY <1>7, <2>1, <2>4, ChainFrame
  <2>6. (u \in active => Chain(next, u, held[u], h, smr[u]))'
    <3>1. CASE u = s
      <4>1. u \in active => Chain(next', u, <<b>> \o held[u], b, smr[u])
        BY <1>1, <1>4, <1>7, <1>9, <2>3, <2>5, <3>1, ChainCons, Constants
      <4>2. held'[u] = <<b>> \o held[u] /\ h' = b /\ active' = active /\ smr' = smr
        BY <1>3, <1>4, <2>3, <3>1
      <4> QED
        BY <4>1, <4>2
    <3>2. CASE u # s
      BY <1>3, <1>4, <2>2, <2>5, <3>2
    <3> QED
      BY <3>1, <3>2
  <2> QED
    BY <2>6 DEF h
<1>16. ChainOK(u)'
  <2>1. \A c : InSeq(c, held[u]) => InSeq(c, held[u])'
    BY <1>4, <1>8
  <2>2. pc'[u] = pc[u] \/ pc'[u] \notin {"trimRead", "travRead", "travDrop"}
    BY <1>5
  <2> QED
    BY <1>3, <1>10, <1>15, <2>1, <2>2, WalksKept
<1> QED
  BY <1>11, <1>12, <1>13, <1>14, <1>16 DEF ThreadOK, s, b

-----------------------------------------------------------------------------
(* What a step does to all the threads.                                    *)

\* The actions that no slot but the own one and no chain is changed by.
Own(t) ==
    \/ Enter(t) \/ Leave(t) \/ Trim(t) \/ NestedLeave(t) \/ TravRead(t)
    \/ TravDrop(t) \/ TrimRead(t) \/ Reenter(t) \/ RetireLoad(t)
    \/ InsertFails(t) \/ RetireFinish(t) \/ EndCall(t)
    \/ \E b \in Batches : Retire(t, b) \/ Free(t, b)

LEMMA OthersSettled ==
    ASSUME TypeOK, ThreadInv, NEW t \in Threads, NEW u \in Threads, u # t, Own(t)
    PROVE  Settled(u)
<1>1. Kept(u)
  BY KeptByOthers DEF Own, Call, Step
<1>2. SlotKept(u)
  <2> USE DEF SlotKept, TypeOK, shared, history
  <2>1. CASE Enter(t) \/ Reenter(t)
    BY <2>1 DEF Enter, Reenter, EnterSlot
  <2>2. CASE Leave(t) \/ NestedLeave(t)
    BY <2>2 DEF Leave, NestedLeave, LeaveBegin
  <2>3. CASE Trim(t)
    BY <2>3 DEF Trim, TrimNothing, TrimBegin
  <2>4. CASE TravRead(t) \/ TravDrop(t) \/ TrimRead(t)
    BY <2>4 DEF TravRead, TravDrop, TrimRead
  <2>5. CASE RetireLoad(t) \/ InsertFails(t) \/ RetireFinish(t) \/ EndCall(t)
    BY <2>5 DEF RetireLoad, InsertFails, RetireFinish, EndCall
  <2>6. CASE \E b \in Batches : Retire(t, b) \/ Free(t, b)
    BY <2>6 DEF Retire, Free
  <2> QED
    BY <2>1, <2>2, <2>3, <2>4, <2>5, <2>6 DEF Own
<1> QED
  BY <1>1, <1>2, Untouched

\* Memory is allocated again when nobody owes it anything.
LEMMA AllocSettled ==
    ASSUME TypeOK, ThreadInv, NEW u \in Threads, NEW b \in Batches, Alloc(b),
           ~Owes(u, b)
    PROVE  Settled(u)
<1>1. Kept(u)
  BY DEF Alloc, Kept, history, walkLocals, retireLocals
<1>2. SlotKept(u)
  BY DEF Alloc, SlotKept, history, TypeOK
<1> QED
  BY <1>1, <1>2, Untouched

\* Apart from the two actions that are meant to, nothing changes what the
\* threads owe.
LEMMA OwnSettled ==
    ASSUME TypeOK, ThreadInv, NEW t \in Threads, NEW u \in Threads, Own(t),
           u # t \/ ~TravDrop(t)
    PROVE  Settled(u)
<1>1. CASE u # t
  BY <1>1, OthersSettled
<1>2. CASE u = t /\ ~TravDrop(t)
  BY <1>2, EnterSettled, LeaveSettled, TravReadSettled, TrimBeginSettled,
     TrimReadSettled, OtherSettled DEF Own, Trim
<1> QED
  BY <1>1, <1>2

\* What insertion and allocation rely on: the retirer has not been at the
\* slot yet, and free memory is in no slot.
LEMMA NotOwed ==
    ASSUME TypeOK, ThreadInv, RetireInv, RefsInv
    PROVE  /\ \A t \in Threads : Insert(t) => ~Owes(slot[t], batch[t])
           /\ \A b \in Batches, u \in Threads : Alloc(b) => ~Owes(u, b)
<1>1. ASSUME NEW t \in Threads, Insert(t) PROVE ~Owes(slot[t], batch[t])
  <2>1. /\ pc[t] = "retireCas" /\ slot[t] \in Threads
        /\ batch[t] \in Batches /\ Retiring(t, batch[t])
    BY <1>1, RetiresBatch DEF Insert, TypeOK
  <2>2. slot[t] \in Ahead(t)
    BY <2>1, Constants DEF Ahead, Threads
  <2>3. Owers(batch[t]) \cap Ahead(t) = {}
    BY <2>1 DEF RetireInv
  <2> QED
    BY <2>1, <2>2, <2>3 DEF Owers
<1>2. ASSUME NEW b \in Batches, NEW u \in Threads, Alloc(b) PROVE ~Owes(u, b)
  BY <1>2 DEF RefsInv, Alloc, Owers
<1> QED
  BY <1>1, <1>2

LEMMA ThreadStep ==
    ASSUME TypeOK, ThreadInv, RetireInv, RefsInv, [Next]_vars
    PROVE  ThreadInv'
<1> SUFFICES ASSUME NEW u \in Threads PROVE ThreadOK(u)'
  BY DEF ThreadInv
<1>1. CASE UNCHANGED vars
  <2>1. Kept(u) /\ SlotKept(u)
    BY <1>1 DEF vars, Kept, SlotKept
  <2> QED
    BY <2>1, Untouched DEF Settled
<1>2. ASSUME NEW t \in Threads, Own(t) PROVE ThreadOK(u)'
  BY <1>2, OwnSettled, TravDropSettled DEF Settled
<1>3. ASSUME NEW t \in Threads, Insert(t) PROVE ThreadOK(u)'
  BY <1>3, NotOwed, InsertSettled
<1>4. ASSUME NEW b \in Batches, Alloc(b) PROVE ThreadOK(u)'
  BY <1>4, NotOwed, AllocSettled DEF Settled
<1> QED
  BY <1>1, <1>2, <1>3, <1>4 DEF Next, Call, Step, Own

-----------------------------------------------------------------------------
(* Counting the threads that owe a decrement.                              *)

LEMMA OwersCount ==
    ASSUME NEW b
    PROVE  /\ IsFiniteSet(Owers(b)) /\ Cardinality(Owers(b)) \in Nat
           /\ Cardinality(Owers(b)) <= NumThreads
           /\ Cardinality(Owers(b)) = 0 <=> Owers(b) = {}
<1>1. IsFiniteSet(Threads) /\ Cardinality(Threads) = NumThreads
  BY FS_Interval, Constants DEF Threads
<1>2. Owers(b) \subseteq Threads
  BY DEF Owers
<1>3. IsFiniteSet(Owers(b)) /\ Cardinality(Owers(b)) <= NumThreads
  BY <1>1, <1>2, FS_Subset
<1> QED
  BY <1>3, FS_CardinalityType, FS_EmptySet

-----------------------------------------------------------------------------
(* Retirements.                                                            *)

\* Who is retiring what is as before.
SameRetirements ==
    \A u \in Threads, b \in Batches : Retiring(u, b)' <=> Retiring(u, b)

\* All the actions of a thread but the first and the last of a retirement.
LEMMA RetirementsStay ==
    ASSUME TypeOK, ThreadInv, NEW t \in Threads, Own(t) \/ Insert(t),
           ~RetireFinish(t), \A b \in Batches : ~Retire(t, b)
    PROVE  SameRetirements
<1>1. ASSUME NEW u \in Threads, NEW b \in Batches, u # t
      PROVE  Retiring(u, b)' <=> Retiring(u, b)
  <2>1. Kept(u)
    BY <1>1, KeptByOthers DEF Own, Call, Step
  <2> QED
    BY <2>1 DEF Kept, Retiring
<1>2. \/ batch' = batch /\ pc'[t] = pc[t]
      \/ /\ batch' = batch
         /\ {pc[t], pc'[t]} \subseteq {"retireLoad", "retireCas", "retireFinish"}
      \/ {pc[t], pc'[t]} \cap {"retireLoad", "retireCas", "retireFinish"} = {}
  <2> USE DEF Goto, TypeOK
  <2>1. CASE Enter(t) \/ Reenter(t)
    BY <2>1 DEF Enter, Reenter, retireLocals
  <2>2. CASE Leave(t) \/ NestedLeave(t)
    BY <2>2 DEF Leave, NestedLeave, LeaveBegin
  <2>3. CASE Trim(t) \/ TrimRead(t)
    BY <2>3 DEF Trim, TrimNothing, TrimBegin, TrimRead, retireLocals
  <2>4. CASE TravRead(t)
    BY <2>4 DEF TravRead, Return
  <2>5. CASE TravDrop(t)
    BY <2>5 DEF TravDrop, Return
  <2>6. CASE RetireLoad(t) \/ InsertFails(t)
    BY <2>6 DEF RetireLoad, InsertFails, TrySlot, NextSlot
  <2>7. CASE Insert(t)
    BY <2>7 DEF Insert, NextSlot
  <2>8. CASE EndCall(t)
    BY <2>8 DEF EndCall
  <2>9. CASE \E b \in Batches : Free(t, b)
    BY <2>9 DEF Free, retireLocals
  <2> QED
    BY <2>1, <2>2, <2>3, <2>4, <2>5, <2>6, <2>7, <2>8, <2>9 DEF Own
<1>3. \A b \in Batches : Retiring(t, b)' <=> Retiring(t, b)
  BY <1>2 DEF Retiring
<1> QED
  BY <1>1, <1>3 DEF SameRetirements

-----------------------------------------------------------------------------
(* Steps after which the counters mean what they meant.                    *)

\* No counter, no free list and no debt changes.
SameCounts ==
    /\ UNCHANGED <<refs, status, list>>
    /\ SameRetirements
    /\ \A u \in Threads, b \in Batches : Retiring(u, b) => adjs'[u] = adjs[u]
    /\ \A u \in Threads, b \in Batches : Owes(u, b)' <=> Owes(u, b)

LEMMA SameOwers ==
    ASSUME NEW b, \A u \in Threads : Owes(u, b)' <=> Owes(u, b)
    PROVE  Owers(b)' = Owers(b)
BY DEF Owers

LEMMA RefsFrame ==
    ASSUME RefsInv, SameCounts
    PROVE  RefsInv'
<1>1. \A b \in Batches : Owers(b)' = Owers(b)
  BY SameOwers DEF SameCounts
<1>2. \A b \in Batches : Listed(b)' <=> Listed(b)
  BY DEF SameCounts, Listed
<1> QED
  BY <1>1, <1>2 DEF RefsInv, SameCounts, SameRetirements

\* Retirements only go forward.
LEMMA RetireFrame ==
    ASSUME RetireInv, SameCounts,
           \A u \in Threads, b \in Batches : Retiring(u, b) =>
               /\ Ahead(u)' \subseteq Ahead(u)
               /\ pc'[u] # "retireFinish" => adjs[u] <= slot'[u]
    PROVE  RetireInv'
<1>1. \A b \in Batches : Owers(b)' = Owers(b)
  BY SameOwers DEF SameCounts
<1>2. \A b \in Batches : Listed(b)' <=> Listed(b)
  BY DEF SameCounts, Listed
<1> QED
  BY <1>1, <1>2 DEF RetireInv, SameCounts, SameRetirements

\* The actions that only move their thread along.
LEMMA QuietStep ==
    ASSUME TypeOK, ThreadInv, RetireInv, RefsInv, GraceInv, NEW t \in Threads,
           \/ Enter(t) \/ Reenter(t) \/ Leave(t) \/ NestedLeave(t) \/ Trim(t)
           \/ TravRead(t) \/ TrimRead(t) \/ EndCall(t)
    PROVE  RetireInv' /\ RefsInv' /\ GraceInv'
<1>1. Own(t) /\ ~TravDrop(t) /\ ~RetireFinish(t) /\ \A b \in Batches : ~Retire(t, b)
  <2>1. Own(t)
    BY DEF Own
  <2>2. pc[t] # "travDrop" /\ pc[t] # "retireFinish"
    BY DEF Enter, Reenter, Leave, NestedLeave, Trim, TrimNothing, TrimBegin, TravRead,
           TrimRead, EndCall
  <2>3. UNCHANGED status
    BY DEF Enter, Reenter, Leave, NestedLeave, LeaveBegin, Trim, TrimNothing, TrimBegin,
           TravRead, TrimRead, EndCall, client
  <2>4. \A b \in Batches : ~Retire(t, b)
    BY <2>3 DEF Retire, TypeOK
  <2> QED
    BY <2>1, <2>2, <2>4 DEF TravDrop, RetireFinish
<1>2. SameRetirements
  BY <1>1, RetirementsStay
<1>3. \A u \in Threads, b \in Batches : Owes(u, b)' <=> Owes(u, b)
  BY <1>1, OwnSettled DEF Settled
<1>4. UNCHANGED <<refs, status, list>>
  BY DEF Enter, Reenter, Leave, NestedLeave, LeaveBegin, Trim, TrimNothing, TrimBegin,
         TravRead, TrimRead, EndCall, client, shared
<1>5. \A u \in Threads, b \in Batches : Retiring(u, b) =>
          pc'[u] = pc[u] /\ slot'[u] = slot[u] /\ adjs'[u] = adjs[u]
  <2>1. ASSUME NEW u \in Threads, u # t
        PROVE  pc'[u] = pc[u] /\ slot'[u] = slot[u] /\ adjs'[u] = adjs[u]
    BY <1>1, <2>1, KeptByOthers DEF Own, Call, Step, Kept
  <2>2. \A b \in Batches : ~Retiring(t, b)
    BY DEF Enter, Reenter, Leave, NestedLeave, Trim, TrimNothing, TrimBegin, TravRead,
           TrimRead, EndCall, Retiring
  <2> QED
    BY <2>1, <2>2
<1>6. SameCounts
  BY <1>2, <1>3, <1>4, <1>5 DEF SameCounts
<1>7. \A u \in Threads, b \in Batches : Retiring(u, b) => Ahead(u)' = Ahead(u)
  BY <1>5 DEF Ahead
<1>8. RetireInv'
  <2>1. \A u \in Threads, b \in Batches : Retiring(u, b) =>
            (pc'[u] # "retireFinish" => adjs[u] <= slot'[u])
    BY <1>5 DEF RetireInv
  <2> QED
    BY <1>6, <1>7, <2>1, RetireFrame
<1>9. GraceInv'
  <2>1. ASSUME NEW b \in Batches, NEW s \in grace'[b]
        PROVE  s \in grace[b] /\ held'[s] = held[s] /\ s \in active'
    <3> USE DEF TypeOK, shared, history, client
    <3>1. CASE Enter(t) \/ Reenter(t)
      BY <2>1, <3>1 DEF Enter, Reenter, EnterSlot, GraceInv
    <3>2. CASE Leave(t) \/ NestedLeave(t)
      <4>1. LeaveBegin(t)
        BY <3>2 DEF Leave, NestedLeave
      <4>2. s \in grace[b] \ {t}
        BY <2>1, <4>1 DEF LeaveBegin, Released
      <4>3. s \in active
        BY <4>2 DEF GraceInv
      <4> QED
        BY <4>1, <4>2, <4>3 DEF LeaveBegin
    <3>3. CASE Trim(t)
      <4>1. s \in grace[b] \ {t}
        BY <2>1, <3>3 DEF Trim, TrimNothing, TrimBegin, Released
      <4>2. s \in active
        BY <4>1 DEF GraceInv
      <4> QED
        BY <3>3, <4>1, <4>2 DEF Trim, TrimNothing, TrimBegin
    <3>4. CASE TravRead(t) \/ TrimRead(t) \/ EndCall(t)
      BY <2>1, <3>4 DEF TravRead, TrimRead, EndCall, GraceInv
    <3> QED
      BY <3>1, <3>2, <3>3, <3>4
  <2> QED
    BY <1>2, <1>7, <2>1 DEF GraceInv, SameRetirements
<1> QED
  BY <1>6, <1>8, <1>9, RefsFrame

\* Retire looks at a slot: it goes on to insert, or passes by a slot nobody
\* is in.
LEMMA LookStep ==
    ASSUME TypeOK, ThreadInv, RetireInv, RefsInv, GraceInv, NEW t \in Threads,
           RetireLoad(t) \/ InsertFails(t)
    PROVE  RetireInv' /\ RefsInv' /\ GraceInv'
<1>1. /\ UNCHANGED <<refs, status, list, batch, adjs, held, active, grace>>
      /\ TrySlot(t, head[slot[t]]) /\ pc[t] \in {"retireLoad", "retireCas"}
  BY DEF RetireLoad, InsertFails, shared, client, history
<1>2. SameRetirements
  BY <1>1, RetirementsStay DEF Own, RetireFinish, Retire
<1>3. \A u \in Threads, b \in Batches : Owes(u, b)' <=> Owes(u, b)
  <2>1. Own(t) /\ ~TravDrop(t)
    BY <1>1 DEF Own, TravDrop
  <2> QED
    BY <2>1, OwnSettled DEF Settled
<1>4. SameCounts
  BY <1>1, <1>2, <1>3 DEF SameCounts
<1>5. slot[t] \in Threads /\ (head[slot[t]].on <=> slot[t] \in active)
  BY DEF TypeOK, ThreadInv, ThreadOK, SlotOK
<1>6. \/ /\ slot'[t] = slot[t] /\ pc'[t] = "retireCas"
      \/ /\ slot[t] \notin active
         /\ \/ slot[t] + 1 < NumThreads /\ slot'[t] = slot[t] + 1 /\ pc'[t] = "retireLoad"
            \/ slot[t] + 1 >= NumThreads /\ pc'[t] = "retireFinish"
  BY <1>1, <1>5 DEF TrySlot, NextSlot, Goto, TypeOK
<1>7. Ahead(t)' \subseteq Ahead(t) /\ Ahead(t) \ Ahead(t)' \subseteq {slot[t]} \ active
  BY <1>1, <1>5, <1>6, Constants DEF Ahead, Threads
<1>8. ASSUME NEW u \in Threads, u # t
      PROVE  Ahead(u)' = Ahead(u) /\ pc'[u] = pc[u] /\ slot'[u] = slot[u]
  <2>1. Kept(u)
    BY <1>8, KeptByOthers DEF Call, Step
  <2> QED
    BY <2>1 DEF Kept, Ahead
<1>9. RetireInv'
  <2>1. ASSUME NEW u \in Threads, NEW b \in Batches, Retiring(u, b)
        PROVE  /\ Ahead(u)' \subseteq Ahead(u)
               /\ pc'[u] # "retireFinish" => adjs[u] <= slot'[u]
    <3>1. CASE u # t
      BY <1>8, <2>1, <3>1 DEF RetireInv
    <3>2. CASE u = t
      <4>1. adjs[t] <= slot[t] /\ adjs[t] \in Nat
        BY <1>1, <2>1, <3>2 DEF RetireInv, TypeOK, Word
      <4> QED
        BY <1>5, <1>6, <1>7, <3>2, <4>1 DEF Threads
    <3> QED
      BY <3>1, <3>2
  <2> QED
    BY <1>4, <2>1, RetireFrame
<1>10. GraceInv'
  <2>1. \A u \in Threads : active \cap Ahead(u) \subseteq Ahead(u)'
    BY <1>7, <1>8
  <2> QED
    BY <1>1, <1>2, <2>1 DEF GraceInv, SameRetirements
<1> QED
  BY <1>4, <1>9, <1>10, RefsFrame

-----------------------------------------------------------------------------
(* Steps that change what is owed or what has been counted.                *)

\* Insert: one thread more owes a decrement, and adjs counts it.
LEMMA InsertStep ==
    ASSUME TypeOK, ThreadInv, RetireInv, RefsInv, GraceInv, NEW t \in Threads,
           Insert(t)
    PROVE  RetireInv' /\ RefsInv' /\ GraceInv'
<1>0. PICK s \in Threads, b \in Batches : s = slot[t] /\ b = batch[t]
  BY RetiresBatch DEF Insert, TypeOK
<1>1. /\ UNCHANGED <<refs, status, list, batch, active, grace>>
      /\ adjs' = [adjs EXCEPT ![t] = AddW(adjs[t], 1)]
      /\ held' = [held EXCEPT ![s] = <<b>> \o held[s]]
      /\ NextSlot(t) /\ pc[t] = "retireCas"
  BY <1>0 DEF Insert, client
<1>2. s \in Threads /\ b \in Batches /\ Retiring(t, b)
  BY <1>1, <1>0 DEF Retiring
<1>3. SameRetirements
  BY <1>1, RetirementsStay DEF RetireFinish, Retire
<1>4. /\ ~Owes(s, b)
      /\ \A u \in Threads : \A c : Owes(u, c)' <=> Owes(u, c) \/ (u = s /\ c = b)
  BY <1>0, NotOwed, InsertSettled
<1>5. \/ s + 1 < NumThreads /\ slot'[t] = s + 1 /\ pc'[t] = "retireLoad"
      \/ s + 1 >= NumThreads /\ pc'[t] = "retireFinish"
  BY <1>1, <1>0 DEF NextSlot, Goto, TypeOK
<1>6. /\ adjs[t] \in Nat /\ adjs[t] <= s
      /\ adjs'[t] = adjs[t] + 1
  <2>1. adjs[t] \in Nat /\ adjs[t] <= s
    BY <1>1, <1>2, <1>0 DEF RetireInv, TypeOK, Word
  <2>2. adjs'[t] = AddW(adjs[t], 1)
    BY <1>1 DEF TypeOK
  <2> QED
    BY <1>2, <2>1, <2>2, Constants DEF AddW, Threads
<1>7. Ahead(t)' = Ahead(t) \ {s}
  BY <1>1, <1>2, <1>5, <1>0, Constants DEF Ahead, Threads
<1>8. ASSUME NEW u \in Threads, u # t
      PROVE  /\ Ahead(u)' = Ahead(u) /\ adjs'[u] = adjs[u]
             /\ pc'[u] = pc[u] /\ slot'[u] = slot[u]
  <2>1. Kept(u)
    BY <1>8, KeptByOthers DEF Step
  <2> QED
    BY <2>1 DEF Kept, Ahead
<1>9. /\ Owers(b)' = Owers(b) \union {s} /\ s \notin Owers(b)
      /\ \A c \in Batches : c # b => Owers(c)' = Owers(c)
  BY <1>2, <1>4 DEF Owers
<1>10. Cardinality(Owers(b)') = Cardinality(Owers(b)) + 1 /\ Cardinality(Owers(b)) \in Nat
  BY <1>9, OwersCount, FS_AddElement
<1>11. \A c \in Batches : Listed(c)' <=> Listed(c)
  BY <1>1 DEF Listed
<1>12. \A u \in Threads : Retiring(u, b) => u = t
  BY <1>2 DEF RetireInv
<1>13. \A c \in Batches : Retiring(t, c) => c = b
  BY <1>0 DEF Retiring
<1>14. RetireInv'
  <2>1. SUFFICES ASSUME NEW u \in Threads, NEW c \in Batches, Retiring(u, c)
                 PROVE  /\ status[c] = "retired" /\ ~Listed(c)
                        /\ \A v \in Threads : Retiring(v, c) => v = u
                        /\ adjs'[u] <= NumThreads
                        /\ pc'[u] # "retireFinish" => adjs'[u] <= slot'[u]
                        /\ Owers(c)' \cap Ahead(u)' = {}
    BY <1>1, <1>3, <1>11 DEF RetireInv, SameRetirements
  <2>2. /\ status[c] = "retired" /\ ~Listed(c)
        /\ \A v \in Threads : Retiring(v, c) => v = u
        /\ adjs[u] <= NumThreads
        /\ pc[u] # "retireFinish" => adjs[u] <= slot[u]
        /\ Owers(c) \cap Ahead(u) = {}
    BY <2>1 DEF RetireInv
  <2>3. CASE u = t
    <3>1. c = b
      BY <1>13, <2>1, <2>3
    <3>2. adjs'[t] <= NumThreads /\ (pc'[t] # "retireFinish" => adjs'[t] <= slot'[t])
      BY <1>2, <1>5, <1>6, Constants DEF Threads
    <3> QED
      BY <1>7, <1>9, <2>2, <2>3, <3>1, <3>2
  <2>4. CASE u # t
    <3>1. c # b
      BY <1>12, <2>1, <2>4
    <3> QED
      BY <1>8, <1>9, <2>2, <2>4, <3>1
  <2> QED
    BY <2>3, <2>4
<1>15. RefsInv'
  <2>1. SUFFICES ASSUME NEW c \in Batches
        PROVE  /\ status[c] # "retired" \/ Listed(c) => Owers(c)' = {}
               /\ \A u \in Threads : Retiring(u, c) =>
                    /\ Cardinality(Owers(c)') <= adjs'[u]
                    /\ refs[c] = NegW(adjs'[u] - Cardinality(Owers(c)'))
               /\ (status[c] = "retired" /\ ~Listed(c)
                      /\ \A u \in Threads : ~Retiring(u, c)) =>
                     Owers(c)' # {} /\ refs[c] = Cardinality(Owers(c)')
    BY <1>1, <1>3, <1>11 DEF RefsInv, SameRetirements
  <2>2. CASE c # b
    <3>1. \A u \in Threads : Retiring(u, c) => adjs'[u] = adjs[u]
      BY <1>8, <1>13, <2>2
    <3> QED
      BY <1>9, <2>2, <3>1 DEF RefsInv
  <2>3. CASE c = b
    <3>1. status[b] = "retired" /\ ~Listed(b)
      BY <1>2 DEF RetireInv
    <3>2. /\ Cardinality(Owers(b)) <= adjs[t]
          /\ refs[b] = NegW(adjs[t] - Cardinality(Owers(b)))
      BY <1>2 DEF RefsInv
    <3>3. adjs'[t] - Cardinality(Owers(b)') = adjs[t] - Cardinality(Owers(b))
      BY <1>6, <1>10
    <3>4. Cardinality(Owers(b)') <= adjs'[t]
      BY <1>6, <1>10, <3>2
    <3> QED
      BY <1>2, <1>12, <2>3, <3>1, <3>2, <3>3, <3>4
  <2> QED
    BY <2>2, <2>3
<1>16. GraceInv'
  <2>1. SUFFICES ASSUME NEW c \in Batches, NEW r \in grace[c]
                 PROVE  /\ r \in active
                        /\ \/ InSeq(c, held[r])'
                           \/ \E u \in Threads : Retiring(u, c) /\ r \in Ahead(u)'
    BY <1>1, <1>3 DEF GraceInv, SameRetirements
  <2>2. r \in active /\ (InSeq(c, held[r])
            \/ \E u \in Threads : Retiring(u, c) /\ r \in Ahead(u))
    BY <2>1 DEF GraceInv
  <2>3. r \in Threads
    BY <2>2 DEF TypeOK
  <2>4. /\ r # s => held'[r] = held[r]
        /\ r = s => \A d : InSeq(d, held'[r]) <=> d = b \/ InSeq(d, held[r])
    BY <1>1, <1>2, InCons DEF TypeOK
  <2>5. CASE InSeq(c, held[r])
    BY <2>2, <2>4, <2>5
  <2>6. ASSUME NEW u \in Threads, Retiring(u, c), r \in Ahead(u)
        PROVE  InSeq(c, held[r])' \/ r \in Ahead(u)'
    <3>1. CASE u = t
      BY <1>7, <1>13, <2>4, <2>6, <3>1
    <3>2. CASE u # t
      BY <1>8, <2>6, <3>2
    <3> QED
      BY <3>1, <3>2
  <2> QED
    BY <2>2, <2>5, <2>6
<1> QED
  BY <1>14, <1>15, <1>16

\* Retire: nobody owes the new batch a decrement, and everyone who is inside
\* has a slot that lies ahead.
LEMMA RetireStep ==
    ASSUME TypeOK, ThreadInv, RetireInv, RefsInv, GraceInv, NEW t \in Threads,
           NEW b \in Batches, Retire(t, b)
    PROVE  RetireInv' /\ RefsInv' /\ GraceInv'
<1>1. /\ pc[t] = "idle" /\ status[b] = "live"
      /\ status' = [status EXCEPT ![b] = "retired"]
      /\ grace' = [grace EXCEPT ![b] = active]
      /\ refs' = [refs EXCEPT ![b] = 0]
      /\ batch'[t] = b /\ slot'[t] = 0 /\ adjs'[t] = 0 /\ pc'[t] = "retireLoad"
      /\ UNCHANGED <<active, held, list>>
  BY DEF Retire, Goto, history, TypeOK
<1>2. Owers(b) = {} /\ ~Listed(b) /\ \A u \in Threads : ~Retiring(u, b)
  BY <1>1 DEF RefsInv, RetireInv
<1>3. \A c \in Batches : Owers(c)' = Owers(c)
  <2>1. Own(t) /\ ~TravDrop(t)
    BY <1>1 DEF Own, TravDrop
  <2>2. \A u \in Threads, c \in Batches : Owes(u, c)' <=> Owes(u, c)
    BY <2>1, OwnSettled DEF Settled
  <2> QED
    BY <2>2, SameOwers
<1>4. \A c \in Batches : Listed(c)' <=> Listed(c)
  BY <1>1 DEF Listed
<1>5. ASSUME NEW u \in Threads, u # t
      PROVE  /\ \A c \in Batches : Retiring(u, c)' <=> Retiring(u, c)
             /\ Ahead(u)' = Ahead(u) /\ adjs'[u] = adjs[u]
             /\ pc'[u] = pc[u] /\ slot'[u] = slot[u]
  <2>1. Kept(u)
    BY <1>5, KeptByOthers DEF Call
  <2> QED
    BY <2>1 DEF Kept, Ahead, Retiring
<1>6. \A c \in Batches : ~Retiring(t, c) /\ (Retiring(t, c)' <=> c = b)
  BY <1>1 DEF Retiring
<1>7. Ahead(t)' = Threads
  BY <1>1 DEF Ahead, Threads
<1>8. /\ status'[b] = "retired" /\ grace'[b] = active /\ refs'[b] = 0
      /\ \A c \in Batches : c # b =>
            status'[c] = status[c] /\ grace'[c] = grace[c] /\ refs'[c] = refs[c]
  BY <1>1, Constants DEF TypeOK
<1>9. RetireInv'
  <2>1. SUFFICES ASSUME NEW u \in Threads, NEW c \in Batches, Retiring(u, c)'
                 PROVE  /\ status'[c] = "retired" /\ ~Listed(c)
                        /\ \A v \in Threads : Retiring(v, c)' => v = u
                        /\ adjs'[u] <= NumThreads
                        /\ pc'[u] # "retireFinish" => adjs'[u] <= slot'[u]
                        /\ Owers(c) \cap Ahead(u)' = {}
    BY <1>3, <1>4 DEF RetireInv
  <2>2. CASE u = t
    <3>1. c = b
      BY <1>6, <2>1, <2>2
    <3>2. \A v \in Threads : Retiring(v, b)' => v = t
      BY <1>2, <1>5
    <3> QED
      BY <1>1, <1>2, <1>8, <2>2, <3>1, <3>2, Constants
  <2>3. CASE u # t
    <3>1. Retiring(u, c) /\ c # b
      BY <1>2, <1>5, <2>1, <2>3
    <3>2. \A v \in Threads : Retiring(v, c)' => Retiring(v, c)
      BY <1>5, <1>6, <3>1
    <3> QED
      BY <1>5, <1>8, <2>3, <3>1, <3>2 DEF RetireInv
  <2> QED
    BY <2>2, <2>3
<1>10. RefsInv'
  <2>1. SUFFICES ASSUME NEW c \in Batches
        PROVE  /\ status'[c] # "retired" \/ Listed(c) => Owers(c) = {}
               /\ Listed(c) => status'[c] = "retired"
               /\ \A u \in Threads : Retiring(u, c)' =>
                    /\ Cardinality(Owers(c)) <= adjs'[u]
                    /\ refs'[c] = NegW(adjs'[u] - Cardinality(Owers(c)))
               /\ (status'[c] = "retired" /\ ~Listed(c)
                      /\ \A u \in Threads : ~Retiring(u, c)') =>
                     Owers(c) # {} /\ refs'[c] = Cardinality(Owers(c))
    BY <1>1, <1>3, <1>4 DEF RefsInv
  <2>2. CASE c = b
    <3>1. \A u \in Threads : Retiring(u, b)' => u = t
      BY <1>2, <1>5
    <3>2. Cardinality(Owers(b)) = 0
      BY <1>2, FS_EmptySet
    <3>3. NegW(0) = 0
      BY DEF NegW
    <3> QED
      BY <1>1, <1>2, <1>6, <1>8, <2>2, <3>1, <3>2, <3>3
  <2>3. CASE c # b
    <3>1. \A u \in Threads : Retiring(u, c)' <=> Retiring(u, c)
      BY <1>5, <1>6, <2>3
    <3>2. \A u \in Threads : Retiring(u, c) => adjs'[u] = adjs[u]
      BY <1>5, <1>6
    <3> QED
      BY <1>8, <2>3, <3>1, <3>2 DEF RefsInv
  <2> QED
    BY <2>2, <2>3
<1>11. GraceInv'
  <2>1. SUFFICES ASSUME NEW c \in Batches, NEW s \in grace'[c]
                 PROVE  /\ s \in active
                        /\ \/ InSeq(c, held[s])
                           \/ \E u \in Threads : Retiring(u, c)' /\ s \in Ahead(u)'
    BY <1>1 DEF GraceInv
  <2>2. CASE c = b
    <3>1. s \in active /\ s \in Threads
      BY <1>8, <2>1, <2>2 DEF TypeOK
    <3> QED
      BY <1>6, <1>7, <2>2, <3>1
  <2>3. CASE c # b
    <3>1. /\ s \in active
          /\ \/ InSeq(c, held[s])
             \/ \E u \in Threads : Retiring(u, c) /\ s \in Ahead(u)
      BY <1>8, <2>1, <2>3 DEF GraceInv
    <3> QED
      BY <1>5, <1>6, <3>1
  <2> QED
    BY <2>2, <2>3
<1> QED
  BY <1>9, <1>10, <1>11

\* RetireFinish: the references counted so far are added; what was given back
\* in the meantime is already subtracted.
LEMMA FinishStep ==
    ASSUME TypeOK, ThreadInv, RetireInv, RefsInv, GraceInv, NEW t \in Threads,
           RetireFinish(t)
    PROVE  RetireInv' /\ RefsInv' /\ GraceInv'
<1>1. PICK b \in Batches : b = batch[t] /\ Retiring(t, b)
  BY RetiresBatch DEF RetireFinish
<1>2. /\ UNCHANGED <<status, grace, active, held>>
      /\ refs' = [refs EXCEPT ![b] = AddW(refs[b], adjs[t])]
      /\ list' = IF refs[b] = NegW(adjs[t])
                 THEN [list EXCEPT ![t] = list[t] \union {b}] ELSE list
      /\ pc[t] = "retireFinish" /\ pc'[t] = "free"
  BY <1>1 DEF RetireFinish, AdjustRefs, client, history, Goto, TypeOK
<1>3. \A c \in Batches : Owers(c)' = Owers(c)
  <2>1. Own(t) /\ ~TravDrop(t)
    BY <1>2 DEF Own, TravDrop
  <2>2. \A u \in Threads, c \in Batches : Owes(u, c)' <=> Owes(u, c)
    BY <2>1, OwnSettled DEF Settled
  <2> QED
    BY <2>2, SameOwers
<1>4. ASSUME NEW u \in Threads, u # t
      PROVE  /\ \A c \in Batches : Retiring(u, c)' <=> Retiring(u, c)
             /\ Ahead(u)' = Ahead(u) /\ adjs'[u] = adjs[u]
             /\ pc'[u] = pc[u] /\ slot'[u] = slot[u]
  <2>1. Kept(u)
    BY <1>4, KeptByOthers DEF Step
  <2> QED
    BY <2>1 DEF Kept, Ahead, Retiring
<1>5. \A c \in Batches : (Retiring(t, c) <=> c = b) /\ ~Retiring(t, c)'
  BY <1>1, <1>2 DEF Retiring
<1>6. /\ status[b] = "retired" /\ ~Listed(b)
      /\ \A u \in Threads : Retiring(u, b) => u = t
      /\ adjs[t] \in Nat /\ adjs[t] <= NumThreads
  BY <1>1 DEF RetireInv, TypeOK, Word
<1>7. /\ Cardinality(Owers(b)) <= adjs[t]
      /\ refs[b] = NegW(adjs[t] - Cardinality(Owers(b)))
  BY <1>1 DEF RefsInv
<1>8. /\ refs'[b] = Cardinality(Owers(b))
      /\ refs[b] = NegW(adjs[t]) <=> Owers(b) = {}
  <2> DEFINE m == Cardinality(Owers(b))
             n == adjs[t]
  <2>1. m \in Nat /\ m <= n /\ n \in Nat /\ n < Mod /\ (m = 0 <=> Owers(b) = {})
    BY <1>6, <1>7, OwersCount, Constants
  <2>2. refs[b] = NegW(n - m) /\ refs'[b] = AddW(refs[b], n)
    BY <1>2, <1>7 DEF TypeOK
  <2> HIDE DEF m, n
  <2>3. AddW(NegW(n - m), n) = m /\ (NegW(n - m) = NegW(n) <=> m = 0)
    BY <2>1, Constants, AddAll
  <2>4. refs'[b] = m /\ (refs[b] = NegW(n) <=> Owers(b) = {})
    BY <2>1, <2>2, <2>3
  <2> QED
    BY <2>4 DEF m, n
<1>9. /\ \A u \in Threads, c \in Batches : c \in list'[u] <=>
             c \in list[u] \/ (u = t /\ c = b /\ Owers(b) = {})
      /\ \A c \in Batches : c # b => refs'[c] = refs[c]
  BY <1>2, <1>8 DEF TypeOK
<1>10. /\ Listed(b)' <=> Owers(b) = {}
       /\ \A c \in Batches : c # b => (Listed(c)' <=> Listed(c))
  BY <1>6, <1>9 DEF Listed
<1>11. RetireInv'
  <2>1. SUFFICES ASSUME NEW u \in Threads, NEW c \in Batches, Retiring(u, c)'
                 PROVE  /\ status[c] = "retired" /\ ~Listed(c)'
                        /\ \A v \in Threads : Retiring(v, c)' => v = u
                        /\ adjs'[u] <= NumThreads
                        /\ pc'[u] # "retireFinish" => adjs'[u] <= slot'[u]
                        /\ Owers(c) \cap Ahead(u)' = {}
    BY <1>2, <1>3 DEF RetireInv
  <2>2. u # t /\ Retiring(u, c) /\ c # b
    BY <1>4, <1>5, <1>6, <2>1
  <2>3. \A v \in Threads : Retiring(v, c)' => Retiring(v, c)
    BY <1>4, <1>5
  <2> QED
    BY <1>4, <1>10, <2>2, <2>3 DEF RetireInv
<1>12. RefsInv'
  <2>1. SUFFICES ASSUME NEW c \in Batches
        PROVE  /\ status[c] # "retired" \/ Listed(c)' => Owers(c) = {}
               /\ Listed(c)' => status[c] = "retired"
               /\ \A u, v \in Threads : c \in list'[u] \cap list'[v] => u = v
               /\ \A u \in Threads : Retiring(u, c)' =>
                    /\ Cardinality(Owers(c)) <= adjs'[u]
                    /\ refs'[c] = NegW(adjs'[u] - Cardinality(Owers(c)))
               /\ (status[c] = "retired" /\ ~Listed(c)'
                      /\ \A u \in Threads : ~Retiring(u, c)') =>
                     Owers(c) # {} /\ refs'[c] = Cardinality(Owers(c))
    BY <1>2, <1>3 DEF RefsInv
  <2>2. CASE c = b
    <3>1. \A u \in Threads : ~Retiring(u, b)'
      BY <1>4, <1>5, <1>6
    <3>2. \A u, v \in Threads : b \in list'[u] \cap list'[v] => u = v
      BY <1>6, <1>9 DEF Listed
    <3> QED
      BY <1>6, <1>8, <1>10, <2>2, <3>1, <3>2
  <2>3. CASE c # b
    <3>1. \A u \in Threads : Retiring(u, c)' <=> Retiring(u, c)
      BY <1>4, <1>5, <2>3
    <3>2. \A u \in Threads : Retiring(u, c) => adjs'[u] = adjs[u]
      BY <1>4, <1>5, <2>3
    <3> QED
      BY <1>9, <1>10, <2>3, <3>1, <3>2 DEF RefsInv
  <2> QED
    BY <2>2, <2>3
<1>13. GraceInv'
  <2>1. SUFFICES ASSUME NEW c \in Batches, NEW s \in grace[c]
                 PROVE  /\ s \in active
                        /\ \/ InSeq(c, held[s])
                           \/ \E u \in Threads : Retiring(u, c)' /\ s \in Ahead(u)'
    BY <1>2 DEF GraceInv
  <2>2. /\ s \in active
        /\ \/ InSeq(c, held[s])
           \/ \E u \in Threads : Retiring(u, c) /\ s \in Ahead(u)
    BY <2>1 DEF GraceInv
  <2>3. Ahead(t) = {}
    BY <1>2 DEF Ahead
  <2> QED
    BY <1>4, <2>2, <2>3
<1> QED
  BY <1>11, <1>12, <1>13

\* TravDrop: one thread less owes a decrement, and the counter shows it.
LEMMA DropStep ==
    ASSUME TypeOK, ThreadInv, RetireInv, RefsInv, GraceInv, NEW t \in Threads,
           TravDrop(t)
    PROVE  RetireInv' /\ RefsInv' /\ GraceInv'
<1>1. PICK b \in Batches : b = walk[t].curr
  BY DropsTodo DEF TravDrop
<1>2. /\ UNCHANGED <<status, grace, active, held, batch, slot, adjs>>
      /\ refs' = [refs EXCEPT ![b] = AddW(refs[b], MinusOne)]
      /\ list' = IF refs[b] = NegW(MinusOne)
                 THEN [list EXCEPT ![t] = list[t] \union {b}] ELSE list
      /\ pc[t] = "travDrop"
  BY <1>1 DEF TravDrop, AdjustRefs, client, retireLocals
<1>3. SameRetirements
  BY <1>2, RetirementsStay DEF Own, RetireFinish, Retire
<1>4. /\ Owes(t, b)
      /\ \A c \in Batches : Owes(t, c)' <=> Owes(t, c) /\ c # b
      /\ \A u \in Threads, c \in Batches : u # t => (Owes(u, c)' <=> Owes(u, c))
  <2>1. Own(t)
    BY DEF Own
  <2>2. \A u \in Threads, c \in Batches : u # t => (Owes(u, c)' <=> Owes(u, c))
    BY <2>1, OthersSettled DEF Settled
  <2> QED
    BY <1>1, <2>2, TravDropSettled
<1>5. /\ t \in Owers(b) /\ Owers(b)' = Owers(b) \ {t}
      /\ \A c \in Batches : c # b => Owers(c)' = Owers(c)
  BY <1>4 DEF Owers
<1>6. /\ Cardinality(Owers(b)) \in Nat /\ Cardinality(Owers(b)) > 0
      /\ Cardinality(Owers(b)) <= NumThreads
      /\ Cardinality(Owers(b)') = Cardinality(Owers(b)) - 1
      /\ Owers(b)' = {} <=> Cardinality(Owers(b)) = 1
  <2>1. Cardinality(Owers(b)') = Cardinality(Owers(b)) - 1 /\ IsFiniteSet(Owers(b)')
    BY <1>5, OwersCount, FS_RemoveElement
  <2>2. Owers(b)' = {} <=> Cardinality(Owers(b)') = 0
    BY <2>1, FS_EmptySet
  <2>3. Cardinality(Owers(b)) \in Nat /\ Cardinality(Owers(b)) # 0
        /\ Cardinality(Owers(b)) <= NumThreads
    BY <1>5, OwersCount
  <2> QED
    BY <2>1, <2>2, <2>3
<1>7. status[b] = "retired" /\ ~Listed(b)
  BY <1>5 DEF RefsInv
<1>8. ASSUME NEW u \in Threads, Retiring(u, b)
      PROVE  /\ Cardinality(Owers(b)') <= adjs[u]
             /\ refs'[b] = NegW(adjs[u] - Cardinality(Owers(b)'))
             /\ refs[b] # NegW(MinusOne)
  <2> DEFINE m == Cardinality(Owers(b))
             n == adjs[u]
  <2>1. /\ m \in Nat /\ 0 < m /\ m < Mod /\ n \in Nat /\ n < Mod /\ m <= n
        /\ refs[b] = NegW(n - m)
    <3>1. n \in Nat /\ n <= NumThreads
      BY <1>8 DEF RetireInv, TypeOK, Word
    <3>2. m <= n /\ refs[b] = NegW(n - m)
      BY <1>8 DEF RefsInv
    <3> QED
      BY <1>6, <3>1, <3>2, Constants
  <2>2. Cardinality(Owers(b)') = m - 1 /\ refs'[b] = AddW(refs[b], MinusOne)
    BY <1>2, <1>6 DEF TypeOK
  <2> HIDE DEF m, n
  <2>3. /\ AddW(NegW(n - m), MinusOne) = NegW(n - (m - 1))
        /\ NegW(n - m) # NegW(MinusOne)
    BY <2>1, Constants, DropOne
  <2>4. /\ Cardinality(Owers(b)') <= n
        /\ refs'[b] = NegW(n - Cardinality(Owers(b)'))
        /\ refs[b] # NegW(MinusOne)
    BY <2>1, <2>2, <2>3
  <2> QED
    BY <2>4 DEF n
<1>9. ASSUME \A u \in Threads : ~Retiring(u, b)
      PROVE  /\ refs'[b] = Cardinality(Owers(b)')
             /\ refs[b] = NegW(MinusOne) <=> Owers(b)' = {}
  <2> DEFINE m == Cardinality(Owers(b))
  <2>1. m \in Nat /\ 0 < m /\ m < Mod /\ refs[b] = m
    BY <1>6, <1>7, <1>9, Constants DEF RefsInv
  <2>2. /\ Cardinality(Owers(b)') = m - 1 /\ (Owers(b)' = {} <=> m = 1)
        /\ refs'[b] = AddW(refs[b], MinusOne)
    BY <1>2, <1>6 DEF TypeOK
  <2> HIDE DEF m
  <2>3. AddW(m, MinusOne) = m - 1 /\ (m = NegW(MinusOne) <=> m = 1)
    <3>1. 0 \in Nat /\ 0 < Mod
      BY Constants
    <3> QED
      BY <2>1, <3>1, Constants, DropOne
  <2> QED
    BY <2>1, <2>2, <2>3
<1>10. /\ \A u \in Threads, c \in Batches : c \in list'[u] <=>
             c \in list[u] \/ (u = t /\ c = b /\ refs[b] = NegW(MinusOne))
       /\ \A c \in Batches : c # b => refs'[c] = refs[c]
  BY <1>2 DEF TypeOK
<1>11. /\ Listed(b)' <=> refs[b] = NegW(MinusOne)
       /\ \A c \in Batches : c # b => (Listed(c)' <=> Listed(c))
  BY <1>7, <1>10 DEF Listed
<1>12. ASSUME NEW u \in Threads, NEW c \in Batches, Retiring(u, c)
       PROVE  pc'[u] = pc[u] /\ Ahead(u)' = Ahead(u)
  <2>1. u # t
    BY <1>2, <1>12 DEF Retiring
  <2>2. Kept(u)
    BY <2>1, KeptByOthers DEF Step
  <2> QED
    BY <2>2 DEF Kept, Ahead
<1>13. RetireInv'
  <2>1. SUFFICES ASSUME NEW u \in Threads, NEW c \in Batches, Retiring(u, c)
                 PROVE  /\ status[c] = "retired" /\ ~Listed(c)'
                        /\ \A v \in Threads : Retiring(v, c) => v = u
                        /\ adjs[u] <= NumThreads
                        /\ pc'[u] # "retireFinish" => adjs[u] <= slot[u]
                        /\ Owers(c)' \cap Ahead(u)' = {}
    BY <1>2, <1>3 DEF RetireInv, SameRetirements
  <2>2. Owers(c)' \subseteq Owers(c)
    BY <1>5
  <2>3. ~Listed(c)'
    BY <1>8, <1>11, <2>1 DEF RetireInv
  <2> QED
    BY <1>12, <2>1, <2>2, <2>3 DEF RetireInv
<1>14. RefsInv'
  <2>1. SUFFICES ASSUME NEW c \in Batches
        PROVE  /\ status[c] # "retired" \/ Listed(c)' => Owers(c)' = {}
               /\ Listed(c)' => status[c] = "retired"
               /\ \A u, v \in Threads : c \in list'[u] \cap list'[v] => u = v
               /\ \A u \in Threads : Retiring(u, c) =>
                    /\ Cardinality(Owers(c)') <= adjs[u]
                    /\ refs'[c] = NegW(adjs[u] - Cardinality(Owers(c)'))
               /\ (status[c] = "retired" /\ ~Listed(c)'
                      /\ \A u \in Threads : ~Retiring(u, c)) =>
                     Owers(c)' # {} /\ refs'[c] = Cardinality(Owers(c)')
    BY <1>2, <1>3 DEF RefsInv, SameRetirements
  <2>2. CASE c = b
    <3>1. \A u, v \in Threads : b \in list'[u] \cap list'[v] => u = v
      BY <1>7, <1>10 DEF Listed
    <3> QED
      BY <1>7, <1>8, <1>9, <1>11, <2>2, <3>1
  <2>3. CASE c # b
    BY <1>5, <1>10, <1>11, <2>3 DEF RefsInv
  <2> QED
    BY <2>2, <2>3
<1>15. GraceInv'
  BY <1>2, <1>3, <1>12 DEF GraceInv, SameRetirements
<1> QED
  BY <1>13, <1>14, <1>15

\* The end of a batch, and its next life.
LEMMA FreeStep ==
    ASSUME TypeOK, ThreadInv, RetireInv, RefsInv, GraceInv, NEW t \in Threads,
           NEW b \in Batches, Free(t, b)
    PROVE  RetireInv' /\ RefsInv' /\ GraceInv'
<1>1. /\ UNCHANGED <<refs, grace, active, held, pc, batch, slot, adjs>>
      /\ list' = [list EXCEPT ![t] = list[t] \ {b}]
      /\ status' = [status EXCEPT ![b] = "freed"]
      /\ pc[t] = "free" /\ b \in list[t]
  BY DEF Free, shared, history, retireLocals
<1>2. \A c \in Batches : Owers(c)' = Owers(c)
  <2>1. Own(t) /\ ~TravDrop(t)
    BY <1>1 DEF Own, TravDrop
  <2>2. \A u \in Threads, c \in Batches : Owes(u, c)' <=> Owes(u, c)
    BY <2>1, OwnSettled DEF Settled
  <2> QED
    BY <2>2, SameOwers
<1>3. /\ Listed(b) /\ Owers(b) = {} /\ \A u \in Threads : b \in list[u] => u = t
      /\ \A u \in Threads : ~Retiring(u, b)
  BY <1>1 DEF Listed, RefsInv, RetireInv
<1>4. \A u \in Threads, c \in Batches : c \in list'[u] <=>
          c \in list[u] /\ (u # t \/ c # b)
  BY <1>1 DEF TypeOK
<1>5. /\ ~Listed(b)' /\ \A c \in Batches : c # b => (Listed(c)' <=> Listed(c))
      /\ status'[b] = "freed"
      /\ \A c \in Batches : c # b => status'[c] = status[c]
  BY <1>1, <1>3, <1>4 DEF Listed, TypeOK
<1>6. \A u \in Threads, c \in Batches :
          (Retiring(u, c)' <=> Retiring(u, c)) /\ Ahead(u)' = Ahead(u)
  BY <1>1 DEF Retiring, Ahead
<1>7. RetireInv'
  BY <1>1, <1>2, <1>3, <1>5, <1>6 DEF RetireInv
<1>8. RefsInv'
  BY <1>1, <1>2, <1>3, <1>4, <1>5, <1>6 DEF RefsInv
<1>9. GraceInv'
  BY <1>1, <1>6 DEF GraceInv
<1> QED
  BY <1>7, <1>8, <1>9

LEMMA AllocStep ==
    ASSUME TypeOK, ThreadInv, RetireInv, RefsInv, GraceInv,
           NEW b \in Batches, Alloc(b)
    PROVE  RetireInv' /\ RefsInv' /\ GraceInv'
<1>1. /\ UNCHANGED <<refs, grace, active, held, pc, list, batch, slot, adjs>>
      /\ status' = [status EXCEPT ![b] = "live"]
      /\ status[b] = "freed"
  BY DEF Alloc, history, retireLocals
<1>2. \A c \in Batches : Owers(c)' = Owers(c)
  <2>1. \A u \in Threads, c \in Batches : Owes(u, c)' <=> Owes(u, c)
    BY NotOwed, AllocSettled DEF Settled
  <2> QED
    BY <2>1, SameOwers
<1>3. ~Listed(b) /\ Owers(b) = {} /\ \A u \in Threads : ~Retiring(u, b)
  BY <1>1 DEF RefsInv, RetireInv
<1>4. /\ \A c \in Batches : Listed(c)' <=> Listed(c)
      /\ status'[b] = "live"
      /\ \A c \in Batches : c # b => status'[c] = status[c]
  BY <1>1 DEF Listed, TypeOK
<1>5. \A u \in Threads, c \in Batches :
          (Retiring(u, c)' <=> Retiring(u, c)) /\ Ahead(u)' = Ahead(u)
  BY <1>1 DEF Retiring, Ahead
<1>6. RetireInv'
  BY <1>1, <1>2, <1>3, <1>4, <1>5 DEF RetireInv
<1>7. RefsInv'
  BY <1>1, <1>2, <1>3, <1>4, <1>5 DEF RefsInv
<1>8. GraceInv'
  BY <1>1, <1>5 DEF GraceInv
<1> QED
  BY <1>6, <1>7, <1>8

-----------------------------------------------------------------------------
(* The inductive invariant.                                                *)

LEMMA InvInit == Init => IInv
<1> SUFFICES ASSUME Init PROVE IInv
  OBVIOUS
<1>1. TypeOK
  BY TypeInit
<1>2. ThreadInv
  BY InEmpty DEF Init, ThreadInv, ThreadOK, SlotOK, ControlOK, ChainOK, OnceOK, Off
<1>3. \A u \in Threads, b \in Batches : ~Retiring(u, b) /\ ~Owes(u, b) /\ b \notin list[u]
  BY InEmpty DEF Init, Retiring, Owes
<1>4. RetireInv
  BY <1>3 DEF RetireInv
<1>5. RefsInv
  BY <1>3 DEF RefsInv, Listed, Owers, Init
<1>6. GraceInv
  BY DEF GraceInv, Init
<1> QED
  BY <1>1, <1>2, <1>4, <1>5, <1>6 DEF IInv

LEMMA InvStep == IInv /\ [Next]_vars => IInv'
<1> SUFFICES ASSUME IInv, [Next]_vars PROVE IInv'
  OBVIOUS
<1>1. TypeOK /\ ThreadInv /\ RetireInv /\ RefsInv /\ GraceInv
  BY DEF IInv
<1>2. TypeOK' /\ ThreadInv'
  BY <1>1, TypeStep, ThreadStep
<1>3. RetireInv' /\ RefsInv' /\ GraceInv'
  <2>1. CASE UNCHANGED vars
    <3>1. /\ UNCHANGED <<refs, grace, active, held, todo, later, pc, list, batch, slot,
                         adjs, status>>
          /\ \A u \in Threads : Ahead(u)' = Ahead(u)
      BY <2>1 DEF vars, Ahead
    <3>2. SameCounts
      BY <3>1 DEF SameCounts, SameRetirements, Retiring, Owes
    <3>3. RefsInv' /\ RetireInv'
      <4>1. \A u \in Threads, b \in Batches : Retiring(u, b) =>
                (pc'[u] # "retireFinish" => adjs[u] <= slot'[u])
        BY <1>1, <3>1 DEF RetireInv
      <4> QED
        BY <1>1, <3>1, <3>2, <4>1, RefsFrame, RetireFrame
    <3>4. GraceInv'
      BY <1>1, <3>1, <3>2 DEF GraceInv, SameCounts, SameRetirements
    <3> QED
      BY <3>3, <3>4
  <2>2. ASSUME NEW t \in Threads, Call(t) PROVE RetireInv' /\ RefsInv' /\ GraceInv'
    BY <1>1, <2>2, QuietStep, RetireStep DEF Call
  <2>3. ASSUME NEW t \in Threads, Step(t) PROVE RetireInv' /\ RefsInv' /\ GraceInv'
    BY <1>1, <2>3, QuietStep, LookStep, InsertStep, FinishStep, DropStep, FreeStep
       DEF Step
  <2>4. ASSUME NEW b \in Batches, Alloc(b) PROVE RetireInv' /\ RefsInv' /\ GraceInv'
    BY <1>1, <2>4, AllocStep
  <2> QED
    BY <2>1, <2>2, <2>3, <2>4 DEF Next
<1> QED
  BY <1>2, <1>3 DEF IInv

\* Every reachable state satisfies the inductive invariant.
THEOREM Invariance == Spec => []IInv
BY InvInit, InvStep, PTL DEF Spec

-----------------------------------------------------------------------------
(* What the client can rely on.                                            *)

\* The variables always have their types: no call dereferences or links the
\* null pointer where a batch is needed, and no counter leaves its word.
THEOREM TypeCorrect == Spec => []TypeOK
BY Invariance, PTL DEF IInv

\* What is listed for the allocator nobody has to be waited for.
LEMMA InvFrees == IInv => FreesAreSafe
<1> SUFFICES ASSUME IInv, NEW t \in Threads, NEW b \in list[t]
             PROVE  status[b] = "retired" /\ grace[b] = {} /\ Owers(b) = {}
  BY DEF FreesAreSafe
<1>1. b \in Batches /\ Listed(b) /\ \A s \in grace[b] : s \in Threads
  BY DEF IInv, TypeOK, Listed
<1>2. status[b] = "retired" /\ Owers(b) = {} /\ \A u \in Threads : ~Retiring(u, b)
  BY <1>1 DEF IInv, RefsInv, RetireInv
<1>3. grace[b] = {}
  BY <1>1, <1>2 DEF IInv, GraceInv, Owers, Owes
<1> QED
  BY <1>2, <1>3

LEMMA InvTouches == IInv => TouchesOnlyRetired
<1> SUFFICES ASSUME IInv, NEW t \in Threads, NEW b \in Target(t)
             PROVE  b \in Batches /\ status[b] = "retired" /\ ~Listed(b)
  BY DEF TouchesOnlyRetired
<1>1. TypeOK /\ ThreadInv /\ RetireInv /\ RefsInv
  BY DEF IInv
<1>2. ASSUME b \in Batches, Owes(t, b) PROVE status[b] = "retired" /\ ~Listed(b)
  BY <1>1, <1>2 DEF RefsInv, Owers
<1>3. CASE pc[t] = "trimRead"
  <2>1. b = smr[t] /\ b \in Batches /\ InSeq(b, held[t])
    BY <1>1, <1>3 DEF Target, ThreadInv, ThreadOK, ChainOK, TypeOK, Ptr
  <2> QED
    BY <1>2, <2>1 DEF Owes
<1>4. CASE pc[t] = "travRead"
  <2>1. b = walk[t].nxt /\ b # NULL
    BY <1>4 DEF Target
  <2>2. b \in Batches /\ InSeq(b, todo[t])
    <3>1. todo[t] # <<>> /\ b = todo[t][1] /\ b \in Batches
      BY <1>1, <1>4, <2>1, ReadsTodo
    <3>2. todo[t] \in Seq(Batches)
      BY <1>1 DEF TypeOK
    <3> QED
      BY <3>1, <3>2, TailFacts DEF InSeq
  <2> QED
    BY <1>2, <2>2 DEF Owes
<1>5. CASE pc[t] = "travDrop"
  <2>1. b = walk[t].curr
    BY <1>5 DEF Target
  <2>2. b \in Batches /\ InSeq(b, todo[t])
    <3>1. /\ todo[t] # <<>> /\ b = todo[t][1] /\ b \in Batches
          /\ todo[t] \in Seq(Batches)
      BY <1>1, <1>5, <2>1, DropsTodo
    <3> QED
      BY <3>1, TailFacts DEF InSeq
  <2> QED
    BY <1>2, <2>2 DEF Owes
<1>6. CASE pc[t] \in {"retireLoad", "retireCas", "retireFinish"}
  <2>1. b = batch[t]
    BY <1>6 DEF Target
  <2>2. b \in Batches /\ Retiring(t, b)
    BY <1>1, <1>6, <2>1, RetiresBatch
  <2> QED
    BY <1>1, <2>2 DEF RetireInv
<1> QED
  BY <1>3, <1>4, <1>5, <1>6 DEF Target

LEMMA InvQuiet == IInv => QuietIsClean
<1> SUFFICES ASSUME IInv, active = {}, \A t \in Threads : pc[t] = "idle"
             PROVE  /\ head = [t \in Threads |-> Off]
                    /\ \A b \in Batches : status[b] # "retired"
  BY DEF QuietIsClean
<1>1. \A t \in Threads : /\ head[t] = Off /\ held[t] = <<>> /\ todo[t] = <<>>
                         /\ later[t] = <<>> /\ list[t] = {}
  BY DEF IInv, ThreadInv, ThreadOK, SlotOK, ControlOK
<1>2. head = [t \in Threads |-> Off]
  BY <1>1 DEF IInv, TypeOK
<1>3. ASSUME NEW b \in Batches PROVE status[b] # "retired"
  <2>1. Owers(b) = {} /\ ~Listed(b) /\ \A t \in Threads : ~Retiring(t, b)
    BY <1>1, InEmpty DEF Owers, Owes, Listed, Retiring
  <2> QED
    BY <2>1 DEF IInv, RefsInv
<1> QED
  BY <1>2, <1>3

\* A batch is only handed to free when every thread that was inside at its
\* retirement has left, and no slot or traversal leads to it any more.
THEOREM FreesSafe == Spec => []FreesAreSafe
BY Invariance, InvFrees, PTL

\* traverse, trim and retire never dereference memory that was given back, or
\* is about to be, nor the null pointer.
THEOREM TouchesSafe == Spec => []TouchesOnlyRetired
BY Invariance, InvTouches, PTL

\* When everybody has left and all calls have returned, nothing that was
\* retired is still waiting to be freed.
THEOREM QuietClean == Spec => []QuietIsClean
BY Invariance, InvQuiet, PTL

-----------------------------------------------------------------------------
(* Refinement.                                                             *)

LEMMA AbstractStep == IInv /\ [Next]_vars => [Abstract!Next]_(Abstract!vars)
<1> SUFFICES ASSUME IInv, [Next]_vars
             PROVE  Abstract!Next \/ UNCHANGED client
  BY DEF Abstract!vars, client
<1> USE DEF client
<1>1. CASE UNCHANGED vars
  BY <1>1 DEF vars
<1>2. ASSUME NEW t \in Threads, Enter(t) \/ Reenter(t) PROVE Abstract!Next
  <2>1. t \notin active
    BY <1>2 DEF Enter, Reenter, IInv, ThreadInv, ThreadOK, ControlOK
  <2>2. Abstract!Enter(t)
    BY <1>2, <2>1 DEF Enter, Reenter, EnterSlot, Abstract!Enter
  <2> QED
    BY <2>2 DEF Abstract!Next
<1>3. ASSUME NEW t \in Threads, Leave(t) \/ NestedLeave(t) PROVE Abstract!Next
  <2>1. t \in active
    BY <1>3 DEF Leave, NestedLeave, IInv, ThreadInv, ThreadOK, ControlOK
  <2>2. LeaveBegin(t)
    BY <1>3 DEF Leave, NestedLeave
  <2>3. Abstract!Leave(t)
    BY <2>1, <2>2 DEF LeaveBegin, Released, Abstract!Leave, Abstract!Released
  <2> QED
    BY <2>3 DEF Abstract!Next
<1>4. ASSUME NEW t \in Threads, Trim(t) PROVE Abstract!Next
  <2>1. Abstract!Trim(t)
    BY <1>4 DEF Trim, TrimNothing, TrimBegin, Released, Abstract!Trim, Abstract!Released
  <2> QED
    BY <2>1 DEF Abstract!Next
<1>5. ASSUME NEW t \in Threads, NEW b \in Batches, Retire(t, b) PROVE Abstract!Next
  <2>1. Abstract!Retire(b)
    BY <1>5 DEF Retire, Abstract!Retire
  <2> QED
    BY <2>1 DEF Abstract!Next
<1>6. ASSUME NEW t \in Threads, NEW b \in Batches, Free(t, b) PROVE Abstract!Next
  <2>1. status[b] = "retired" /\ grace[b] = {}
    BY <1>6, InvFrees DEF FreesAreSafe, Free
  <2>2. Abstract!Free(b)
    BY <1>6, <2>1 DEF Free, Abstract!Free
  <2> QED
    BY <2>2 DEF Abstract!Next
<1>7. ASSUME NEW b \in Batches, Alloc(b) PROVE Abstract!Next
  <2>1. Abstract!Alloc(b)
    BY <1>7 DEF Alloc, Abstract!Alloc
  <2> QED
    BY <2>1 DEF Abstract!Next
<1>8. ASSUME NEW t \in Threads,
             \/ TravRead(t) \/ TravDrop(t) \/ TrimRead(t) \/ RetireLoad(t) \/ Insert(t)
             \/ InsertFails(t) \/ RetireFinish(t) \/ EndCall(t)
      PROVE  UNCHANGED client
  BY <1>8 DEF TravRead, TravDrop, TrimRead, RetireLoad, Insert, InsertFails,
              RetireFinish, EndCall
<1> QED
  BY <1>1, <1>2, <1>3, <1>4, <1>5, <1>6, <1>7, <1>8 DEF Next, Call, Step

\* Hyaline-1 implements the abstract scheme: the client cannot tell it from
\* one that remembers for every batch the threads it has to outlive.
THEOREM Implements == Spec => ImplementsSafeReclaim
<1>1. Init => Abstract!Init
  BY DEF Init, Abstract!Init
<1> QED
  BY <1>1, AbstractStep, Invariance, PTL
     DEF Spec, ImplementsSafeReclaim, Abstract!Spec
=============================================================================
