---------------------------- MODULE HyalineSProofs ----------------------------
(***************************************************************************)
(* Hyaline-S, for every value of its constants: the invariant OwnInv of    *)
(* module HyalineS is inductive together with CoreInv of HyalineSlots, its *)
(* slots, lists and counters take the steps of Hyaline, its pointers are   *)
(* safe (SafePointers), acknowledgements add up, and a batch has enough    *)
(* nodes for the slots it goes into.                                       *)
(***************************************************************************)
EXTENDS HyalineSThreads

-----------------------------------------------------------------------------
(* The batches.                                                            *)

\* A batch that is to be freed is retired.
LEMMA ListedRetired ==
    ASSUME Base, NEW t \in Threads, NEW b \in loc[t].list
    PROVE  b \in Batches /\ status[b] = "retired"
<1>1. b \in Batches
  BY Fields DEF Base, TypeOK, Local
<1>2. P!Listed(b) /\ P!RefsInv
  BY DEF Base, P!CoreInv, P!Listed, absList, ListOf
<1>3. absStatus[b] = "retired"
  BY <1>1, <1>2 DEF P!RefsInv
<1> QED
  BY <1>1, <1>3 DEF absStatus

\* The step of a thread retires the batch that is linked, or frees one that
\* was retired, or leaves the batches as they are.
LEMMA StatusSteps ==
    ASSUME Base, NEW t \in Threads, Acts(t)
    PROVE  \/ /\ \E e \in 0 .. global : Retire(t, e)
              /\ root \in Batches /\ status[root] = "linked" /\ root' = NULL
              /\ status' = [status EXCEPT ![root] = "retired"] /\ birth' = birth
           \/ \E b \in Batches :
                /\ b \in loc[t].list /\ status[b] = "retired" /\ root' = root
                /\ status' = [status EXCEPT ![b] = "freed"]
                /\ birth' = [birth EXCEPT ![b] = 0]
           \/ status' = status /\ root' = root /\ birth' = birth
<1>0. TypeOK /\ ObjectInv
  BY DEF Base
<1>1. CASE \E e \in 0 .. global : Retire(t, e)
  <2>1. /\ root # NULL /\ root' = NULL /\ birth' = birth
        /\ status' = [status EXCEPT ![root] = "retired"]
    BY <1>1 DEF Retire
  <2>2. root \in Batches /\ status[root] = "linked"
    BY <1>0, <2>1 DEF ObjectInv, TypeOK, Ptr
  <2> QED
    BY <1>1, <2>1, <2>2
<1>2. CASE \E b \in Batches : Free(t, b)
  <2>1. PICK b \in Batches : Free(t, b)
    BY <1>2
  <2>2. /\ b \in loc[t].list /\ root' = root
        /\ status' = [status EXCEPT ![b] = "freed"]
        /\ birth' = [birth EXCEPT ![b] = 0]
    BY <2>1 DEF Free
  <2> QED
    BY <2>2, ListedRetired
<1>3. CASE ~(\E e \in 0 .. global : Retire(t, e)) /\ ~(\E b \in Batches : Free(t, b))
  <2>1. EnterLook(t) \/ LeaveLoad(t) \/ Deref(t) \/ (\E th \in TrimThresholds : Trim(t, th))
        => status' = status /\ root' = root /\ birth' = birth
    BY DEF EnterLook, LeaveLoad, Deref, Trim, structure, memory
  <2>2. TravRead(t) \/ TravDrop(t) \/ DerefLoad(t) \/ DerefEpoch(t) \/ TrimRead(t)
        \/ EndCall(t, Empty) => status' = status /\ root' = root /\ birth' = birth
    BY DEF TravRead, TravDrop, DerefLoad, DerefEpoch, TrimRead, EndCall, structure, memory
  <2>3. EnterAdd(t) \/ LeaveRead(t) \/ LeaveCas(t) \/ LeaveClear(t) \/ LeaveAdjust(t)
        \/ Ack(t) \/ DerefAccess(t) => status' = status /\ root' = root /\ birth' = birth
    BY DEF EnterAdd, LeaveRead, LeaveCas, LeaveClear, LeaveAdjust, Ack, DerefAccess,
       structure, memory
  <2>4. RetireAccess(t) \/ RetireLoad(t) \/ RetireCas(t) \/ RetireAdjust(t)
        \/ RetireCount(t) \/ RetireFinish(t) => status' = status /\ root' = root /\ birth' = birth
    BY DEF RetireAccess, RetireLoad, RetireCas, RetireAdjust,
       RetireCount, RetireFinish, structure, memory
  <2> QED
    BY <1>3, <2>1, <2>2, <2>3, <2>4, ActsIs
<1> QED
  BY <1>1, <1>2, <1>3

\* A published epoch is not ahead of the global one.
LEMMA AccessActs ==
    ASSUME Base, RetirerInv, NEW t \in Threads, Acts(t)
    PROVE  \A s \in Slots : access'[s] <= global'
<1>1. TypeOK /\ ObjectInv /\ EpochOK(t) /\ global' = global
  BY Frames, ThreadNow DEF Base
<1>2. CASE DerefAccess(t)
  <2>1. loc[t].pc = "derefAccess" /\ loc[t].glob <= global /\ loc[t].vec \in Slots
    BY <1>1, <1>2, ThreadNow, Fields DEF DerefAccess, At, EpochOK
  <2>2. access' = access \/ access' = [access EXCEPT ![loc[t].vec] = loc[t].glob]
    BY <1>2 DEF DerefAccess
  <2> QED
    BY <1>1, <2>1, <2>2 DEF ObjectInv, TypeOK
<1>3. CASE ~DerefAccess(t)
  <2>1. access' = access
    <3>1. EnterLook(t) \/ LeaveLoad(t) \/ Deref(t) \/ (\E th \in TrimThresholds : Trim(t, th))
          \/ (\E e \in 0 .. global : Retire(t, e)) \/ (\E b \in Batches : Free(t, b))
          => access' = access
      BY DEF EnterLook, LeaveLoad, Deref, Trim, Retire, Free, epochs
    <3>2. TravRead(t) \/ TravDrop(t) \/ DerefLoad(t) \/ DerefEpoch(t) \/ TrimRead(t)
          \/ EndCall(t, Empty) => access' = access
      BY DEF TravRead, TravDrop, DerefLoad, DerefEpoch, TrimRead, EndCall, epochs
    <3>3. EnterAdd(t) \/ LeaveRead(t) \/ LeaveCas(t) \/ LeaveClear(t) \/ LeaveAdjust(t)
          \/ Ack(t) \/ RetireAccess(t) \/ RetireLoad(t) \/ RetireCas(t) \/ RetireAdjust(t)
          \/ RetireCount(t) \/ RetireFinish(t) => access' = access
      BY DEF EnterAdd, LeaveRead, LeaveCas, LeaveClear, LeaveAdjust, Ack, RetireAccess,
         RetireLoad, RetireCas, RetireAdjust, RetireCount, RetireFinish, epochs
    <3> QED
      BY <1>3, <3>1, <3>2, <3>3, ActsIs
  <2> QED
    BY <1>1, <2>1 DEF ObjectInv
<1> QED
  BY <1>2, <1>3

\* Every step of a thread keeps what holds of the batches.
LEMMA ObjectActs ==
    ASSUME Base, RetirerInv, NEW t \in Threads, Acts(t)
    PROVE  ObjectInv'
<1>1. TypeOK /\ ObjectInv /\ global' = global /\ NULL \notin Batches
  BY Frames, Constants DEF Base
<1>2. /\ root' # NULL => status'[root'] = "linked"
      /\ \A b \in Batches : status'[b] # "freed" => birth'[b] <= global'
  <2>1. CASE \E b \in Batches :
                /\ b \in loc[t].list /\ status[b] = "retired" /\ root' = root
                /\ status' = [status EXCEPT ![b] = "freed"]
                /\ birth' = [birth EXCEPT ![b] = 0]
    BY <1>1, <2>1 DEF ObjectInv, TypeOK, Ptr
  <2>2. CASE /\ root \in Batches /\ status[root] = "linked" /\ root' = NULL
             /\ status' = [status EXCEPT ![root] = "retired"] /\ birth' = birth
    BY <1>1, <2>2 DEF ObjectInv, TypeOK
  <2>3. CASE status' = status /\ root' = root /\ birth' = birth
    BY <1>1, <2>3 DEF ObjectInv, TypeOK
  <2> QED
    BY <2>1, <2>2, <2>3, StatusSteps
<1> QED
  BY <1>2, AccessActs DEF ObjectInv

\* So does every step of the structure.
LEMMA ObjectStructure ==
    ASSUME Base, Structure, UNCHANGED <<head, counter, history>>
    PROVE  ObjectInv'
<1>1. /\ TypeOK /\ TypeOK' /\ ObjectInv /\ NULL \notin Batches /\ MaxEpoch \in Nat
  BY TypeStructure, Constants DEF Base
<1>2. PICK b \in Batches : Alloc(b) \/ Link(b)
  BY DEF Structure
<1>3. /\ global \in 0 .. MaxEpoch /\ access \in [Slots -> 0 .. MaxEpoch]
      /\ birth \in [Batches -> 0 .. MaxEpoch] /\ access' = access
      /\ status \in [Batches -> {"freed", "new", "linked", "retired"}]
      /\ root \in Batches \union {NULL}
  BY <1>1, <1>2 DEF TypeOK, Epoch, Ptr, Alloc, Link, epochs
<1>4. CASE Alloc(b)
  <2>1. /\ global' \in 0 .. MaxEpoch /\ global <= global'
        /\ birth' = [birth EXCEPT ![b] = global']
        /\ status[b] = "freed" /\ status' = [status EXCEPT ![b] = "new"]
        /\ root' = root
    BY <1>1, <1>3, <1>4 DEF Alloc
  <2>2. \A c \in Batches : status'[c] # "freed" => birth'[c] <= global'
    BY <1>1, <1>3, <2>1 DEF ObjectInv
  <2>3. root' # NULL => status'[root'] = "linked"
    BY <1>1, <1>3, <2>1 DEF ObjectInv
  <2>4. \A s \in Slots : access'[s] <= global'
    BY <1>1, <1>3, <2>1 DEF ObjectInv
  <2> QED
    BY <2>2, <2>3, <2>4 DEF ObjectInv
<1>5. CASE Link(b)
  BY <1>1, <1>3, <1>5 DEF ObjectInv, Link, epochs, memory
<1> QED
  BY <1>2, <1>4, <1>5

-----------------------------------------------------------------------------
(* What is within a slot, and ahead of a retirement.                       *)

\* The batch of t becomes the head of its slot.
Puts(t) == RetireCas(t) /\ head[loc[t].slot] = loc[t].last

\* A thread only changes its slot when it enters.
LEMMA VecStays ==
    ASSUME Base, RetirerInv, NEW t \in Threads, Acts(t), NEW u \in Threads,
           u # t \/ ~EnterAdd(t)
    PROVE  loc'[u].vec = loc[u].vec
<1>1. TypeOK /\ Moves(t)
  BY Frames DEF Base
<1>2. CASE u # t
  BY <1>1, <1>2 DEF Moves, Others
<1>3. CASE u = t /\ ~EnterAdd(t)
  <2>1. /\ LeaveRead(t) => loc[t].last.ptr \in Batches
        /\ TrimRead(t) => loc[t].smr \in Batches
        /\ LeaveAdjust(t) \/ RetireAdjust(t) => loc[t].last.ptr \in Batches
        /\ TravDrop(t) => loc[t].walk.curr \in Batches
        /\ RetireFinish(t) => loc[t].batch \in Batches
    BY Addresses DEF LeaveRead, TrimRead, LeaveAdjust, RetireAdjust, TravDrop, RetireFinish,
                     At, RetireLabels
  <2>2. EnterLook(t) \/ LeaveLoad(t) \/ EndCall(t, Empty) \/ Deref(t) \/ DerefLoad(t)
        \/ DerefEpoch(t) \/ DerefAccess(t) => loc'[t].vec = loc[t].vec
    <3>1. EnterLook(t) \/ LeaveLoad(t) \/ EndCall(t, Empty) => loc'[t].vec = loc[t].vec
      BY <1>1, EnterLookDoes, LeaveLoadDoes, EndCallDoes DEF SameClient
    <3>2. Deref(t) \/ DerefLoad(t) => loc'[t].vec = loc[t].vec
      BY <1>1, DerefDoes, DerefLoadDoes DEF SameClient
    <3>3. DerefEpoch(t) => loc'[t].vec = loc[t].vec
      BY <1>1, DerefEpochDoes DEF SameClient
    <3>4. DerefAccess(t) => loc'[t].vec = loc[t].vec
      BY <1>1, DerefAccessDoes DEF SameClient
    <3> QED
      BY <3>1, <3>2, <3>3, <3>4
  <2>3. (\E th \in TrimThresholds : Trim(t, th)) => loc'[t].vec = loc[t].vec
    BY <1>1, TrimDoes
  <2>4. (\E e \in 0 .. global : Retire(t, e)) => loc'[t].vec = loc[t].vec
    BY <1>1, RetireDoes DEF SameClient
  <2>5. (\E b \in Batches : Free(t, b)) => loc'[t].vec = loc[t].vec
    BY <1>1, FreeDoes DEF SameClient
  <2>6. TravDrop(t) => loc'[t].vec = loc[t].vec
    BY <1>1, <2>1, TravDropDoes DEF SameClient
  <2>7. TravRead(t) \/ TrimRead(t) \/ LeaveRead(t) \/ Ack(t) => loc'[t].vec = loc[t].vec
    BY <1>1, <2>1, TravReadDoes, TrimReadDoes, LeaveReadDoes, AckDoes DEF SameClient, Returned
  <2>8. ASSUME NEW l, Traversed(l, loc'[t]), SameClient(loc[t], l)
        PROVE  loc'[t].vec = loc[t].vec
    BY <2>8 DEF Traversed, Returned, SameClient
  <2>9. LeaveAdjust(t) => loc'[t].vec = loc[t].vec
    BY <1>1, <2>1, <2>8, LeaveAdjustDoes
  <2>10. LeaveCas(t) => loc'[t].vec = loc[t].vec
    <3>1. SUFFICES ASSUME LeaveCas(t) PROVE loc'[t].vec = loc[t].vec
      OBVIOUS
    <3>2. \/ SameClient(loc[t], loc'[t]) \/ Traversed(loc[t], loc'[t])
          \/ Loaded(loc[t], loc'[t], head[loc[t].vec])
      BY <1>1, <3>1, LeaveCasDoes
    <3> QED
      BY <2>8, <3>2 DEF SameClient, Loaded
  <2>11. LeaveClear(t) => loc'[t].vec = loc[t].vec
    <3>1. SUFFICES ASSUME LeaveClear(t) PROVE loc'[t].vec = loc[t].vec
      OBVIOUS
    <3>2. SameClient(loc[t], loc'[t]) \/ Traversed(loc[t], loc'[t])
      BY <1>1, <3>1, LeaveClearDoes
    <3> QED
      BY <2>8, <3>2 DEF SameClient
  <2>12. ASSUME NEW w, Tried(loc[t], loc'[t], w) PROVE loc'[t].vec = loc[t].vec
    BY <2>12 DEF Tried, Passed, Advanced, SameClient
  <2>13. RetireAccess(t) \/ RetireLoad(t) \/ RetireCas(t) => loc'[t].vec = loc[t].vec
    <3>1. RetireAccess(t) => loc'[t].vec = loc[t].vec
      BY <1>1, RetireAccessDoes DEF Passed, Advanced, SameClient
    <3>2. RetireLoad(t) => loc'[t].vec = loc[t].vec
      BY <1>1, <2>12, RetireLoadDoes
    <3>3. RetireCas(t) => loc'[t].vec = loc[t].vec
      BY <1>1, <2>12, RetireCasDoes DEF SameClient
    <3> QED
      BY <3>1, <3>2, <3>3
  <2>14. RetireAdjust(t) \/ RetireCount(t) \/ RetireFinish(t) => loc'[t].vec = loc[t].vec
    BY <1>1, <2>1, RetireAdjustDoes, RetireCountDoes, RetireFinishDoes DEF Advanced, SameClient
  <2> QED
    BY <1>3, <2>2, <2>3, <2>4, <2>5, <2>6, <2>7, <2>9, <2>10, <2>11, <2>13, <2>14, ActsIs
<1> QED
  BY <1>2, <1>3

\* While a thread is inside, what it holds and the head of its slot stay but
\* for insertions and its own trims.
LEMMA HeldStays ==
    ASSUME Base, RetirerInv, NEW t \in Threads, Acts(t), ~Puts(t),
           NEW u \in Threads, loc[u].inside,
           u = t => ~\E th \in TrimThresholds : Trim(t, th)
    PROVE  held'[u] = held[u] /\ head'[loc[u].vec].ptr = head[loc[u].vec].ptr
<1>1. TypeOK /\ Moves(t) /\ ControlOK(t) /\ ControlOK(u) /\ loc[u] \in Local
  BY Frames, ThreadNow DEF Base
<1>2. CASE u = t
  <2>1. ~EnterAdd(t) /\ ~LeaveCas(t) /\ ~LeaveClear(t)
    BY <1>1, <1>2 DEF EnterAdd, LeaveCas, LeaveClear, At, ControlOK, EnterLabels, LeaveLabels
  <2>2. RetireCas(t) => head' = head /\ held' = held
    BY DEF Puts, RetireCas
  <2>3. EnterLook(t) \/ LeaveLoad(t) \/ LeaveRead(t) \/ LeaveAdjust(t) \/ Ack(t)
        \/ DerefAccess(t) => head' = head /\ held' = held
    BY DEF EnterLook, LeaveLoad, LeaveRead, LeaveAdjust, Ack, DerefAccess, history, owed
  <2>4. RetireAccess(t) \/ RetireLoad(t) \/ RetireAdjust(t) \/ RetireCount(t)
        \/ RetireFinish(t) => head' = head /\ held' = held
    BY DEF RetireAccess, RetireLoad, RetireAdjust, RetireCount, RetireFinish, history, owed
  <2>5. ASSUME NEW q, Walks(t, q), UNCHANGED <<head, counter>>
        PROVE  head' = head /\ held' = held
    BY <2>5 DEF Walks
  <2>6. UNCHANGED <<head, counter, history>> => head' = head /\ held' = held
    BY DEF history, owed
  <2> QED
    BY <1>2, <2>1, <2>2, <2>3, <2>4, <2>5, <2>6, ActsIs
<1>3. CASE u # t
  <2>1. P!TypeOK /\ P!ThreadInv /\ P!SlotsAgree
    BY DEF Base, P!CoreInv
  <2>2. u \in absActive /\ absVec[u] = loc[u].vec
    BY Image DEF VecOf, Out
  <2>3. ~P!Insert(t)
    <3>1. SUFFICES ASSUME P!Insert(t) PROVE FALSE
      OBVIOUS
    <3>2. absPc[t] = "retireCas" /\ head[absSlot[t]] = absLast[t]
      BY <3>1 DEF P!Insert
    <3>3. loc[t].pc = "retireCas"
      <4>1. loc[t] \in Local
        BY ThreadNow
      <4> QED
        BY <3>2, <4>1, Image DEF PcOf
    <3>4. absSlot[t] = loc[t].slot /\ absLast[t] = loc[t].last
      BY <3>3, RetirerNow DEF RetireLabels
    <3>5. RetireCas(t)
      BY <1>1, <3>3, ActsIs DEF EnterLook, LeaveLoad, Deref, Trim, Retire, TravRead, TravDrop,
         DerefLoad, DerefEpoch, TrimRead, EndCall, Free, EnterAdd, DerefAccess, LeaveRead,
         LeaveCas, LeaveClear, LeaveAdjust, Ack, RetireAccess, RetireLoad, RetireAdjust,
         RetireCount, RetireFinish, At
    <3> QED
      BY <3>2, <3>4, <3>5 DEF Puts
  <2>4. P!AnyCall(t) \/ P!AnyStep(t) \/ UNCHANGED P!vars
    BY CallMaps, StepMaps DEF Acts
  <2>5. CASE P!AnyCall(t) \/ P!AnyStep(t)
    BY <1>3, <2>1, <2>2, <2>3, <2>5, CoreAssumption, P!StaysWithin
  <2>6. CASE UNCHANGED P!vars
    BY <2>6 DEF P!vars, P!shared, P!history
  <2> QED
    BY <2>4, <2>5, <2>6
<1> QED
  BY <1>2, <1>3

\* A decrement that waits for a thread goes on waiting.
LEMMA WithinStays ==
    ASSUME Base, RetirerInv, NEW t \in Threads, Acts(t), NEW u \in Threads, loc[u].inside,
           u = t => ~\E th \in TrimThresholds : Trim(t, th),
           NEW b \in Batches, Within(u, b)
    PROVE  Within(u, b)' /\ loc'[u].vec = loc[u].vec
<1>1. TypeOK /\ loc[u] \in Local /\ ControlOK(u)
  BY ThreadNow
<1>2. loc'[u].vec = loc[u].vec
  BY <1>1, VecStays DEF EnterAdd, At, ControlOK, EnterLabels
<1>3. CASE ~Puts(t)
  BY <1>2, <1>3, HeldStays DEF Within
<1>4. CASE Puts(t)
  <2> DEFINE s == loc[t].slot
             prev == loc[t].last.ptr
  <2>1. /\ head[s] = loc[t].last
        /\ head' = [head EXCEPT ![s].ptr = loc[t].batch]
        /\ held' = [v \in Threads |-> IF v \in Inside(s) /\ prev # NULL
                                      THEN <<prev>> \o held[v] ELSE held[v]]
    BY <1>4 DEF Puts, RetireCas
  <2>2. loc[t] \in Local /\ s \in Slots /\ prev \in Ptr /\ held[u] \in Seq(Batches)
        /\ loc[u].vec \in Slots /\ NULL \notin Batches
    BY <1>1, ThreadNow, Fields, Constants DEF TypeOK, HeadWord
  <2>3. CASE u \in Inside(s) /\ prev # NULL
    <3>1. held'[u] = <<prev>> \o held[u] /\ prev \in Batches
      BY <2>1, <2>2, <2>3 DEF Ptr
    <3>2. InSeq(b, held'[u]) <=> b = prev \/ InSeq(b, held[u])
      BY <2>2, <3>1, InCons
    <3>3. loc[u].vec = s
      BY <2>3 DEF Inside
    <3> QED
      BY <1>2, <2>1, <3>2, <3>3 DEF Within
  <2>4. CASE u \notin Inside(s)
    <3>1. held'[u] = held[u] /\ loc[u].vec # s
      BY <2>1, <2>4 DEF Inside, In
    <3>2. head'[loc[u].vec] = head[loc[u].vec]
      BY <1>1, <2>1, <2>2, <3>1 DEF TypeOK
    <3> QED
      BY <1>2, <3>1, <3>2 DEF Within
  <2>5. CASE prev = NULL
    <3>1. held'[u] = held[u]
      BY <2>1, <2>5
    <3>2. loc[u].vec # s => head'[loc[u].vec] = head[loc[u].vec]
      BY <1>1, <2>1, <2>2 DEF TypeOK
    <3>3. head[loc[u].vec].ptr = b => loc[u].vec # s
      BY <2>1, <2>2, <2>5
    <3> QED
      BY <1>2, <3>1, <3>2, <3>3 DEF Within
  <2> QED
    BY <2>3, <2>4, <2>5
<1> QED
  BY <1>3, <1>4

\* What a thread that retires does.
LEMMA RetireActs ==
    ASSUME NEW t \in Threads, Acts(t), loc[t].pc \in RetireLabels
    PROVE  \/ RetireAccess(t) \/ RetireLoad(t) \/ RetireCas(t)
           \/ RetireAdjust(t) \/ RetireCount(t) \/ RetireFinish(t)
BY ActsIs DEF EnterLook, LeaveLoad, Deref, Trim, Retire, TravRead, TravDrop,
   DerefLoad, DerefEpoch, TrimRead, EndCall, Free, EnterAdd, DerefAccess, LeaveRead,
   LeaveCas, LeaveClear, LeaveAdjust, Ack, At, RetireLabels

\* The slot that t is at is passed by, since no thread is in it or it was not
\* read in since the batch was born.
Passes(t) ==
    /\ loc[t].pc \in {"retireAccess", "retireLoad", "retireCas"}
    /\ Advanced(loc[t], loc'[t], TRUE)
    /\ ~(access[loc[t].slot] >= loc[t].min) \/ head[loc[t].slot].refs = 0

\* A step of a retirement: it stays at its slot, puts its batch there, passes
\* by, or goes on to the next slot.
LEMMA RetireSteps ==
    ASSUME Base, NEW t \in Threads, Acts(t), loc[t].pc \in RetireLabels
    PROVE  /\ loc'[t].batch = loc[t].batch
           /\ \/ /\ loc[t].pc \in {"retireAccess", "retireLoad", "retireCas"}
                 /\ loc'[t].pc \in {"retireLoad", "retireCas"}
                 /\ loc'[t].slot = loc[t].slot /\ loc'[t].into = loc[t].into
                 /\ covers' = covers
              \/ Passes(t) /\ covers' = covers
              \/ /\ Puts(t) /\ loc[t].pc = "retireCas"
                 /\ loc'[t].pc \in {"retireAdjust", "retireCount"}
                 /\ loc'[t].slot = loc[t].slot
                 /\ loc'[t].into = loc[t].into \union {loc[t].slot}
              \/ /\ loc[t].pc = "retireAdjust" /\ loc'[t].pc = "retireCount"
                 /\ loc'[t].slot = loc[t].slot /\ loc'[t].into = loc[t].into
                 /\ loc'[t].last = loc[t].last /\ covers' = covers
              \/ /\ RetireCount(t) /\ loc[t].pc = "retireCount"
                 /\ Advanced(loc[t], loc'[t], loc[t].doAdjs)
              \/ loc[t].pc = "retireFinish" /\ loc'[t].pc = "free" /\ covers' = covers
<1>1. TypeOK
  BY ThreadNow
<1>2. ASSUME Tried(loc[t], loc'[t], head[loc[t].slot]),
             loc[t].pc \in {"retireLoad", "retireCas"}
      PROVE  /\ loc'[t].batch = loc[t].batch
             /\ \/ /\ loc'[t].pc = "retireCas" /\ loc'[t].slot = loc[t].slot
                   /\ loc'[t].into = loc[t].into
                \/ Passes(t)
  <2>1. CASE head[loc[t].slot].refs = 0
    <3>1. Advanced(loc[t], loc'[t], TRUE)
      BY <1>2, <2>1 DEF Tried, Passed
    <3> QED
      BY <1>2, <2>1, <3>1 DEF Passes, Advanced
  <2>2. CASE head[loc[t].slot].refs # 0
    BY <1>2, <2>2 DEF Tried, SameRetire
  <2> QED
    BY <2>1, <2>2
<1>3. CASE RetireAccess(t)
  <2>1. /\ loc[t].pc = "retireAccess" /\ covers' = covers
        /\ access[loc[t].slot] >= loc[t].min =>
             SameRetire(loc[t], loc'[t]) /\ loc'[t].pc = "retireLoad"
        /\ ~(access[loc[t].slot] >= loc[t].min) => Advanced(loc[t], loc'[t], TRUE)
    BY <1>1, <1>3, RetireAccessDoes DEF Passed, RetireAccess, history
  <2> QED
    BY <2>1 DEF Passes, Advanced, SameRetire
<1>4. CASE RetireLoad(t)
  <2>1. /\ loc[t].pc = "retireLoad" /\ Tried(loc[t], loc'[t], head[loc[t].slot])
        /\ covers' = covers
    BY <1>1, <1>4, RetireLoadDoes DEF RetireLoad, history
  <2> QED
    BY <1>2, <2>1
<1>5. CASE RetireCas(t)
  <2>0. loc[t].pc = "retireCas"
    BY <1>5 DEF RetireCas, At
  <2>1. CASE head[loc[t].slot] = loc[t].last
    <3>1. /\ loc'[t].batch = loc[t].batch /\ loc'[t].slot = loc[t].slot
          /\ loc'[t].into = loc[t].into \union {loc[t].slot}
          /\ loc'[t].pc \in {"retireAdjust", "retireCount"}
      BY <1>1, <1>5, <2>1, RetireCasDoes
    <3>2. Puts(t)
      BY <1>5, <2>1 DEF Puts
    <3> QED
      BY <2>0, <3>1, <3>2
  <2>2. CASE head[loc[t].slot] # loc[t].last
    <3>1. Tried(loc[t], loc'[t], head[loc[t].slot]) /\ covers' = covers
      BY <1>1, <1>5, <2>2, RetireCasDoes DEF RetireCas
    <3> QED
      BY <1>2, <2>0, <3>1
  <2> QED
    BY <2>1, <2>2
<1>6. CASE RetireAdjust(t)
  <2>1. loc[t].last.ptr \in Batches /\ covers' = covers
    BY <1>6, Addresses DEF RetireAdjust, At, history
  <2>2. /\ loc[t].pc = "retireAdjust" /\ loc'[t].pc = "retireCount"
        /\ SameRetire(loc[t], loc'[t]) /\ loc'[t].last = loc[t].last
    BY <1>1, <1>6, <2>1, RetireAdjustDoes
  <2> QED
    BY <2>1, <2>2 DEF SameRetire
<1>7. CASE RetireCount(t)
  <2>1. loc[t].pc = "retireCount" /\ Advanced(loc[t], loc'[t], loc[t].doAdjs)
    BY <1>1, <1>7, RetireCountDoes
  <2>2. loc'[t].batch = loc[t].batch
    BY <2>1 DEF Advanced
  <2> QED
    BY <1>7, <2>1, <2>2
<1>8. CASE RetireFinish(t)
  <2>1. loc[t].batch \in Batches /\ covers' = covers
    BY <1>8, Addresses DEF RetireFinish, At, RetireLabels, history
  <2>2. /\ loc[t].pc = "retireFinish" /\ loc'[t].pc = "free"
        /\ SameRetire(loc[t], loc'[t])
    BY <1>1, <1>8, <2>1, RetireFinishDoes
  <2> QED
    BY <2>1, <2>2 DEF SameRetire
<1> QED
  BY <1>3, <1>4, <1>5, <1>6, <1>7, <1>8, RetireActs

\* What a retirement has still to come to: a slot goes when the batch is put
\* there, or when the slot is passed by.
LEMMA AheadStays ==
    ASSUME Base, RetirerInv, NEW t \in Threads, Acts(t), NEW v \in Threads,
           NEW s \in Ahead(v)
    PROVE  /\ loc'[v].batch = loc[v].batch
           /\ \/ s \in Ahead(v)' /\ loc'[v].pc \in RetireLabels
              \/ v = t /\ s = loc[t].slot /\ (Puts(t) \/ Passes(t))
<1>1. loc[v].pc \in RetireLabels \ {"retireFinish"}
  BY DEF Ahead, RetireLabels
<1>2. CASE v # t
  <2>1. loc'[v] = loc[v]
    BY <1>2, Frames DEF Moves, Others
  <2> QED
    BY <1>1, <2>1 DEF Ahead
<1>3. CASE v = t
  <2>1. loc[t].slot \in 0 .. NumSlots - 1 /\ NumSlots \in Nat
    BY AheadIsSlots, Constants
  <2>2. loc'[t].batch = loc[t].batch
    BY <1>1, <1>3, RetireSteps
  <2>3. CASE /\ loc[t].pc \in {"retireAccess", "retireLoad", "retireCas"}
             /\ loc'[t].pc \in {"retireLoad", "retireCas"}
             /\ loc'[t].slot = loc[t].slot
    BY <1>3, <2>2, <2>3 DEF Ahead, RetireLabels
  <2>4. CASE Passes(t)
    <3>1. s \in loc[t].slot .. NumSlots - 1
      BY <1>3, <2>4 DEF Passes, Ahead
    <3>2. SUFFICES ASSUME s # loc[t].slot PROVE s \in Ahead(t)' /\ loc'[t].pc \in RetireLabels
      BY <1>3, <2>2, <2>4
    <3>3. loc'[t].slot = loc[t].slot + 1 /\ loc'[t].pc = "retireAccess"
      BY <2>1, <2>4, <3>1, <3>2 DEF Passes, Advanced
    <3> QED
      BY <2>1, <3>1, <3>2, <3>3 DEF Ahead, RetireLabels
  <2>5. CASE /\ Puts(t) /\ loc[t].pc = "retireCas"
             /\ loc'[t].pc \in {"retireAdjust", "retireCount"}
             /\ loc'[t].slot = loc[t].slot
    <3>1. s \in loc[t].slot .. NumSlots - 1
      BY <1>3, <2>5 DEF Ahead
    <3> QED
      BY <1>3, <2>1, <2>2, <2>5, <3>1 DEF Ahead, RetireLabels
  <2>6. CASE /\ loc[t].pc = "retireAdjust" /\ loc'[t].pc = "retireCount"
             /\ loc'[t].slot = loc[t].slot
    BY <1>3, <2>2, <2>6 DEF Ahead, RetireLabels
  <2>7. CASE loc[t].pc = "retireCount" /\ Advanced(loc[t], loc'[t], loc[t].doAdjs)
    <3>1. s \in loc[t].slot + 1 .. NumSlots - 1
      BY <1>3, <2>7 DEF Ahead
    <3>3. loc'[t].slot = loc[t].slot + 1 /\ loc'[t].pc = "retireAccess"
      BY <2>1, <2>7, <3>1 DEF Advanced
    <3> QED
      BY <1>3, <2>1, <2>2, <3>1, <3>3 DEF Ahead, RetireLabels
  <2> QED
    BY <1>1, <1>3, <2>3, <2>4, <2>5, <2>6, <2>7, RetireSteps
<1> QED
  BY <1>2, <1>3

\* A slot that was passed by stays so until the retirement ends.
LEMMA SkippedStays ==
    ASSUME Base, NEW t \in Threads, Acts(t), loc[t].pc \in RetireLabels,
           loc'[t].pc \in RetireLabels
    PROVE  Skipped(t) \subseteq Skipped(t)' /\ (Passes(t) => loc[t].slot \in Skipped(t)')
<1>1. /\ loc[t].slot \in 0 .. NumSlots - 1 /\ NumSlots \in Nat
      /\ Slots = 0 .. NumSlots - 1
  BY AheadIsSlots, Constants
<1>2. /\ loc[t].pc \in {"retireAccess", "retireLoad", "retireCas"} =>
           loc[t].slot \notin loc[t].into
  BY ThreadNow DEF RetireOK
<1>3. ASSUME loc[t].pc # "retireFinish", loc'[t].pc # "retireFinish",
             loc'[t].slot = loc[t].slot, loc'[t].into \subseteq loc[t].into \union {loc[t].slot}
      PROVE  Skipped(t) \subseteq Skipped(t)'
  <2>1. Skipped(t) = (0 .. loc[t].slot - 1) \ loc[t].into
    BY <1>3 DEF Skipped
  <2>2. Skipped(t)' = (0 .. loc'[t].slot - 1) \ loc'[t].into
    BY <1>3 DEF Skipped
  <2> QED
    BY <1>1, <1>3, <2>1, <2>2
<1>4. ASSUME loc[t].pc # "retireFinish", NEW d, Advanced(loc[t], loc'[t], d)
      PROVE  /\ Skipped(t) \subseteq Skipped(t)'
             /\ loc[t].slot \notin loc[t].into => loc[t].slot \in Skipped(t)'
  <2>1. Skipped(t) = (0 .. loc[t].slot - 1) \ loc[t].into
    BY <1>4 DEF Skipped
  <2>2. loc'[t].into = loc[t].into
    BY <1>4 DEF Advanced
  <2>3. CASE loc'[t].slot = loc[t].slot + 1 /\ loc'[t].pc = "retireAccess"
    <3>1. Skipped(t)' = (0 .. loc'[t].slot - 1) \ loc'[t].into
      BY <2>3 DEF Skipped, RetireLabels
    <3> QED
      BY <1>1, <2>1, <2>2, <2>3, <3>1
  <2>4. CASE loc[t].slot + 1 = NumSlots /\ loc'[t].pc = "retireFinish"
    <3>1. Skipped(t)' = Slots \ loc'[t].into
      BY <2>4 DEF Skipped
    <3> QED
      BY <1>1, <2>1, <2>2, <2>4, <3>1
  <2>5. (loc'[t].slot = loc[t].slot + 1 /\ loc'[t].pc = "retireAccess")
        \/ (loc[t].slot + 1 = NumSlots /\ loc'[t].pc = "retireFinish")
    BY <1>4 DEF Advanced, RetireLabels
  <2> QED
    BY <2>3, <2>4, <2>5
<1>5. CASE Passes(t)
  <2>1. loc[t].pc # "retireFinish" /\ loc[t].slot \notin loc[t].into
        /\ Advanced(loc[t], loc'[t], TRUE)
    BY <1>2, <1>5 DEF Passes
  <2> QED
    BY <1>4, <2>1
<1>6. CASE ~Passes(t)
  <2>1. CASE loc[t].pc = "retireCount" /\ Advanced(loc[t], loc'[t], loc[t].doAdjs)
    BY <1>4, <1>6, <2>1
  <2>2. CASE ~(loc[t].pc = "retireCount" /\ Advanced(loc[t], loc'[t], loc[t].doAdjs))
    <3>1. /\ loc[t].pc # "retireFinish" /\ loc'[t].pc # "retireFinish"
          /\ loc'[t].slot = loc[t].slot
          /\ loc'[t].into \subseteq loc[t].into \union {loc[t].slot}
      BY <1>6, <2>2, RetireSteps DEF RetireLabels
    <3> QED
      BY <1>3, <1>6, <3>1
  <2> QED
    BY <2>1, <2>2
<1> QED
  BY <1>5, <1>6

\* Somebody is in the slot of a thread that is inside.
LEMMA SomeoneIn ==
    ASSUME Base, NEW u \in Threads, In(u)
    PROVE  head[loc[u].vec].refs # 0
<1>1. loc[u] \in Local /\ loc[u].vec \in Slots
  BY ThreadNow, Fields
<1>2. P!SlotsAgree /\ loc[u].vec \in P!Slots
  BY <1>1, SameWords DEF Base, P!CoreInv
<1>3. head[loc[u].vec].refs = Cardinality(Inside(loc[u].vec))
  BY <1>2, SameInside, SameSize DEF P!SlotsAgree
<1>4. u \in Inside(loc[u].vec) /\ IsFiniteSet(Inside(loc[u].vec))
  BY Constants, FS_Subset DEF Inside
<1> QED
  BY <1>3, <1>4, FS_EmptySet

\* A batch that is put into a slot is within reach of the threads there.
LEMMA PutsWithin ==
    ASSUME Base, RetirerInv, NEW t \in Threads, Acts(t), Puts(t), NEW u \in Threads,
           loc[u].vec = loc[t].slot, loc[u].inside, NEW b, b = loc[t].batch
    PROVE  Within(u, b)'
<1>1. head' = [head EXCEPT ![loc[t].slot].ptr = loc[t].batch]
  BY DEF Puts, RetireCas
<1>2. loc'[u].vec = loc[u].vec
  <2>1. ~EnterAdd(t) \/ u # t
    BY ThreadNow DEF EnterAdd, At, ControlOK, EnterLabels
  <2> QED
    BY <2>1, VecStays
<1>3. loc[t].slot \in Slots
  BY ThreadNow, Fields
<1>4. head'[loc[t].slot].ptr = loc[t].batch
  BY <1>1, <1>3, ThreadNow DEF TypeOK, HeadWord
<1> QED
  BY <1>2, <1>4 DEF Within

\* A retirement that passes no slot by puts the batch in its thread's own.
LEMMA RetirerActs ==
    ASSUME Base, RetirerInv, NEW t \in Threads, Acts(t)
    PROVE  RetirerInv'
<1> SUFFICES ASSUME NEW v \in Threads, loc'[v].pc \in RetireLabels, Skipped(v)' = {}
             PROVE  (Within(v, loc[v].batch) \/ loc[v].vec \in Ahead(v))'
  BY DEF RetirerInv
<1>1. CASE loc[v].pc \in RetireLabels
  <2>1. Skipped(v) = {} /\ loc'[v].batch = loc[v].batch /\ (v = t => ~Passes(t))
    <3>1. CASE v # t
      <4>1. loc'[v] = loc[v]
        BY <3>1, Frames DEF Moves, Others
      <4>2. Skipped(v)' = Skipped(v)
        BY <4>1 DEF Skipped
      <4> QED
        BY <3>1, <4>1, <4>2
    <3>2. CASE v = t
      BY <1>1, <3>2, SkippedStays, RetireSteps
    <3> QED
      BY <3>1, <3>2
  <2>2. loc[v].inside /\ loc[v].batch \in Batches
        /\ (v = t => ~\E th \in TrimThresholds : Trim(t, th))
    BY <1>1, ThreadNow, Addresses DEF ControlOK, RetireLabels, Trim, At
  <2>6. PICK b \in Batches : b = loc[v].batch
    BY <2>2
  <2>5. b = loc[v].batch /\ b = loc'[v].batch /\ b \in Batches
    BY <2>1, <2>6
  <2>3. CASE Within(v, b)
    <3>1. Within(v, b)'
      BY <2>2, <2>3, <2>5, WithinStays
    <3> QED
      BY <2>5, <3>1 DEF Within
  <2>4. CASE loc[v].vec \in Ahead(v)
    <3>1. loc'[v].vec = loc[v].vec
      BY <1>1, VecStays DEF EnterAdd, At, RetireLabels
    <3>2. CASE loc[v].vec \in Ahead(v)'
      BY <3>1, <3>2
    <3>3. CASE loc[v].vec \notin Ahead(v)'
      <4>1. v = t /\ loc[v].vec = loc[t].slot /\ Puts(t)
        BY <2>1, <2>4, <3>3, AheadStays
      <4>2. Within(v, b)'
        BY <2>2, <2>5, <4>1, PutsWithin
      <4> QED
        BY <2>5, <4>2 DEF Within
    <3> QED
      BY <3>2, <3>3
  <2> QED
    BY <1>1, <2>1, <2>3, <2>4, <2>5 DEF RetirerInv
<1>2. CASE loc[v].pc \notin RetireLabels
  <2>1. v = t
    BY <1>2, Frames DEF Moves, Others
  <2>2. \E e \in 0 .. global : Retire(t, e)
    <3>1. TypeOK
      BY ThreadNow
    <3>2. ~(EnterLook(t) \/ EnterAdd(t) \/ EndCall(t, Empty) \/ LeaveLoad(t))
      <4>1. EnterLook(t) \/ EnterAdd(t) \/ EndCall(t, Empty) \/ LeaveLoad(t)
            => loc'[t].pc \notin RetireLabels
        BY <3>1, EnterLookDoes, EnterAddDoes, EndCallDoes, LeaveLoadDoes DEF RetireLabels
      <4> QED
        BY <2>1, <4>1
    <3>3. ~(Deref(t) \/ DerefLoad(t) \/ DerefEpoch(t) \/ DerefAccess(t))
      <4>1. Deref(t) \/ DerefLoad(t) => loc'[t].pc \notin RetireLabels
        BY <3>1, DerefDoes, DerefLoadDoes DEF RetireLabels
      <4>2. DerefEpoch(t) => loc'[t].pc \notin RetireLabels
        BY <3>1, DerefEpochDoes DEF RetireLabels
      <4>3. DerefAccess(t) => loc'[t].pc \notin RetireLabels
        BY <3>1, DerefAccessDoes DEF RetireLabels
      <4> QED
        BY <2>1, <4>1, <4>2, <4>3
    <3>4. ~\E th \in TrimThresholds : Trim(t, th)
      <4>1. (\E th \in TrimThresholds : Trim(t, th)) => loc'[t].pc \notin RetireLabels
        BY <3>1, TrimDoes DEF RetireLabels
      <4> QED
        BY <2>1, <4>1
    <3>5. ~(\E b \in Batches : Free(t, b))
      <4>1. (\E b \in Batches : Free(t, b)) => loc'[t].pc \notin RetireLabels
        BY <3>1, FreeDoes DEF RetireLabels
      <4> QED
        BY <2>1, <4>1
    <3>6. ~(TravRead(t) \/ TravDrop(t) \/ TrimRead(t) \/ LeaveRead(t))
      <4>0. /\ LeaveRead(t) => loc[t].last.ptr \in Batches
            /\ TrimRead(t) => loc[t].smr \in Batches
            /\ TravDrop(t) => loc[t].walk.curr \in Batches
        BY Addresses DEF LeaveRead, TrimRead, TravDrop, At
      <4>1. TravRead(t) \/ TrimRead(t) \/ LeaveRead(t) => loc'[t].pc \notin RetireLabels
        BY <3>1, <4>0, TravReadDoes, TrimReadDoes, LeaveReadDoes DEF RetireLabels
      <4>2. TravDrop(t) => loc'[t].pc \notin RetireLabels
        BY <3>1, <4>0, TravDropDoes DEF RetireLabels
      <4> QED
        BY <2>1, <4>1, <4>2
    <3>7. ~(LeaveCas(t) \/ LeaveClear(t) \/ LeaveAdjust(t) \/ Ack(t))
      <4>1. ASSUME NEW l, Returned(l, loc'[t]) PROVE loc'[t].pc \notin RetireLabels
        BY <4>1 DEF Returned, RetireLabels
      <4>2. ASSUME NEW l, Traversed(l, loc'[t]) PROVE loc'[t].pc \notin RetireLabels
        BY <4>1, <4>2 DEF Traversed, RetireLabels
      <4>3. Ack(t) => loc'[t].pc \notin RetireLabels
        BY <3>1, <4>1, AckDoes
      <4>4. LeaveAdjust(t) => loc'[t].pc \notin RetireLabels
        <5>1. LeaveAdjust(t) => loc[t].last.ptr \in Batches
          BY Addresses DEF LeaveAdjust, At
        <5> QED
          BY <3>1, <4>2, <5>1, LeaveAdjustDoes
      <4>5. LeaveClear(t) => loc'[t].pc \notin RetireLabels
        BY <3>1, <4>2, LeaveClearDoes DEF RetireLabels
      <4>6. LeaveCas(t) => loc'[t].pc \notin RetireLabels
        BY <3>1, <4>2, LeaveCasDoes DEF RetireLabels, Loaded
      <4> QED
        BY <2>1, <4>3, <4>4, <4>5, <4>6
    <3>8. ~(RetireAccess(t) \/ RetireLoad(t) \/ RetireCas(t) \/ RetireAdjust(t)
            \/ RetireCount(t) \/ RetireFinish(t))
      BY <1>2, <2>1 DEF RetireAccess, RetireLoad, RetireCas, RetireAdjust, RetireCount,
         RetireFinish, At, RetireLabels
    <3> QED
      BY <3>2, <3>3, <3>4, <3>5, <3>6, <3>7, <3>8, ActsIs
  <2>3. /\ loc'[t].pc = "retireAccess" /\ loc'[t].slot = 0 /\ loc'[t].vec \in Slots
    <3>1. PICK e \in 0 .. global : Retire(t, e)
      BY <2>2
    <3>2. /\ Moves(t) /\ loc'[t].pc = "retireAccess" /\ loc'[t].slot = loc[t].slot
          /\ loc[t].pc = "idle"
      BY <3>1, ThreadNow, RetireDoes
    <3>3. loc[t].slot = 0
      BY <3>2, ThreadNow DEF ControlOK, LocalsOK
    <3>4. loc'[t].vec \in Slots
      BY <3>2, Fields DEF Moves
    <3> QED
      BY <3>2, <3>3, <3>4
  <2> QED
    BY <2>1, <2>3, Constants DEF Ahead
<1> QED
  BY <1>1, <1>2

-----------------------------------------------------------------------------
(* The pointers of the client.                                             *)

\* A thread comes by a claim when it loads the root while the epoch of its
\* slot is the global one.
LEMMA ClaimsStep ==
    ASSUME Base, RetirerInv, NEW t \in Threads, Acts(t), NEW u \in Threads,
           NEW b, b \in Claims(u)'
    PROVE  \/ b \in Claims(u) /\ (u = t => ~\E th \in TrimThresholds : Trim(t, th))
           \/ u = t /\ DerefLoad(t) /\ b = root /\ root # NULL /\ loc[t].acc = global
<1>1. TypeOK /\ Moves(t) /\ global' = global /\ ControlOK(t)
  BY Frames, ThreadNow
<1>2. CASE u # t
  <2>1. loc'[u] = loc[u]
    BY <1>1, <1>2 DEF Moves, Others
  <2> QED
    BY <1>1, <1>2, <2>1 DEF Claims, At
<1>3. CASE u = t
  <2>0. ASSUME loc'[t].holds \subseteq loc[t].holds, loc'[t].pc # "derefEpoch"
        PROVE  b \in Claims(t)
    BY <1>3, <2>0 DEF Claims, At
  <2>1. CASE DerefLoad(t)
    <3>1. /\ loc'[t].pc = "derefEpoch" /\ loc'[t].holds = loc[t].holds
          /\ loc'[t].value = root /\ loc'[t].acc = loc[t].acc
      BY <1>1, <2>1, DerefLoadDoes DEF SameClient
    <3>2. b \in loc[t].holds \/ (loc[t].acc = global /\ b = root /\ root # NULL)
      BY <1>1, <1>3, <3>1 DEF Claims, At
    <3>3. ~\E th \in TrimThresholds : Trim(t, th)
      BY <2>1 DEF DerefLoad, Trim, At
    <3> QED
      BY <1>3, <2>1, <3>2, <3>3 DEF Claims
  <2>2. CASE DerefEpoch(t)
    <3>1. /\ loc[t].pc = "derefEpoch" /\ loc'[t].pc # "derefEpoch"
          /\ \/ /\ loc[t].acc = global
                /\ loc'[t].holds = loc[t].holds \union ({loc[t].value} \ {NULL})
             \/ loc'[t].holds = loc[t].holds
      BY <1>1, <2>2, DerefEpochDoes
    <3>2. b \in Claims(t)
      BY <1>3, <3>1 DEF Claims, At
    <3>3. ~\E th \in TrimThresholds : Trim(t, th)
      BY <3>1 DEF Trim, At
    <3> QED
      BY <1>3, <3>2, <3>3
  <2>3. CASE \E th \in TrimThresholds : Trim(t, th)
    <3>1. loc'[t].holds = {} /\ loc'[t].pc # "derefEpoch"
      <4>1. PICK th \in TrimThresholds : Trim(t, th)
        BY <2>3
      <4>2. loc'[t].holds = {} /\ loc'[t].pc \in {"idle", "trimRead"}
        BY <1>1, <4>1, TrimDoes
      <4> QED
        BY <4>2
    <3> QED
      BY <1>3, <3>1 DEF Claims, At
  <2>4. CASE /\ ~DerefLoad(t) /\ ~DerefEpoch(t)
             /\ ~\E th \in TrimThresholds : Trim(t, th)
    <3> DEFINE Keeps0 == loc'[t].holds \subseteq loc[t].holds /\ loc'[t].pc # "derefEpoch"
    <3>1. EnterLook(t) \/ EnterAdd(t) \/ EndCall(t, Empty) \/ LeaveLoad(t) => Keeps0
      BY <1>1, EnterLookDoes, EnterAddDoes, EndCallDoes, LeaveLoadDoes DEF SameClient
    <3>2. Deref(t) \/ DerefAccess(t) => Keeps0
      <4>1. Deref(t) => Keeps0
        BY <1>1, DerefDoes DEF SameClient
      <4>2. DerefAccess(t) => Keeps0
        BY <1>1, DerefAccessDoes DEF SameClient
      <4> QED
        BY <4>1, <4>2
    <3>3. (\E e \in 0 .. global : Retire(t, e)) => Keeps0
      BY <1>1, RetireDoes DEF SameClient
    <3>4. (\E c \in Batches : Free(t, c)) => Keeps0
      BY <1>1, FreeDoes DEF SameClient
    <3>5. TravRead(t) \/ TravDrop(t) \/ TrimRead(t) \/ LeaveRead(t) => Keeps0
      <4>0. /\ LeaveRead(t) => loc[t].last.ptr \in Batches
            /\ TrimRead(t) => loc[t].smr \in Batches
            /\ TravDrop(t) => loc[t].walk.curr \in Batches
        BY Addresses DEF LeaveRead, TrimRead, TravDrop, At
      <4>1. TravRead(t) \/ TrimRead(t) \/ LeaveRead(t) => Keeps0
        BY <1>1, <4>0, TravReadDoes, TrimReadDoes, LeaveReadDoes DEF SameClient
      <4>2. TravDrop(t) => Keeps0
        BY <1>1, <4>0, TravDropDoes DEF SameClient
      <4> QED
        BY <4>1, <4>2
    <3>6. LeaveCas(t) \/ LeaveClear(t) \/ LeaveAdjust(t) \/ Ack(t) => Keeps0
      <4>1. ASSUME NEW l, Returned(l, loc'[t]), SameClient(loc[t], l) PROVE Keeps0
        BY <4>1 DEF Returned, SameClient
      <4>2. ASSUME NEW l, Traversed(l, loc'[t]), SameClient(loc[t], l) PROVE Keeps0
        <5>1. CASE l.last.ptr # l.smr
          BY <4>2, <5>1 DEF Traversed, SameClient
        <5>2. CASE l.last.ptr = l.smr
          BY <4>1, <4>2, <5>2 DEF Traversed
        <5> QED
          BY <5>1, <5>2
      <4>3. SameClient(loc[t], loc[t])
        BY DEF SameClient
      <4>4. Ack(t) => Keeps0
        BY <1>1, <4>1, <4>3, AckDoes
      <4>5. LeaveAdjust(t) => Keeps0
        <5>1. LeaveAdjust(t) => loc[t].last.ptr \in Batches
          BY Addresses DEF LeaveAdjust, At
        <5>2. LeaveAdjust(t) =>
                \E l \in Local : Traversed(l, loc'[t]) /\ SameClient(loc[t], l)
          BY <1>1, <5>1, LeaveAdjustDoes
        <5> QED
          BY <4>2, <5>2
      <4>6. LeaveClear(t) => Keeps0
        <5>1. LeaveClear(t) =>
                \/ SameClient(loc[t], loc'[t]) /\ loc'[t].pc = "leaveAdjust"
                \/ Traversed(loc[t], loc'[t])
          BY <1>1, LeaveClearDoes
        <5> QED
          BY <4>2, <4>3, <5>1 DEF SameClient
      <4>7. LeaveCas(t) => Keeps0
        <5>1. LeaveCas(t) =>
                \/ /\ SameClient(loc[t], loc'[t])
                   /\ loc'[t].pc \in {"leaveAdjust", "leaveClear", "leaveRead", "leaveCas"}
                \/ Traversed(loc[t], loc'[t])
          BY <1>1, LeaveCasDoes DEF Loaded
        <5> QED
          BY <4>2, <4>3, <5>1 DEF SameClient
      <4> QED
        BY <4>4, <4>5, <4>6, <4>7
    <3>7. ASSUME loc[t].pc \in RetireLabels PROVE Keeps0
      <4>1. SameClient(loc[t], loc'[t])
        <5>1. ASSUME NEW w, Tried(loc[t], loc'[t], w) PROVE SameClient(loc[t], loc'[t])
          BY <5>1 DEF Tried, Passed, Advanced
        <5>2. RetireAccess(t) => SameClient(loc[t], loc'[t])
          BY <1>1, RetireAccessDoes DEF Passed, Advanced
        <5>3. RetireLoad(t) => SameClient(loc[t], loc'[t])
          BY <1>1, <5>1, RetireLoadDoes
        <5>4. RetireCas(t) => SameClient(loc[t], loc'[t])
          BY <1>1, <5>1, RetireCasDoes
        <5>5. RetireAdjust(t) => SameClient(loc[t], loc'[t])
          <6>1. RetireAdjust(t) => loc[t].last.ptr \in Batches
            BY Addresses DEF RetireAdjust, At
          <6> QED
            BY <1>1, <6>1, RetireAdjustDoes
        <5>6. RetireCount(t) => SameClient(loc[t], loc'[t])
          BY <1>1, RetireCountDoes DEF Advanced
        <5>7. RetireFinish(t) => SameClient(loc[t], loc'[t])
          BY <1>1, <3>7, Addresses, RetireFinishDoes
        <5> QED
          BY <3>7, <5>2, <5>3, <5>4, <5>5, <5>6, <5>7, RetireActs
      <4>2. loc'[t].pc \in RetireLabels \union {"free"}
        BY <3>7, RetireSteps DEF RetireLabels, Passes, Advanced
      <4> QED
        BY <4>1, <4>2 DEF SameClient, RetireLabels
    <3>8. ASSUME loc[t].pc \notin RetireLabels
          PROVE  ~(RetireAccess(t) \/ RetireLoad(t) \/ RetireCas(t) \/ RetireAdjust(t)
                   \/ RetireCount(t) \/ RetireFinish(t))
      BY <3>8 DEF RetireAccess, RetireLoad, RetireCas, RetireAdjust, RetireCount,
         RetireFinish, At, RetireLabels
    <3> HIDE DEF Keeps0
    <3>9. Keeps0
      BY <2>4, <3>1, <3>2, <3>3, <3>4, <3>5, <3>6, <3>7, <3>8, ActsIs
    <3> QED
      BY <1>3, <2>0, <2>4, <3>9 DEF Keeps0
  <2> QED
    BY <2>1, <2>2, <2>3, <2>4
<1> QED
  BY <1>2, <1>3

\* Only a caller inside has a claim.
LEMMA ClaimsInside ==
    ASSUME Base, NEW u \in Threads, NEW b \in Claims(u)
    PROVE  loc[u].inside /\ b \in Batches
<1>1. ControlOK(u) /\ loc[u] \in Local
  BY ThreadNow
<1> QED
  BY <1>1, Fields DEF Claims, At, ControlOK, DerefLabels, Ptr

\* A claim keeps the batch: it is not freed, and a retirement that has not
\* passed by the slot will not, since the batch was born by its epoch.
LEMMA ClaimActs ==
    ASSUME Base, RetirerInv, ClaimInv, NEW t \in Threads, Acts(t)
    PROVE  ClaimInv'
<1>1. /\ TypeOK /\ ObjectInv /\ global' = global /\ access' \in [Slots -> Epoch]
      /\ \A s \in Slots : access[s] <= access'[s]
  BY Frames, ThreadNow DEF Base
<1>2. SUFFICES ASSUME NEW u \in Threads, NEW b \in Claims(u)'
               PROVE  /\ status'[b] \in {"linked", "retired"}
                      /\ birth'[b] <= access'[loc'[u].vec]
                      /\ status'[b] = "retired" =>
                           \/ Within(u, b)'
                           \/ \E v \in Threads : Retiring(v, b)' /\ loc'[u].vec \in Ahead(v)'
  BY DEF ClaimInv
<1>3. CASE b \in Claims(u) /\ (u = t => ~\E th \in TrimThresholds : Trim(t, th))
  <2>1. /\ loc[u].inside /\ b \in Batches /\ loc[u].vec \in Slots
        /\ birth[b] \in Epoch /\ access[loc[u].vec] \in Epoch
    BY <1>1, <1>3, ClaimsInside, ThreadNow, Fields DEF TypeOK
  <2>2. /\ status[b] \in {"linked", "retired"} /\ birth[b] <= access[loc[u].vec]
        /\ status[b] = "retired" =>
             \/ Within(u, b)
             \/ \E v \in Threads : Retiring(v, b) /\ loc[u].vec \in Ahead(v)
    BY <1>3 DEF ClaimInv
  <2>3. loc'[u].vec = loc[u].vec
    <3>1. u = t => ~EnterAdd(t)
      BY <2>1, ThreadNow DEF EnterAdd, At, ControlOK, EnterLabels
    <3> QED
      BY <3>1, VecStays
  <2>4. status[b] = "retired" => b \notin loc[t].list
    <3>1. SUFFICES ASSUME status[b] = "retired" PROVE b \notin loc[t].list
      OBVIOUS
    <3>2. \/ \E v \in Threads : Within(v, b)
          \/ \E v \in Threads : Retiring(v, b) /\ Ahead(v) \union Skipped(v) # {}
      BY <2>2, <3>1
    <3> QED
      BY <2>1, <3>2, WaitsFor
  <2>5. /\ status'[b] \in {"linked", "retired"} /\ birth'[b] = birth[b]
        /\ status[b] # "retired" /\ status'[b] = "retired" =>
             b = root /\ \E e \in 0 .. global : Retire(t, e)
    <3>1. CASE \E c \in Batches :
                /\ c \in loc[t].list /\ status[c] = "retired" /\ root' = root
                /\ status' = [status EXCEPT ![c] = "freed"]
                /\ birth' = [birth EXCEPT ![c] = 0]
      BY <1>1, <2>1, <2>2, <2>4, <3>1 DEF TypeOK
    <3>2. CASE /\ \E e \in 0 .. global : Retire(t, e)
               /\ root \in Batches /\ status[root] = "linked" /\ root' = NULL
               /\ status' = [status EXCEPT ![root] = "retired"] /\ birth' = birth
      BY <1>1, <2>1, <2>2, <3>2 DEF TypeOK
    <3>3. CASE status' = status /\ root' = root /\ birth' = birth
      BY <2>2, <3>3
    <3> QED
      BY <3>1, <3>2, <3>3, StatusSteps
  <2>6. birth'[b] <= access'[loc'[u].vec]
    <3>1. /\ access[loc[u].vec] <= access'[loc[u].vec] /\ access'[loc[u].vec] \in Epoch
      BY <1>1, <2>1
    <3> QED
      BY <2>1, <2>2, <2>3, <2>5, <3>1, Constants DEF Epoch
  <2>7. ASSUME status[b] = "retired"
        PROVE  \/ Within(u, b)'
               \/ \E v \in Threads : Retiring(v, b)' /\ loc'[u].vec \in Ahead(v)'
    <3>1. CASE Within(u, b)
      BY <1>3, <2>1, <3>1, WithinStays
    <3>2. CASE \E v \in Threads : Retiring(v, b) /\ loc[u].vec \in Ahead(v)
      <4>1. PICK v \in Threads : Retiring(v, b) /\ loc[u].vec \in Ahead(v)
        BY <3>2
      <4>2. loc[v].batch = b /\ loc'[v].batch = b
        BY <4>1, AheadStays DEF Retiring
      <4>3. CASE loc[u].vec \in Ahead(v)' /\ loc'[v].pc \in RetireLabels
        BY <2>3, <4>2, <4>3 DEF Retiring
      <4>4. CASE v = t /\ loc[u].vec = loc[t].slot /\ Puts(t)
        BY <2>1, <4>2, <4>4, PutsWithin
      <4>5. CASE v = t /\ loc[u].vec = loc[t].slot /\ Passes(t)
        <5>1. loc[t].min <= birth[b] /\ loc[t].min \in Epoch
          BY <4>1, <4>2, <4>5, ThreadNow, Fields DEF RetireOK, Retiring
        <5>2. access[loc[t].slot] >= loc[t].min
          BY <2>1, <2>2, <4>5, <5>1, Constants DEF Epoch
        <5>3. head[loc[t].slot].refs # 0
          BY <2>1, <4>5, SomeoneIn DEF In
        <5> QED
          BY <4>5, <5>2, <5>3 DEF Passes
      <4> QED
        BY <4>1, <4>3, <4>4, <4>5, AheadStays
    <3> QED
      BY <2>2, <2>7, <3>1, <3>2
  <2>8. ASSUME status[b] # "retired", status'[b] = "retired"
        PROVE  \E v \in Threads : Retiring(v, b)' /\ loc'[u].vec \in Ahead(v)'
    <3>1. PICK e \in 0 .. global : Retire(t, e)
      BY <2>5, <2>8
    <3>2. /\ Moves(t) /\ loc'[t].pc = "retireAccess" /\ loc'[t].slot = loc[t].slot
          /\ loc[t].pc = "idle" /\ loc'[t].batch = root
      BY <3>1, ThreadNow, RetireDoes
    <3>3. loc[t].slot = 0
      BY <3>2, ThreadNow DEF ControlOK, LocalsOK
    <3>4. Retiring(t, b)'
      BY <2>5, <2>8, <3>2 DEF Retiring, RetireLabels
    <3>5. Ahead(t)' = Slots
      BY <3>2, <3>3, Constants DEF Ahead
    <3> QED
      BY <2>1, <2>3, <3>4, <3>5
  <2> QED
    BY <2>5, <2>6, <2>7, <2>8
<1>4. CASE u = t /\ DerefLoad(t) /\ b = root /\ root # NULL /\ loc[t].acc = global
  <2>1. /\ loc[t].pc = "derefLoad" /\ loc'[t].vec = loc[t].vec
    BY <1>1, <1>4, DerefLoadDoes DEF SameClient
  <2>2. status' = status /\ birth' = birth /\ access' = access
    BY <1>4 DEF DerefLoad, epochs, memory, structure
  <2>3. status[b] = "linked" /\ birth[b] <= global /\ b \in Batches
    BY <1>1, <1>4 DEF ObjectInv, TypeOK, Ptr
  <2>4. loc[t].acc <= access[loc[t].vec]
    BY <2>1, ThreadNow DEF EpochOK, DerefLabels
  <2>6. loc[t].vec \in Slots /\ birth[b] \in Epoch /\ loc[t].acc \in Epoch
        /\ access[loc[t].vec] \in Epoch
    BY <1>1, <2>3, ThreadNow, Fields DEF TypeOK
  <2>5. birth[b] <= access[loc[t].vec]
    BY <1>4, <2>3, <2>4, <2>6, Constants DEF Epoch
  <2> QED
    BY <1>4, <2>1, <2>2, <2>3, <2>5
<1> QED
  BY <1>3, <1>4, ClaimsStep

\* A change of the client's structure disturbs neither.
LEMMA ClaimStructure ==
    ASSUME Base, RetirerInv, ClaimInv, Structure, UNCHANGED <<head, counter, history>>
    PROVE  ClaimInv' /\ RetirerInv'
<1>1. TypeOK /\ TypeOK' /\ ObjectInv /\ ObjectInv'
  BY TypeStructure, ObjectStructure DEF Base
<1>2. PICK c \in Batches : Alloc(c) \/ Link(c)
  BY DEF Structure
<1>3. loc' = loc /\ access' = access /\ head' = head /\ held' = held
  BY <1>2 DEF Alloc, Link, epochs, history, owed
<1>4. /\ \A t \in Threads : Ahead(t)' = Ahead(t) /\ Skipped(t)' = Skipped(t)
      /\ \A t \in Threads : \A b : /\ Within(t, b)' <=> Within(t, b)
                                   /\ Retiring(t, b)' <=> Retiring(t, b)
  BY <1>3 DEF Ahead, Skipped, Within, Retiring
<1>5. global <= global'
  BY <1>1, <1>2, Constants DEF Alloc, Link, epochs, TypeOK, Epoch
<1>6. RetirerInv'
  BY <1>3, <1>4 DEF RetirerInv, Within
<1>7. \A t \in Threads : Claims(t)' \subseteq Claims(t)
  <2>1. SUFFICES ASSUME NEW t \in Threads, loc[t].pc = "derefEpoch", loc[t].acc = global'
                 PROVE  loc[t].acc = global
    BY <1>3 DEF Claims, At
  <2>2. loc[t].acc <= access[loc[t].vec] /\ loc[t].vec \in Slots /\ loc[t].acc \in Epoch
    BY <2>1, ThreadNow, Fields DEF EpochOK, DerefLabels
  <2>3. access[loc[t].vec] <= global /\ access[loc[t].vec] \in Epoch /\ global \in Epoch
    BY <1>1, <2>2 DEF ObjectInv, TypeOK
  <2> QED
    BY <1>5, <2>1, <2>2, <2>3, Constants DEF Epoch
<1>8. ASSUME NEW b \in Batches, status[b] \in {"linked", "retired"}
      PROVE  status'[b] = status[b] /\ birth'[b] = birth[b]
  <2>1. CASE Alloc(c)
    BY <1>1, <1>8, <2>1 DEF Alloc, TypeOK
  <2>2. CASE Link(c)
    BY <1>1, <1>8, <2>2 DEF Link, TypeOK, memory
  <2> QED
    BY <1>2, <2>1, <2>2
<1>9. ClaimInv'
  <2>1. SUFFICES ASSUME NEW t \in Threads, NEW b \in Claims(t)
                 PROVE  /\ status'[b] \in {"linked", "retired"}
                        /\ birth'[b] <= access'[loc'[t].vec]
                        /\ status'[b] = "retired" =>
                             \/ Within(t, b)
                             \/ \E u \in Threads : Retiring(u, b) /\ loc[t].vec \in Ahead(u)
    BY <1>3, <1>4, <1>7 DEF ClaimInv
  <2>2. b \in Batches
    BY ClaimsInside
  <2> QED
    BY <1>3, <1>8, <2>2 DEF ClaimInv
<1> QED
  BY <1>6, <1>9

-----------------------------------------------------------------------------
(* The memory that a call touches.                                         *)

\* What a thread owes, or finds linked in its slot, waits to be freed.
LEMMA LinkedWaits ==
    ASSUME Base, NEW t \in Threads, NEW b \in Batches, P!Linked(t, b)
    PROVE  status[b] = "retired" /\ \A u \in Threads : b \notin loc[u].list
<1>1. P!Open(b) # {} \/ P!Owers(b) # {}
  <2>1. CASE P!Owes(t, b)
    BY <2>1 DEF P!Owers
  <2>2. CASE P!In(t) /\ head[absVec[t]].ptr = b
    <3>1. absVec[t] \in P!Slots
      BY DEF Base, P!CoreInv, P!TypeOK
    <3> QED
      BY <2>2, <3>1 DEF P!Open
  <2> QED
    BY <2>1, <2>2 DEF P!Linked
<1>2. absStatus[b] = "retired" /\ ~P!Listed(b)
  <2>1. P!RefsInv
    BY DEF Base, P!CoreInv
  <2> QED
    BY <1>1, <2>1 DEF P!RefsInv
<1> QED
  BY <1>2 DEF absStatus, P!Listed, absList, ListOf

\* A batch that a call is about to adjust the counter of waits as well.
LEMMA AdjustedWaits ==
    ASSUME Base, NEW t \in Threads, loc[t].pc \in {"leaveAdjust", "retireAdjust"}
    PROVE  LET b == loc[t].last.ptr
           IN  /\ b \in Batches /\ status[b] = "retired"
               /\ \A u \in Threads : b \notin loc[u].list
<1> DEFINE b == loc[t].last.ptr
<1>1. b \in Batches
  BY Addresses
<1>2. P!Open(b) # {}
  <2>1. absLast[t].ptr = b /\ absPc[t] = loc[t].pc
    BY Image, ThreadNow DEF PcOf, ControlOK, LeaveLabels, RetireLabels
  <2>2. absVec[t] \in P!Slots /\ absSlot[t] \in P!Slots
    BY DEF Base, P!CoreInv, P!TypeOK
  <2>3. \E s \in P!Slots : P!Keeps(t, b, s)
    BY <2>1, <2>2 DEF P!Keeps, P!Adjusts
  <2> QED
    BY <2>3 DEF P!Open
<1>3. absStatus[b] = "retired" /\ ~P!Listed(b)
  <2>1. P!RefsInv
    BY DEF Base, P!CoreInv
  <2> QED
    BY <1>1, <1>2, <2>1 DEF P!RefsInv
<1> QED
  BY <1>1, <1>3 DEF absStatus, P!Listed, absList, ListOf

\* A thread that follows the list of its slot.
LEMMA WalkedWaits ==
    ASSUME Base, NEW t \in Threads, NEW b,
           \/ loc[t].pc = "leaveRead" /\ b = loc[t].last.ptr
           \/ loc[t].pc = "trimRead" /\ b = loc[t].smr
           \/ loc[t].pc = "travRead" /\ b = loc[t].walk.nxt /\ b # NULL
           \/ loc[t].pc = "travDrop" /\ b = loc[t].walk.curr
    PROVE  b \in Batches /\ P!Linked(t, b)
<1>1. /\ P!TypeOK /\ P!ThreadInv /\ todo[t] \in Seq(Batches)
      /\ absPc[t] = PcOf(loc[t]) /\ absLast[t] = loc[t].last
      /\ absSmr[t] = SmrOf(loc[t]) /\ absWalk[t] = WalkOf(loc[t])
  BY Image DEF Base, P!CoreInv, TypeOK
<1>2. loc[t].op \notin {"none", "enter", "deref"}
      \/ loc[t].pc \notin {"leaveRead", "trimRead", "travRead", "travDrop"}
  BY ThreadNow DEF ControlOK, EnterLabels, DerefLabels, LeaveLabels
<1>3. CASE loc[t].pc = "leaveRead"
  <2>1. absPc[t] = "leaveRead" /\ absSmr[t] = loc[t].smr
    BY <1>1, <1>2, <1>3 DEF PcOf, SmrOf, Out
  <2>2. absLast[t].ptr # absSmr[t]
    BY <1>1, <2>1 DEF P!ThreadInv, P!ThreadOK, P!LeavesOK
  <2> QED
    BY <1>1, <1>3, <2>1, <2>2, P!LeavesHead, CoreAssumption
<1>4. CASE loc[t].pc = "trimRead"
  <2>1. absPc[t] = "trimRead" /\ absSmr[t] = loc[t].smr
    BY <1>1, <1>2, <1>4 DEF PcOf, SmrOf, Out
  <2> QED
    BY <1>1, <1>4, <2>1, P!TrimsHandle, CoreAssumption
<1>5. CASE loc[t].pc \in {"travRead", "travDrop"}
  <2>1. absPc[t] = loc[t].pc /\ absWalk[t].nxt = loc[t].walk.nxt
        /\ absWalk[t].curr = loc[t].walk.curr
    BY <1>1, <1>2, <1>5, BareIs DEF PcOf, WalkOf
  <2>2. b \in Batches /\ todo[t] # <<>> /\ b = todo[t][1]
    BY <1>1, <1>5, <2>1, P!ReadsTodo, P!DropsTodo, CoreAssumption
  <2>3. P!InSeq(b, todo[t])
    BY <1>1, <2>2, TailFacts DEF InSeq, P!InSeq
  <2> QED
    BY <2>2, <2>3 DEF P!Linked, P!Owes
<1> QED
  BY <1>3, <1>4, <1>5

\* What a thread is about to touch has been retired and not freed.
LEMMA InvTouches == Base /\ RetirerInv => TouchesOnlyRetired
<1> SUFFICES ASSUME Base, RetirerInv, NEW t \in Threads, NEW b \in Target(t)
             PROVE  /\ b \in Batches /\ status[b] = "retired"
                    /\ \A u \in Threads : b \notin loc[u].list
  BY Constants DEF TouchesOnlyRetired
<1>1. CASE loc[t].pc \in {"leaveAdjust", "retireAdjust"} /\ b = loc[t].last.ptr
  BY <1>1, AdjustedWaits
<1>2. CASE loc[t].pc \in RetireLabels /\ b = loc[t].batch
  BY <1>2, RetirerWaits
<1>3. CASE \/ loc[t].pc = "leaveRead" /\ b = loc[t].last.ptr
           \/ loc[t].pc = "trimRead" /\ b = loc[t].smr
           \/ loc[t].pc = "travRead" /\ b = loc[t].walk.nxt /\ b # NULL
           \/ loc[t].pc = "travDrop" /\ b = loc[t].walk.curr
  BY <1>3, WalkedWaits, LinkedWaits
<1>4. loc[t].op = "retire" => loc[t].pc \in RetireLabels \union {"free"}
  BY ThreadNow DEF ControlOK
<1>5. "retireAdjust" \in RetireLabels
  BY DEF RetireLabels
<1> QED
  BY <1>1, <1>2, <1>3, <1>4, <1>5 DEF Target

-----------------------------------------------------------------------------
(* The inductive invariant of the slots, the batches and the pointers.     *)

SafeInv == Base /\ RetirerInv /\ ClaimInv

\* The safety part of the invariant holds initially.
LEMMA SafeInit == Init => SafeInv
<1> SUFFICES ASSUME Init PROVE SafeInv
  OBVIOUS
<1>1. TypeOK
  BY InitType
<1>2. ASSUME NEW t \in Threads
      PROVE  \E s \in Slots : loc[t] = [Between(Empty) EXCEPT !.vec = s]
  BY <1>2 DEF Init
<1>3. ASSUME NEW t \in Threads
      PROVE  /\ ~loc[t].inside /\ loc[t].holds = {} /\ loc[t].pc = "idle"
             /\ loc[t].op = "none" /\ loc[t].walk = NoWalk /\ loc[t].outer = NoWalk
             /\ loc[t].thr = 0 /\ loc[t].list = {} /\ loc[t].slot = 0
             /\ loc[t].last = Empty /\ loc[t].adjs = 0 /\ ~loc[t].doAdjs
             /\ loc[t].into = {} /\ covers[t] = {}
  <2>1. PICK s \in Slots : loc[t] = [Between(Empty) EXCEPT !.vec = s]
    BY <1>2, <1>3
  <2>2. covers[t] = {}
    BY <1>3 DEF Init
  <2> QED
    BY <2>1, <2>2 DEF Between
<1>4. ThreadInv
  <2>1. IsFiniteSet({})
    BY FS_EmptySet
  <2>2. ASSUME NEW t \in Threads PROVE ControlOK(t)
    BY <1>3, <2>2 DEF ControlOK, EnterLabels, DerefLabels, RetireLabels, LeaveLabels
  <2>3. ASSUME NEW t \in Threads PROVE LocalsOK(t)
    BY <1>3, <2>1, <2>3 DEF LocalsOK, LeaveLabels
  <2>4. ASSUME NEW t \in Threads PROVE RetireOK(t) /\ EpochOK(t)
    BY <1>3, <2>4 DEF RetireOK, EpochOK, RetireLabels, DerefLabels
  <2> QED
    BY <2>2, <2>3, <2>4 DEF ThreadInv
<1>5. ObjectInv
  BY Constants DEF Init, ObjectInv
<1>6. RetirerInv
  BY <1>3 DEF RetirerInv, RetireLabels
<1>7. ClaimInv
  BY <1>3 DEF ClaimInv, Claims, At
<1>8. P!CoreInv
  BY CoreStarts, P!CoreInit, CoreAssumption
<1> QED
  BY <1>1, <1>4, <1>5, <1>6, <1>7, <1>8 DEF SafeInv, Base

\* It is about these variables only.
LEMMA SafeSame == SafeInv /\ UNCHANGED vars => SafeInv'
<1> SUFFICES ASSUME SafeInv, UNCHANGED vars PROVE SafeInv'
  OBVIOUS
<1>1. P!CoreInv'
  BY CoreNext DEF SafeInv
<1>2. TypeOK' /\ ObjectInv'
  BY DEF SafeInv, Base, TypeOK, ObjectInv, vars
<1>3. ThreadInv'
  BY DEF SafeInv, Base, ThreadInv, ControlOK, LocalsOK, RetireOK, EpochOK, vars
<1>4. RetirerInv'
  BY DEF SafeInv, RetirerInv, Skipped, Ahead, Within, vars
<1>5. ClaimInv'
  BY DEF SafeInv, ClaimInv, Claims, At, Within, Retiring, Ahead, vars
<1> QED
  BY <1>1, <1>2, <1>3, <1>4, <1>5 DEF SafeInv, Base

\* Every step keeps it.
LEMMA SafeStep == SafeInv /\ [Next]_vars => SafeInv'
<1> SUFFICES ASSUME SafeInv, [Next]_vars PROVE SafeInv'
  OBVIOUS
<1>1. Base /\ RetirerInv /\ ClaimInv /\ P!CoreInv'
  BY CoreNext DEF SafeInv
<1>2. ASSUME NEW t \in Threads, Acts(t) PROVE SafeInv'
  BY <1>1, <1>2, TypeActs, ThreadActs, ObjectActs, RetirerActs, ClaimActs
     DEF SafeInv, Base
<1>3. CASE Structure /\ UNCHANGED <<head, counter, history>>
  <2>1. TypeOK' /\ ThreadInv' /\ ObjectInv'
    BY <1>1, <1>3, TypeStructure, ThreadStructure, ObjectStructure DEF Base
  <2>2. ClaimInv' /\ RetirerInv'
    BY <1>1, <1>3, ClaimStructure
  <2> QED
    BY <1>1, <2>1, <2>2 DEF SafeInv, Base
<1>4. CASE UNCHANGED vars
  BY <1>4, SafeSame
<1> QED
  BY <1>2, <1>3, <1>4 DEF Next, Acts

\* Every reachable state satisfies this invariant.
THEOREM Safety == Spec => []SafeInv
BY SafeInit, SafeStep, PTL DEF Spec

-----------------------------------------------------------------------------
(* The client sees nothing but SafePointers.                               *)

\* The only step from there is deref's test of the epoch.
LEMMA HandsOut ==
    ASSUME NEW t \in Threads, Acts(t), loc[t].pc = "derefEpoch"
    PROVE  DerefEpoch(t)
<1>1. ~(EnterLook(t) \/ LeaveLoad(t) \/ Deref(t) \/ (\E th \in TrimThresholds : Trim(t, th))
        \/ (\E e \in 0 .. global : Retire(t, e)) \/ TravRead(t) \/ TravDrop(t)
        \/ DerefLoad(t) \/ TrimRead(t) \/ EndCall(t, Empty)
        \/ (\E b \in Batches : Free(t, b)))
  BY DEF EnterLook, LeaveLoad, Deref, Trim, Retire, TravRead, TravDrop, DerefLoad,
     TrimRead, EndCall, Free, At
<1>2. ~(EnterAdd(t) \/ DerefAccess(t) \/ LeaveRead(t) \/ LeaveCas(t)
        \/ LeaveClear(t) \/ LeaveAdjust(t) \/ Ack(t) \/ RetireAccess(t)
        \/ RetireLoad(t) \/ RetireCas(t) \/ RetireAdjust(t) \/ RetireCount(t)
        \/ RetireFinish(t))
  BY DEF EnterAdd, DerefAccess, LeaveRead, LeaveCas, LeaveClear, LeaveAdjust, Ack,
     RetireAccess, RetireLoad, RetireCas, RetireAdjust, RetireCount, RetireFinish, At
<1> QED
  BY <1>1, <1>2, ActsIs

\* A step gives up some of its thread's pointers, or returns one more.
LEMMA HoldsActs ==
    ASSUME Base, RetirerInv, NEW t \in Threads, Acts(t)
    PROVE  \/ loc'[t].holds \subseteq loc[t].holds
           \/ /\ DerefEpoch(t) /\ loc[t].value \in Claims(t) \ loc[t].holds
              /\ loc'[t].holds = loc[t].holds \union {loc[t].value}
<1>1. TypeOK
  BY DEF Base
<1>2. CASE loc[t].pc = "derefEpoch"
  <2>1. DerefEpoch(t)
    BY <1>2, HandsOut
  <2>2. CASE loc[t].acc = global
    <3>1. loc'[t].holds = loc[t].holds \union ({loc[t].value} \ {NULL})
      BY <1>1, <2>1, <2>2, DerefEpochDoes
    <3>2. loc[t].value # NULL => loc[t].value \in Claims(t)
      BY <1>2, <2>2 DEF Claims, At
    <3> QED
      BY <2>1, <3>1, <3>2
  <2>3. CASE loc[t].acc # global
    BY <1>1, <2>1, <2>3, DerefEpochDoes
  <2> QED
    BY <2>2, <2>3
<1>3. CASE loc[t].pc # "derefEpoch"
  <2>1. CASE DerefLoad(t)
    BY <1>1, <2>1, DerefLoadDoes DEF SameClient
  <2>2. CASE ~DerefLoad(t)
    BY <1>3, <2>2, ClaimsStep DEF Claims, At
  <2> QED
    BY <2>1, <2>2
<1> QED
  BY <1>2, <1>3

\* What is claimed is not about to be freed.
LEMMA ClaimsWait ==
    ASSUME SafeInv, NEW t \in Threads, NEW b \in Claims(t), NEW u \in Threads
    PROVE  b \notin loc[u].list
<1>1. Base /\ RetirerInv /\ ClaimInv
  BY DEF SafeInv
<1>2. b \in Batches
  BY <1>1, ClaimsInside
<1>3. CASE status[b] # "retired"
  BY <1>1, <1>3, ListedRetired
<1>4. CASE status[b] = "retired"
  BY <1>1, <1>2, <1>4, WaitsFor DEF ClaimInv
<1> QED
  BY <1>3, <1>4

\* Only retire and free change what has become of a batch.
LEMMA StatusKept ==
    ASSUME NEW t \in Threads, Acts(t), ~\E e \in 0 .. global : Retire(t, e),
           ~\E b \in Batches : Free(t, b)
    PROVE  status' = status
<1>1. EnterLook(t) \/ LeaveLoad(t) \/ Deref(t) \/ (\E th \in TrimThresholds : Trim(t, th))
      \/ TravRead(t) \/ TravDrop(t) \/ DerefLoad(t) \/ DerefEpoch(t)
      \/ TrimRead(t) \/ EndCall(t, Empty) => status' = status
  BY DEF EnterLook, LeaveLoad, Deref, Trim, TravRead, TravDrop, DerefLoad, DerefEpoch,
     TrimRead, EndCall, structure
<1>2. EnterAdd(t) \/ DerefAccess(t) \/ LeaveRead(t) \/ LeaveCas(t)
      \/ LeaveClear(t) \/ LeaveAdjust(t) \/ Ack(t) => status' = status
  BY DEF EnterAdd, DerefAccess, LeaveRead, LeaveCas, LeaveClear, LeaveAdjust, Ack,
     structure
<1>3. RetireAccess(t) \/ RetireLoad(t) \/ RetireCas(t) \/ RetireAdjust(t)
      \/ RetireCount(t) \/ RetireFinish(t) => status' = status
  BY DEF RetireAccess, RetireLoad, RetireCas, RetireAdjust, RetireCount, RetireFinish,
     structure
<1> QED
  BY <1>1, <1>2, <1>3, ActsIs

absHolds == [t \in Threads |-> loc[t].holds]

\* Every step is a step of SafePointers or a stutter.
LEMMA PointersStep == SafeInv /\ [Next]_vars => [Abstract!Next]_(Abstract!vars)
<1> SUFFICES ASSUME SafeInv, [Next]_vars
             PROVE  Abstract!Next \/ (status' = status /\ absHolds' = absHolds)
  BY DEF Abstract!vars, absHolds
<1>1. Base /\ RetirerInv /\ ClaimInv /\ TypeOK
  BY DEF SafeInv, Base
<1>2. ASSUME NEW t \in Threads, Moves(t), loc'[t].holds = loc[t].holds
      PROVE  absHolds' = absHolds
  <2>1. \A u \in Threads : loc'[u].holds = loc[u].holds
    BY <1>2 DEF Moves, Others
  <2> QED
    BY <2>1 DEF absHolds
<1>3. ASSUME NEW t \in Threads, NEW e \in 0 .. global, Retire(t, e) PROVE Abstract!Next
  <2>1. Moves(t) /\ loc'[t].holds = loc[t].holds /\ root \in Batches
    BY <1>1, <1>3, RetireDoes DEF SameClient
  <2>2. status[root] = "linked" /\ status' = [status EXCEPT ![root] = "retired"]
    BY <1>1, <1>3 DEF Base, ObjectInv, Retire
  <2>3. Abstract!Retire(root)
    BY <1>2, <2>1, <2>2 DEF Abstract!Retire, Abstract!Becomes, absHolds
  <2> QED
    BY <2>1, <2>3 DEF Abstract!Next
<1>4. ASSUME NEW t \in Threads, NEW b \in Batches, Free(t, b) PROVE Abstract!Next
  <2>1. Moves(t) /\ loc'[t].holds = loc[t].holds /\ b \in loc[t].list
    BY <1>1, <1>4, FreeDoes DEF SameClient
  <2>2. status[b] = "retired" /\ status' = [status EXCEPT ![b] = "freed"]
    BY <1>1, <1>4, <2>1, ListedRetired DEF Free
  <2>3. \A u \in Threads : b \notin absHolds[u]
    BY <2>1, ClaimsWait DEF absHolds, Claims
  <2>4. Abstract!Free(b)
    BY <1>2, <2>1, <2>2, <2>3 DEF Abstract!Free, Abstract!Becomes, absHolds
  <2> QED
    BY <2>4 DEF Abstract!Next
<1>5. ASSUME NEW t \in Threads, Acts(t), status' = status PROVE Abstract!Next
  <2>1. Moves(t)
    BY <1>1, <1>5, Frames
  <2>2. absHolds' = [absHolds EXCEPT ![t] = loc'[t].holds] /\ absHolds[t] = loc[t].holds
    BY <2>1 DEF Moves, Others, absHolds
  <2>3. CASE loc'[t].holds \subseteq loc[t].holds
    <3>1. Abstract!Release(t)
      BY <1>5, <2>2, <2>3 DEF Abstract!Release, absHolds
    <3> QED
      BY <3>1 DEF Abstract!Next
  <2>4. CASE /\ loc[t].value \in Claims(t)
             /\ loc'[t].holds = loc[t].holds \union {loc[t].value}
    <3>1. loc[t].value \in Batches /\ status[loc[t].value] \in {"linked", "retired"}
      BY <1>1, <2>4, ClaimsInside DEF ClaimInv
    <3>2. PICK b \in Batches : b = loc[t].value
      BY <3>1
    <3>3. Abstract!Read(t, b)
      BY <1>5, <2>2, <2>4, <3>1, <3>2 DEF Abstract!Read, absHolds
    <3> QED
      BY <3>3 DEF Abstract!Next
  <2> QED
    BY <1>1, <1>5, <2>3, <2>4, HoldsActs
<1>6. ASSUME NEW b \in Batches, Alloc(b) \/ Link(b) PROVE Abstract!Next
  <2>1. absHolds' = absHolds
    BY <1>6 DEF Alloc, Link, absHolds
  <2>2. Abstract!Alloc(b) \/ Abstract!Link(b)
    BY <1>6, <2>1 DEF Alloc, Link, Abstract!Alloc, Abstract!Link, Abstract!Becomes, absHolds
  <2> QED
    BY <2>2 DEF Abstract!Next
<1>7. CASE UNCHANGED vars
  BY <1>7 DEF vars, absHolds
<1> QED
  BY <1>3, <1>4, <1>5, <1>6, <1>7, StatusKept DEF Next, Acts, Structure

-----------------------------------------------------------------------------
(* What holds of every behaviour.                                          *)

\* The words, counters and pointers have their types, and a slot's counter is
\* a number.
THEOREM TypeCorrect == Spec => []TypeOK
BY Safety, PTL DEF SafeInv, Base

\* leave, traverse, trim and retire touch no memory that was given back, or is
\* about to be: not even that of a batch whose slots were passed by.
THEOREM TouchesSafe == Spec => []TouchesOnlyRetired
<1>1. SafeInv => TouchesOnlyRetired
  BY InvTouches DEF SafeInv
<1> QED
  BY <1>1, Safety, PTL

\* A pointer that deref returned, or is about to, is to a batch that stays as
\* long as the thread is inside, whatever slot a retirement passes by.
THEOREM ClaimsSafe == Spec => []ClaimInv
BY Safety, PTL DEF SafeInv

\* The slots, lists and counters of Hyaline-S are those of Hyaline: they take only
\* its steps and those by which HyalineSlots extends it, the passing of slots by
\* epoch, the retirement nobody inside has to see and the flush that is out.
THEOREM RefinesHyaline == Spec => P!AnySpec
<1>1. SafeInv /\ [Next]_vars => [P!AnyNext]_(P!vars)
  BY CoreMaps DEF SafeInv
<1> QED
  BY <1>1, CoreStarts, Safety, PTL DEF Spec, P!AnySpec

\* The client cannot tell Hyaline-S from a scheme that keeps every batch a
\* thread has a pointer to, for as long as it has it.
THEOREM Implements == Spec => ImplementsSafePointers
<1>1. Init => Abstract!Init
  <2>1. SUFFICES ASSUME Init PROVE Abstract!Init
    OBVIOUS
  <2>2. ASSUME NEW t \in Threads PROVE loc[t].holds = {}
    <3>1. PICK s \in Slots : loc[t] = [Between(Empty) EXCEPT !.vec = s]
      BY <2>1, <2>2 DEF Init
    <3> QED
      BY <3>1 DEF Between
  <2> QED
    BY <2>1, <2>2 DEF Init, Abstract!Init
<1> QED
  BY <1>1, PointersStep, Safety, PTL
     DEF Spec, ImplementsSafePointers, Abstract!Spec

\* When no one is inside, every retired batch has been freed.
LEMMA InvQuiet == SafeInv => QuietIsClean
<1> SUFFICES ASSUME SafeInv, \A t \in Threads : loc[t].pc = "idle" /\ ~loc[t].inside
             PROVE  /\ head = [s \in Slots |-> Empty]
                    /\ \A b \in Batches : status[b] # "retired"
  BY DEF QuietIsClean
<1>1. P!CoreInv
  BY DEF SafeInv, Base
<1>2. P!GraceInv
  BY DEF P!GraceInv, absGrace
<1>3. P!RetirerInv
  BY DEF P!RetirerInv
<1>4. P!IInv
  BY <1>1, <1>2, <1>3 DEF P!IInv, P!CoreInv
<1>5. P!QuietIsClean
  BY <1>4, P!InvQuiet, CoreAssumption
<1>6. ASSUME NEW t \in Threads PROVE absPc[t] = "idle"
  <2>1. loc[t].op = "none"
    BY <1>6, ThreadNow DEF ControlOK, SafeInv
  <2> QED
    BY <1>6, <2>1, Image DEF PcOf
<1>7. absActive = {}
  BY DEF absActive
<1>8. /\ head = [s \in P!Slots |-> P!Empty]
      /\ \A b \in Batches : absStatus[b] # "retired"
  BY <1>5, <1>6, <1>7 DEF P!QuietIsClean
<1> QED
  BY <1>8, SameWords DEF absStatus

\* When everybody has left and all calls have returned, the slots are empty
\* and nothing that was retired is still waiting to be freed, although
\* retirements pass slots by and threads change theirs.
THEOREM QuietClean == Spec => []QuietIsClean
BY InvQuiet, Safety, PTL

-----------------------------------------------------------------------------
(* The acknowledgements.                                                   *)

\* Every thread with the numbers up to its count.
Tally(f) == UNION {{t} \X (1 .. f[t]) : t \in Threads}

\* A tally is a finite set of numbered pairs.
LEMMA InTally ==
    ASSUME NEW f \in [Threads -> Nat]
    PROVE  /\ \A e : e \in Tally(f) <=>
                e \in Threads \X Nat /\ 1 <= e[2] /\ e[2] <= f[e[1]]
           /\ IsFiniteSet(Tally(f)) /\ Cardinality(Tally(f)) \in Nat
<1>1. ASSUME NEW e
      PROVE  e \in Tally(f) <=> e \in Threads \X Nat /\ 1 <= e[2] /\ e[2] <= f[e[1]]
  <2>1. ASSUME e \in Tally(f)
        PROVE  e \in Threads \X Nat /\ 1 <= e[2] /\ e[2] <= f[e[1]]
    <3>1. PICK t \in Threads : e \in {t} \X (1 .. f[t])
      BY <2>1 DEF Tally
    <3>2. f[t] \in Nat
      OBVIOUS
    <3> QED
      BY <3>1, <3>2
  <2>2. ASSUME e \in Threads \X Nat, 1 <= e[2], e[2] <= f[e[1]]
        PROVE  e \in Tally(f)
    <3>1. PICK t \in Threads : t = e[1]
      BY <2>2
    <3>2. f[t] \in Nat /\ e[2] \in 1 .. f[t]
      BY <2>2, <3>1
    <3>3. e = <<e[1], e[2]>>
      BY <2>2
    <3>4. e \in {t} \X (1 .. f[t])
      BY <3>1, <3>2, <3>3
    <3> QED
      BY <3>4 DEF Tally
  <2> QED
    BY <2>1, <2>2
<1>2. IsFiniteSet(Tally(f))
  <2> DEFINE g == [t \in Threads |-> {t} \X (1 .. f[t])]
             R == {g[t] : t \in Threads}
  <2>1. IsFiniteSet(R)
    <3>1. g \in Surjection(Threads, R)
      BY DEF Surjection
    <3> QED
      BY <3>1, Constants, FS_Surjection
  <2>2. ASSUME NEW t \in Threads PROVE IsFiniteSet(g[t])
    <3>1. IsFiniteSet({t}) /\ IsFiniteSet(1 .. f[t])
      <4>1. PICK m \in Nat : m = f[t]
        OBVIOUS
      <4>2. IsFiniteSet(1 .. m)
        BY FS_Interval
      <4> QED
        BY <4>1, <4>2, FS_Singleton
    <3>2. IsFiniteSet({t} \X (1 .. f[t]))
      BY <3>1, FS_Product
    <3>3. g[t] = {t} \X (1 .. f[t])
      OBVIOUS
    <3> HIDE DEF g
    <3> QED
      BY <3>2, <3>3
  <2>3. IsFiniteSet(UNION R)
    <3>1. \A x \in R : IsFiniteSet(x)
      BY <2>2
    <3> HIDE DEF R
    <3> QED
      BY <2>1, <3>1, FS_UNION
  <2>4. UNION R = Tally(f)
    BY DEF Tally
  <2> QED
    BY <2>3, <2>4
<1> QED
  BY <1>1, <1>2, FS_CardinalityType

\* One thread has acknowledged n.
LEMMA TallyLess ==
    ASSUME NEW f \in [Threads -> Nat], NEW g \in [Threads -> Nat], NEW t \in Threads,
           NEW n \in Nat, g[t] + n = f[t], \A u \in Threads : u # t => g[u] = f[u]
    PROVE  Cardinality(Tally(g)) = Cardinality(Tally(f)) - n
<1> DEFINE D == {t} \X (g[t] + 1 .. f[t])
<1>1. IsFiniteSet(D) /\ Cardinality(D) = n
  <2>1. IsFiniteSet({t}) /\ Cardinality({t}) = 1
    BY FS_Singleton
  <2>2. g[t] \in Nat /\ f[t] \in Nat
    OBVIOUS
  <2>3. IsFiniteSet(g[t] + 1 .. f[t]) /\ Cardinality(g[t] + 1 .. f[t]) = n
    <3>1. PICK i, j \in Int : i = g[t] + 1 /\ j = f[t]
      BY <2>2
    <3>2. IsFiniteSet(i .. j) /\ Cardinality(i .. j) = IF i > j THEN 0 ELSE j - i + 1
      BY FS_Interval
    <3> QED
      BY <2>2, <3>1, <3>2
  <2> DEFINE I == g[t] + 1 .. f[t]
  <2> HIDE DEF I
  <2>4. IsFiniteSet({t} \X I) /\ Cardinality({t} \X I) = Cardinality({t}) * Cardinality(I)
    BY <2>1, <2>3, FS_Product DEF I
  <2>5. Cardinality({t} \X I) = n
    BY <2>1, <2>3, <2>4 DEF I
  <2> QED
    BY <2>4, <2>5 DEF I
<1>2. \A e : e \in D <=> e \in Threads \X Nat /\ e[1] = t /\ g[t] < e[2] /\ e[2] <= f[t]
  <2>1. g[t] \in Nat /\ f[t] \in Nat
    OBVIOUS
  <2> QED
    BY <2>1
<1> HIDE DEF D
<1>3. /\ \A e : e \in Tally(f) <=> e \in Threads \X Nat /\ 1 <= e[2] /\ e[2] <= f[e[1]]
      /\ \A e : e \in Tally(g) <=> e \in Threads \X Nat /\ 1 <= e[2] /\ e[2] <= g[e[1]]
      /\ IsFiniteSet(Tally(f)) /\ Cardinality(Tally(f)) \in Nat
  BY InTally
<1>4. D \subseteq Tally(f)
  BY <1>2, <1>3
<1>5. ASSUME NEW e PROVE e \in Tally(g) <=> e \in Tally(f) \ D
  <2>1. CASE e \in Threads \X Nat /\ e[1] # t
    BY <1>2, <1>3, <2>1
  <2>2. CASE e \in Threads \X Nat /\ e[1] = t
    <3>1. g[t] \in Nat /\ f[t] \in Nat /\ e[2] \in Nat
      BY <2>2
    <3>2. /\ e \in Tally(f) <=> 1 <= e[2] /\ e[2] <= f[t]
          /\ e \in Tally(g) <=> 1 <= e[2] /\ e[2] <= g[t]
          /\ e \in D <=> g[t] < e[2] /\ e[2] <= f[t]
      BY <1>2, <1>3, <2>2
    <3> QED
      BY <3>1, <3>2
  <2> QED
    BY <1>2, <1>3, <2>1, <2>2
<1>6. Tally(g) = Tally(f) \ D /\ Tally(f) \cap D = D
  BY <1>4, <1>5
<1>7. Cardinality(Tally(f) \ D) = Cardinality(Tally(f)) - Cardinality(Tally(f) \cap D)
  BY <1>3, FS_Difference
<1> QED
  BY <1>1, <1>6, <1>7

\* The threads of A have one more.
LEMMA TallyMore ==
    ASSUME NEW f \in [Threads -> Nat], NEW g \in [Threads -> Nat], NEW A \in SUBSET Threads,
           \A u \in Threads : g[u] = IF u \in A THEN f[u] + 1 ELSE f[u]
    PROVE  Cardinality(Tally(g)) = Cardinality(Tally(f)) + Cardinality(A)
<1> DEFINE D == {<<u, f[u] + 1>> : u \in A}
<1>1. IsFiniteSet(A) /\ Cardinality(A) \in Nat
  BY Constants, FS_Subset, FS_CardinalityType
<1>2. IsFiniteSet(D) /\ Cardinality(D) = Cardinality(A)
  <2> DEFINE h == [u \in A |-> <<u, f[u] + 1>>]
  <2>1. h \in Bijection(A, D)
    <3>1. h \in [A -> D] /\ \A u, v \in A : h[u] = h[v] => u = v
      OBVIOUS
    <3>2. \A d \in D : \E u \in A : h[u] = d
      OBVIOUS
    <3> QED
      BY <3>1, <3>2 DEF Bijection, Injection, Surjection, IsInjective
  <2>2. ExistsBijection(A, D)
    BY <2>1 DEF ExistsBijection
  <2> QED
    BY <1>1, <2>2, FS_Bijection
<1>3. \A e : e \in D <=> e \in Threads \X Nat /\ e[1] \in A /\ e[2] = f[e[1]] + 1
  <2>1. ASSUME NEW e \in D PROVE e \in Threads \X Nat /\ e[1] \in A /\ e[2] = f[e[1]] + 1
    <3>1. PICK u \in A : e = <<u, f[u] + 1>>
      OBVIOUS
    <3>2. u \in Threads /\ f[u] + 1 \in Nat
      OBVIOUS
    <3> QED
      BY <3>1, <3>2
  <2>2. ASSUME NEW e \in Threads \X Nat, e[1] \in A, e[2] = f[e[1]] + 1 PROVE e \in D
    <3>1. e = <<e[1], e[2]>>
      OBVIOUS
    <3> QED
      BY <2>2, <3>1
  <2> QED
    BY <2>1, <2>2
<1> HIDE DEF D
<1>4. /\ \A e : e \in Tally(f) <=> e \in Threads \X Nat /\ 1 <= e[2] /\ e[2] <= f[e[1]]
      /\ \A e : e \in Tally(g) <=> e \in Threads \X Nat /\ 1 <= e[2] /\ e[2] <= g[e[1]]
      /\ IsFiniteSet(Tally(f)) /\ Cardinality(Tally(f)) \in Nat
  BY InTally
<1>5. ASSUME NEW e \in Threads \X Nat
      PROVE  /\ e \in Tally(g) <=> e \in Tally(f) \union D
             /\ ~(e \in Tally(f) /\ e \in D)
  <2>1. e[1] \in Threads /\ e[2] \in Nat /\ f[e[1]] \in Nat
        /\ g[e[1]] = IF e[1] \in A THEN f[e[1]] + 1 ELSE f[e[1]]
    OBVIOUS
  <2>2. /\ e \in Tally(f) <=> 1 <= e[2] /\ e[2] <= f[e[1]]
        /\ e \in Tally(g) <=> 1 <= e[2] /\ e[2] <= g[e[1]]
        /\ e \in D <=> e[1] \in A /\ e[2] = f[e[1]] + 1
    BY <1>3, <1>4
  <2> QED
    BY <2>1, <2>2
<1>6. Tally(g) = Tally(f) \union D /\ Tally(f) \cap D = {}
  <2>1. Tally(f) \subseteq Threads \X Nat /\ Tally(g) \subseteq Threads \X Nat
        /\ D \subseteq Threads \X Nat
    BY <1>3, <1>4
  <2> QED
    BY <1>5, <2>1
<1>7. Cardinality({}) = 0
  BY FS_EmptySet
<1>8. Cardinality(Tally(f) \union D) =
        Cardinality(Tally(f)) + Cardinality(D) - Cardinality(Tally(f) \cap D)
  BY <1>2, <1>4, FS_Union
<1>9. Cardinality(Tally(f) \cap D) = 0
  BY <1>6, <1>7
<1>10. Cardinality(Tally(g)) = Cardinality(Tally(f) \union D)
  BY <1>6
<1> QED
  BY <1>1, <1>2, <1>4, <1>8, <1>9, <1>10

\* The counts of the threads of slot s.
DueAt(s) == [t \in Threads |-> IF loc[t].vec = s THEN Due(t) ELSE 0]

\* What is due to a slot is a tally over the threads.
LEMMA AllDueIs == \A s : AllDue(s) = Tally(DueAt(s))
<1> SUFFICES ASSUME NEW s PROVE AllDue(s) = Tally(DueAt(s))
  OBVIOUS
<1>1. ASSUME NEW e, e \in AllDue(s) PROVE e \in Tally(DueAt(s))
  <2>1. PICK t \in Threads : loc[t].vec = s /\ e \in {t} \X (1 .. Due(t))
    BY <1>1 DEF AllDue
  <2>2. DueAt(s)[t] = Due(t)
    BY <2>1 DEF DueAt
  <2> QED
    BY <2>1, <2>2 DEF Tally
<1>2. ASSUME NEW e, e \in Tally(DueAt(s)) PROVE e \in AllDue(s)
  <2>1. PICK t \in Threads : e \in {t} \X (1 .. DueAt(s)[t])
    BY <1>2 DEF Tally
  <2>2. loc[t].vec = s
    <3>1. SUFFICES ASSUME loc[t].vec # s PROVE FALSE
      OBVIOUS
    <3>2. DueAt(s)[t] = 0
      BY <3>1 DEF DueAt
    <3> QED
      BY <2>1, <3>2
  <2>3. DueAt(s)[t] = Due(t)
    BY <2>2 DEF DueAt
  <2> QED
    BY <2>1, <2>2, <2>3 DEF AllDue
<1> QED
  BY <1>1, <1>2

-----------------------------------------------------------------------------
(* What a thread has to acknowledge.                                       *)

\* A walk counts one node for each batch ahead, and one more for an end at no batch.
LEMMA RoundsIs ==
    ASSUME NEW q \in Seq(Batches), NEW e
    PROVE  /\ Rounds(q, e) \in Nat /\ Rounds(<<>>, NULL) = 1
           /\ e # NULL => Rounds(<<>>, e) = 0
           /\ q # <<>> => /\ Rounds(q, e) \in Nat \ {0} /\ Tail(q) \in Seq(Batches)
                          /\ Rounds(Tail(q), e) = Rounds(q, e) - 1
           /\ \A b \in Batches : Rounds(<<b>> \o q, e) = Rounds(q, e) + 1
<1>1. Len(q) \in Nat /\ Len(<<>>) = 0
  OBVIOUS
<1>2. q # <<>> => /\ Len(q) \in Nat \ {0} /\ Tail(q) \in Seq(Batches)
                  /\ Len(Tail(q)) = Len(q) - 1
  BY TailFacts
<1>3. \A b \in Batches : Len(<<b>> \o q) = Len(q) + 1
  BY ConsFacts
<1>4. PICK d \in {0, 1} : d = IF e = NULL THEN 1 ELSE 0
  OBVIOUS
<1>9. \A r : Rounds(r, e) = Len(r) + d
  BY <1>4 DEF Rounds
<1>5. Rounds(<<>>, NULL) = 1
  BY <1>1 DEF Rounds
<1>6. Rounds(q, e) \in Nat /\ (e # NULL => Rounds(<<>>, e) = 0)
  BY <1>1, <1>4, <1>9
<1>7. q # <<>> => Rounds(q, e) \in Nat \ {0} /\ Rounds(Tail(q), e) = Rounds(q, e) - 1
  <2>1. Rounds(q, e) = Len(q) + d /\ Rounds(Tail(q), e) = Len(Tail(q)) + d
    BY <1>9
  <2> QED
    BY <1>2, <2>1
<1>8. ASSUME NEW b \in Batches PROVE Rounds(<<b>> \o q, e) = Rounds(q, e) + 1
  <2>1. /\ Rounds(q, e) = Len(q) + d
        /\ Rounds(<<b>> \o q, e) = Len(<<b>> \o q) + d
    BY <1>9
  <2> QED
    BY <1>1, <1>3, <2>1
<1> QED
  BY <1>2, <1>5, <1>6, <1>7, <1>8

\* A thread that is outside the slots and not in a walk.
LEMMA DueNone ==
    ASSUME Base, NEW t \in Threads, ~loc[t].inside,
           loc[t].pc \in {"idle", "reenter", "enterLook", "enterAdd", "free"}
    PROVE  Due(t) = 0 /\ ~In(t)
<1>1. ControlOK(t) /\ LocalsOK(t)
  BY ThreadNow
<1>2. ~In(t)
  BY DEF In
<1>3. loc[t].op # "nested"
  BY <1>1 DEF ControlOK, LeaveLabels
<1>4. loc[t].walk = NoWalk /\ loc[t].outer = NoWalk
  BY <1>1, <1>3 DEF ControlOK, LocalsOK, EnterLabels
<1>5. NoWalk.counter = 0
  BY DEF NoWalk
<1> QED
  BY <1>2, <1>3, <1>4, <1>5 DEF Due, InSlot, InWalk, InOuter

\* What a walk still has to come to.
LEMMA WalkNow ==
    ASSUME Base, NEW t \in Threads
    PROVE  /\ held[t] \in Seq(Batches) /\ todo[t] \in Seq(Batches)
           /\ later[t] \in Seq(Batches)
           /\ loc[t].walk.counter \in Nat /\ loc[t].outer.counter \in Nat
           /\ loc[t].pc = "travRead" /\ loc[t].walk.nxt = NULL =>
                todo[t] = <<>> /\ loc[t].walk.end = NULL
           /\ loc[t].pc = "travDrop" =>
                /\ todo[t] # <<>> /\ loc[t].walk.curr # NULL
                /\ loc[t].walk.curr = loc[t].walk.end => Tail(todo[t]) = <<>>
<1>1. /\ P!TypeOK /\ P!ThreadInv /\ ControlOK(t) /\ loc[t] \in Local /\ TypeOK
      /\ absPc[t] = PcOf(loc[t]) /\ absWalk[t] = WalkOf(loc[t])
  BY Image, ThreadNow DEF Base, P!CoreInv
<1>2. /\ held[t] \in Seq(Batches) /\ todo[t] \in Seq(Batches) /\ later[t] \in Seq(Batches)
      /\ loc[t].walk.counter \in Nat /\ loc[t].outer.counter \in Nat
  BY <1>1, Fields, WalkFields DEF TypeOK
<1>3. ASSUME loc[t].pc \in {"travRead", "travDrop"}
      PROVE  /\ absPc[t] = loc[t].pc /\ absWalk[t].nxt = loc[t].walk.nxt
             /\ absWalk[t].curr = loc[t].walk.curr /\ absWalk[t].end = loc[t].walk.end
  <2>1. loc[t].op \notin {"none", "enter", "deref"}
    BY <1>1, <1>3 DEF ControlOK, EnterLabels, DerefLabels
  <2> QED
    BY <1>1, <1>3, <2>1, BareIs DEF PcOf, WalkOf
<1>4. ASSUME loc[t].pc = "travRead", loc[t].walk.nxt = NULL
      PROVE  todo[t] = <<>> /\ loc[t].walk.end = NULL
  <2>1. todo[t] = <<>>
    BY <1>1, <1>3, <1>4, P!ReadsTodo, CoreAssumption
  <2>2. P!Chain(next, absVec[t], todo[t], absWalk[t].nxt, absWalk[t].end)
    BY <1>1, <1>3, <1>4 DEF P!ThreadInv, P!ThreadOK, P!WalksOK
  <2> QED
    BY <1>3, <1>4, <2>1, <2>2 DEF P!Chain
<1>5. ASSUME loc[t].pc = "travDrop"
      PROVE  /\ todo[t] # <<>> /\ loc[t].walk.curr # NULL
             /\ loc[t].walk.curr = loc[t].walk.end => Tail(todo[t]) = <<>>
  BY <1>1, <1>3, <1>5, P!DropsTodo, CoreAssumption, Constants
<1> QED
  BY <1>2, <1>4, <1>5

\* The counts, of the rounds to come and of all three walks, are numbers.
LEMMA DueNat ==
    ASSUME Base, NEW t \in Threads
    PROVE  /\ Due(t) \in Nat
           /\ InSlot(t) \in Nat /\ InWalk(t) \in Nat /\ InOuter(t) \in Nat
<1>1. /\ held[t] \in Seq(Batches) /\ todo[t] \in Seq(Batches) /\ later[t] \in Seq(Batches)
      /\ loc[t].walk.counter \in Nat /\ loc[t].outer.counter \in Nat
      /\ loc[t].pc = "travDrop" => todo[t] # <<>>
  BY WalkNow
<1>2. \A e : /\ Rounds(held[t], e) \in Nat /\ Rounds(todo[t], e) \in Nat
             /\ Rounds(later[t], e) \in Nat
             /\ todo[t] # <<>> => Rounds(todo[t], e) \in Nat \ {0}
  BY <1>1, RoundsIs
<1>3. InSlot(t) \in Nat
  BY <1>2 DEF InSlot
<1>4. InWalk(t) \in Nat
  BY <1>1, <1>2 DEF InWalk
<1>5. InOuter(t) \in Nat
  BY <1>1, <1>2 DEF InOuter
<1> QED
  BY <1>3, <1>4, <1>5 DEF Due

\* A step outside the walks that changes nothing of the lists.
LEMMA DueStill ==
    ASSUME NEW t \in Threads,
           loc'[t].walk.counter = loc[t].walk.counter, loc'[t].outer = loc[t].outer,
           later'[t] = later[t], In(t)' <=> In(t),
           In(t) => /\ loc'[t].vec = loc[t].vec /\ loc'[t].smr = loc[t].smr
                    /\ held'[t] = held[t]
                    /\ head'[loc[t].vec].ptr = head[loc[t].vec].ptr,
           loc'[t].op = "nested" <=> loc[t].op = "nested",
           {loc[t].pc, loc'[t].pc} \cap {"leaveClear", "leaveAdjust", "trimRead",
                                         "travRead", "travDrop", "ack"} = {}
    PROVE  Due(t)' = Due(t)
<1>1. InSlot(t)' = InSlot(t)
  BY DEF InSlot
<1>2. InWalk(t)' = InWalk(t)
  BY DEF InWalk
<1>3. InOuter(t)' = InOuter(t)
  BY DEF InOuter
<1> QED
  BY <1>1, <1>2, <1>3 DEF Due

-----------------------------------------------------------------------------
(* What a step makes of the rounds to come.                                *)

\* The steps that are in no walk.
LEMMA DueCalls ==
    ASSUME Base, NEW t \in Threads, held' = held, head' = head, later' = later,
           \/ EnterLook(t) \/ EndCall(t, Empty) \/ (\E b \in Batches : Free(t, b))
           \/ Deref(t) \/ DerefLoad(t) \/ DerefEpoch(t) \/ DerefAccess(t)
           \/ (\E e \in 0 .. global : Retire(t, e))
           \/ RetireAccess(t) \/ RetireLoad(t) \/ RetireAdjust(t) \/ RetireCount(t)
           \/ RetireFinish(t) \/ LeaveLoad(t) \/ LeaveRead(t)
           \/ (RetireCas(t) /\ ~Puts(t))
           \/ (LeaveCas(t) /\ head[loc[t].vec] # loc[t].last)
    PROVE  Due(t)' = Due(t)
<1>1. TypeOK /\ ControlOK(t) /\ LocalsOK(t) /\ loc[t] \in Local
  BY ThreadNow
<1> DEFINE Calm ==
      /\ loc'[t].walk.counter = loc[t].walk.counter /\ loc'[t].outer = loc[t].outer
      /\ In(t)' <=> In(t)
      /\ In(t) => loc'[t].vec = loc[t].vec /\ loc'[t].smr = loc[t].smr
      /\ loc'[t].op = "nested" <=> loc[t].op = "nested"
      /\ {loc[t].pc, loc'[t].pc} \cap {"leaveClear", "leaveAdjust", "trimRead",
                                       "travRead", "travDrop", "ack"} = {}
<1>2. EnterLook(t) => Calm
  <2>1. SUFFICES ASSUME EnterLook(t) PROVE Calm
    OBVIOUS
  <2>2. /\ loc[t].pc \in {"idle", "reenter", "enterLook"} /\ loc'[t].op = "enter"
        /\ loc'[t].pc \in {"enterAdd", "enterLook"}
        /\ SameClient(loc[t], loc'[t]) /\ SameWalks(loc[t], loc'[t])
    BY <1>1, <2>1, EnterLookDoes
  <2>3. loc[t].op # "nested"
    BY <1>1, <2>2 DEF ControlOK, LeaveLabels
  <2> QED
    BY <2>2, <2>3 DEF SameClient, SameWalks, In
<1>3. EndCall(t, Empty) => Calm
  <2>1. SUFFICES ASSUME EndCall(t, Empty) PROVE Calm
    OBVIOUS
  <2>2. /\ loc[t].pc = "free" /\ loc'[t].op = "none" /\ loc'[t].pc \in {"reenter", "idle"}
        /\ loc'[t].walk = NoWalk /\ loc'[t].outer = NoWalk
        /\ loc'[t].inside = loc[t].inside /\ loc'[t].vec = loc[t].vec
        /\ loc[t].inside => loc'[t].smr = loc[t].smr
    BY <1>1, <2>1, EndCallDoes
  <2>3. loc[t].op # "nested"
    BY <1>1, <2>2 DEF ControlOK, LeaveLabels
  <2>4. loc[t].walk = NoWalk /\ loc[t].outer = NoWalk
    BY <1>1, <2>2, <2>3 DEF LocalsOK
  <2> QED
    BY <2>2, <2>3, <2>4 DEF In
<1>4. (\E b \in Batches : Free(t, b)) => Calm
  <2>1. SUFFICES ASSUME NEW b \in Batches, Free(t, b) PROVE Calm
    OBVIOUS
  <2>2. /\ loc[t].pc = "free" /\ loc'[t].pc = "free" /\ loc'[t].op = loc[t].op
        /\ SameClient(loc[t], loc'[t]) /\ SameWalks(loc[t], loc'[t])
    BY <1>1, <2>1, FreeDoes
  <2> QED
    BY <2>2 DEF SameClient, SameWalks, In
<1>5. Deref(t) => Calm
  <2>1. SUFFICES ASSUME Deref(t) PROVE Calm
    OBVIOUS
  <2>2. /\ loc[t].pc = "idle" /\ loc'[t].pc = "derefLoad" /\ loc'[t].op = "deref"
        /\ SameClient(loc[t], loc'[t]) /\ SameWalks(loc[t], loc'[t])
    BY <1>1, <2>1, DerefDoes
  <2>3. loc[t].op # "nested"
    BY <1>1, <2>2 DEF ControlOK, LeaveLabels
  <2> QED
    BY <2>2, <2>3 DEF SameClient, SameWalks, In
<1>6. DerefLoad(t) => Calm
  <2>1. SUFFICES ASSUME DerefLoad(t) PROVE Calm
    OBVIOUS
  <2>2. /\ loc[t].pc = "derefLoad" /\ loc'[t].pc = "derefEpoch" /\ loc'[t].op = loc[t].op
        /\ SameClient(loc[t], loc'[t]) /\ SameWalks(loc[t], loc'[t])
    BY <1>1, <2>1, DerefLoadDoes
  <2> QED
    BY <2>2 DEF SameClient, SameWalks, In
<1>7. DerefEpoch(t) => Calm
  <2>1. SUFFICES ASSUME DerefEpoch(t) PROVE Calm
    OBVIOUS
  <2>2. /\ loc[t].pc = "derefEpoch" /\ loc'[t].pc \in {"idle", "derefAccess"}
        /\ loc'[t].op \in {"none", loc[t].op}
        /\ loc'[t].inside = loc[t].inside /\ loc'[t].vec = loc[t].vec
        /\ loc'[t].smr = loc[t].smr /\ SameWalks(loc[t], loc'[t])
    BY <1>1, <2>1, DerefEpochDoes
  <2>3. loc[t].op # "nested"
    BY <1>1, <2>2 DEF ControlOK, LeaveLabels
  <2> QED
    BY <2>2, <2>3 DEF SameWalks, In
<1>8. DerefAccess(t) => Calm
  <2>1. SUFFICES ASSUME DerefAccess(t) PROVE Calm
    OBVIOUS
  <2>2. /\ loc[t].pc = "derefAccess" /\ loc'[t].op = loc[t].op
        /\ loc'[t].pc \in {"derefLoad", "derefAccess"}
        /\ SameClient(loc[t], loc'[t]) /\ SameWalks(loc[t], loc'[t])
    BY <1>1, <2>1, DerefAccessDoes
  <2> QED
    BY <2>2 DEF SameClient, SameWalks, In
<1>9. (\E e \in 0 .. global : Retire(t, e)) => Calm
  <2>1. SUFFICES ASSUME NEW e \in 0 .. global, Retire(t, e) PROVE Calm
    OBVIOUS
  <2>2. /\ loc[t].pc = "idle" /\ loc'[t].pc = "retireAccess" /\ loc'[t].op = "retire"
        /\ SameClient(loc[t], loc'[t]) /\ SameWalks(loc[t], loc'[t])
    BY <1>1, <2>1, RetireDoes
  <2>3. loc[t].op # "nested"
    BY <1>1, <2>2 DEF ControlOK, LeaveLabels
  <2> QED
    BY <2>2, <2>3 DEF SameClient, SameWalks, In
<1>10. RetireAccess(t) \/ RetireLoad(t) \/ RetireAdjust(t) \/ RetireCount(t)
       \/ RetireFinish(t) \/ (RetireCas(t) /\ ~Puts(t)) => Calm
  <2>1. SUFFICES ASSUME \/ RetireAccess(t) \/ RetireLoad(t) \/ RetireAdjust(t)
                        \/ RetireCount(t) \/ RetireFinish(t) \/ (RetireCas(t) /\ ~Puts(t))
                 PROVE  Calm
    OBVIOUS
  <2>2. loc[t].pc \in RetireLabels
    BY <2>1 DEF RetireAccess, RetireLoad, RetireAdjust, RetireCount, RetireFinish,
       RetireCas, At, RetireLabels
  <2>3. /\ loc'[t].op = loc[t].op /\ loc'[t].pc \in RetireLabels \union {"free"}
        /\ SameClient(loc[t], loc'[t]) /\ SameWalks(loc[t], loc'[t])
    <3>1. RetireAccess(t) => loc[t].pc = "retireAccess"
      BY <1>1, RetireAccessDoes
    <3>2. CASE RetireAccess(t)
      BY <1>1, <3>2, RetireAccessDoes DEF Passed, Advanced, RetireLabels
    <3>3. CASE RetireLoad(t)
      BY <1>1, <3>3, RetireLoadDoes DEF Tried, Passed, Advanced, RetireLabels
    <3>4. CASE RetireAdjust(t)
      <4>1. loc[t].pc = "retireAdjust"
        BY <3>4 DEF RetireAdjust, At
      <4>2. loc[t].last.ptr \in Batches
        BY <4>1, Addresses
      <4> QED
        BY <1>1, <3>4, <4>2, RetireAdjustDoes DEF RetireLabels
    <3>5. CASE RetireCount(t)
      BY <1>1, <3>5, RetireCountDoes DEF Advanced, RetireLabels
    <3>6. CASE RetireFinish(t)
      <4>1. loc[t].batch \in Batches
        BY <2>2, Addresses
      <4> QED
        BY <1>1, <3>6, <4>1, RetireFinishDoes
    <3>7. CASE RetireCas(t) /\ ~Puts(t)
      <4>1. head[loc[t].slot] # loc[t].last
        BY <3>7 DEF Puts
      <4> QED
        BY <1>1, <3>7, <4>1, RetireCasDoes DEF Tried, Passed, Advanced, RetireLabels
    <3> QED
      BY <2>1, <3>2, <3>3, <3>4, <3>5, <3>6, <3>7
  <2>4. loc[t].op # "nested"
    BY <1>1, <2>2 DEF ControlOK
  <2> QED
    BY <2>2, <2>3, <2>4 DEF SameClient, SameWalks, In, RetireLabels
<1>11. LeaveLoad(t) => Calm
  <2>1. SUFFICES ASSUME LeaveLoad(t) PROVE Calm
    OBVIOUS
  <2>2. /\ (loc[t].pc = "idle" /\ loc[t].inside) \/ loc[t].pc = "leaveLoad"
        /\ loc'[t].pc \in {"leaveRead", "leaveCas"}
        /\ loc'[t].op = (IF loc[t].op = "nested" THEN "nested" ELSE "leave")
        /\ loc'[t].vec = loc[t].vec /\ loc'[t].smr = loc[t].smr
        /\ SameWalks(loc[t], loc'[t])
    BY <1>1, <2>1, LeaveLoadDoes
  <2>3. In(t) /\ In(t)'
    BY <1>1, <2>2 DEF ControlOK, In
  <2> QED
    BY <2>2, <2>3 DEF SameWalks
<1>12. LeaveRead(t) => Calm
  <2>1. SUFFICES ASSUME LeaveRead(t) PROVE Calm
    OBVIOUS
  <2>2. loc[t].last.ptr \in Batches
    BY <2>1, Addresses DEF LeaveRead, At
  <2>3. /\ loc[t].pc = "leaveRead" /\ loc'[t].pc = "leaveCas" /\ loc'[t].op = loc[t].op
        /\ SameClient(loc[t], loc'[t]) /\ loc'[t].outer = loc[t].outer
        /\ loc'[t].walk.counter = loc[t].walk.counter
    BY <1>1, <2>1, <2>2, LeaveReadDoes
  <2> QED
    BY <2>3 DEF SameClient, In
<1>13. LeaveCas(t) /\ head[loc[t].vec] # loc[t].last => Calm
  <2>1. SUFFICES ASSUME LeaveCas(t), head[loc[t].vec] # loc[t].last PROVE Calm
    OBVIOUS
  <2>2. loc[t].pc = "leaveCas" /\ Loaded(loc[t], loc'[t], head[loc[t].vec])
    BY <1>1, <2>1, LeaveCasDoes
  <2> QED
    BY <2>2 DEF Loaded, SameClient, SameWalks, In
<1>14. Calm
  BY <1>2, <1>3, <1>4, <1>5, <1>6, <1>7, <1>8, <1>9, <1>10, <1>11, <1>12, <1>13
<1> QED
  BY <1>14, DueStill

\* leave or traverse returns: trim's walk goes on with its own batches.
LEMMA DueReturns ==
    ASSUME Base, NEW t \in Threads, NEW l \in Local, Returned(l, loc'[t]),
           l.op = loc[t].op, l.outer = loc[t].outer, later' \in [Threads -> Seq(Batches)],
           loc[t].op = "nested" =>
             todo'[t] = IF loc[t].pc = "ack" THEN todo[t] ELSE later[t]
    PROVE  /\ InWalk(t)' + InOuter(t)' = InOuter(t)
           /\ InWalk(t)' \in Nat /\ InOuter(t)' \in Nat
<1>1. LocalsOK(t) /\ InOuter(t) \in Nat /\ loc[t].outer.counter \in Nat
      /\ todo[t] \in Seq(Batches) /\ later[t] \in Seq(Batches)
  BY ThreadNow, DueNat, WalkNow
<1>2. NoWalk.counter = 0
  BY DEF NoWalk
<1>3. CASE loc[t].op # "nested"
  <2>1. loc'[t].op # "nested" /\ loc'[t].pc = "free" /\ loc'[t].walk = NoWalk
        /\ loc'[t].outer = NoWalk /\ loc[t].outer = NoWalk
    BY <1>1, <1>3 DEF Returned, LocalsOK
  <2>2. InWalk(t)' = 0 + 0
    BY <1>2, <2>1 DEF InWalk
  <2>3. InOuter(t)' = 0 + 0 /\ InOuter(t) = 0 + 0
    BY <1>2, <1>3, <2>1 DEF InOuter
  <2> QED
    BY <2>2, <2>3
<1>5. \A q \in Seq(Batches) : \A e : Rounds(q, e) \in Nat
  BY RoundsIs
<1>4. CASE loc[t].op = "nested"
  <2> DEFINE w == loc[t].outer
  <2>1. /\ loc'[t].op = "trimLeft" /\ loc'[t].walk = w /\ loc'[t].outer = NoWalk
        /\ loc'[t].pc = IF w.curr = w.end THEN "ack" ELSE "travRead"
    BY <1>4 DEF Returned
  <2>2. InOuter(t)' = 0 + 0
    BY <1>2, <2>1 DEF InOuter
  <2>3. CASE w.curr = w.end
    <3>1. InWalk(t)' = w.counter + 0
      BY <2>1, <2>3 DEF InWalk
    <3>2. InOuter(t) = w.counter + 0
      BY <1>4, <2>3 DEF InOuter
    <3> QED
      BY <1>1, <2>2, <3>1, <3>2
  <2>4. CASE w.curr # w.end
    <3>1. InWalk(t)' = w.counter + Rounds(todo'[t], w.end)
      <4>1. loc'[t].pc = "travRead"
        BY <2>1, <2>4
      <4> QED
        BY <2>1, <4>1 DEF InWalk
    <3>2. InOuter(t) = w.counter + Rounds(todo'[t], w.end)
      BY <1>4, <2>4 DEF InOuter
    <3>3. Rounds(todo'[t], w.end) \in Nat
      BY <1>1, <1>4, <1>5
    <3> QED
      BY <1>1, <2>2, <3>1, <3>2, <3>3
  <2> QED
    BY <2>3, <2>4
<1> QED
  BY <1>3, <1>4

\* The tail of __leave: the walk comes to the rest.
LEMMA DueTraverses ==
    ASSUME Base, NEW t \in Threads, loc[t].pc \in LeaveLabels, NEW l \in Local,
           Traversed(l, loc'[t]), l.op = loc[t].op, SameClient(loc[t], l),
           SameWalks(loc[t], l), l.last = loc[t].last,
           NEW rest \in Seq(Batches), Starts(t, rest)
    PROVE  /\ InSlot(t)' = 0 /\ InWalk(t)' \in Nat /\ InOuter(t)' \in Nat
           /\ InWalk(t)' + InOuter(t)' =
                (IF loc[t].last.ptr # loc[t].smr THEN Rounds(rest, loc[t].smr) ELSE 0)
                + InOuter(t)
<1>1. /\ TypeOK /\ ControlOK(t) /\ LocalsOK(t) /\ InOuter(t) \in Nat /\ loc[t].smr \in Ptr
      /\ Rounds(rest, loc[t].smr) \in Nat
  BY ThreadNow, DueNat, Fields, RoundsIs
<1>2. /\ todo' \in [Threads -> Seq(Batches)] /\ later' \in [Threads -> Seq(Batches)]
  BY <1>1, OwedTypes
<1>3. InSlot(t)' = 0
  <2>1. ~loc[t].inside
    BY <1>1 DEF ControlOK, LeaveLabels
  <2>2. ~loc'[t].inside /\ loc'[t].pc \notin {"leaveRead", "leaveCas"}
    BY <2>1 DEF Traversed, Returned, SameClient
  <2> QED
    BY <2>2 DEF InSlot, In
<1>4. CASE loc[t].last.ptr # loc[t].smr
  <2>1. todo' = [todo EXCEPT ![t] = rest] /\ later' = later
    BY <1>4 DEF Starts
  <2>2. todo'[t] = rest
    BY <1>1, <2>1 DEF TypeOK
  <2>3. /\ loc'[t].op = loc[t].op /\ loc'[t].outer = loc[t].outer /\ loc'[t].pc = "travRead"
        /\ loc'[t].walk.end = loc[t].smr
        /\ loc'[t].walk.counter = loc[t].walk.counter
    BY <1>4 DEF Traversed, SameClient, SameWalks
  <2>4. loc[t].walk.counter = 0
    BY <1>1 DEF LocalsOK, NoWalk
  <2>5. InWalk(t)' = 0 + Rounds(rest, loc[t].smr)
    BY <2>2, <2>3, <2>4 DEF InWalk
  <2>6. loc[t].pc # "ack"
    BY DEF LeaveLabels
  <2>7. InOuter(t)' = InOuter(t)
    BY <2>1, <2>3, <2>6 DEF InOuter
  <2> QED
    BY <1>1, <1>3, <1>4, <2>5, <2>7
<1>5. CASE loc[t].last.ptr = loc[t].smr
  <2>1. Returned(l, loc'[t]) /\ Returns(t, rest)
    BY <1>5 DEF Traversed, Starts, SameClient
  <2>2. loc[t].op = "nested" => todo'[t] = later[t]
    BY <1>1, <2>1 DEF Returns, TypeOK
  <2>3. loc[t].pc # "ack" /\ l.outer = loc[t].outer
    BY DEF LeaveLabels, SameWalks
  <2>4. /\ InWalk(t)' + InOuter(t)' = InOuter(t)
        /\ InWalk(t)' \in Nat /\ InOuter(t)' \in Nat
    BY <1>2, <2>1, <2>2, <2>3, DueReturns
  <2> QED
    BY <1>1, <1>3, <1>5, <2>4
<1> QED
  BY <1>4, <1>5

\* The rest of what leave does.
LEMMA DueLeaves ==
    ASSUME Base, NEW t \in Threads,
           \/ LeaveCas(t) /\ head[loc[t].vec] = loc[t].last
           \/ LeaveClear(t) \/ LeaveAdjust(t)
    PROVE  Due(t)' = Due(t)
<1>1. /\ TypeOK /\ ControlOK(t) /\ LocalsOK(t) /\ loc[t] \in Local
      /\ InSlot(t) \in Nat /\ InWalk(t) \in Nat /\ InOuter(t) \in Nat
      /\ held[t] \in Seq(Batches) /\ todo[t] \in Seq(Batches)
      /\ Rounds(held[t], loc[t].smr) \in Nat /\ Rounds(todo[t], loc[t].smr) \in Nat
  BY ThreadNow, DueNat, WalkNow, RoundsIs
<1> DEFINE r(q) == IF loc[t].last.ptr # loc[t].smr THEN Rounds(q, loc[t].smr) ELSE 0
<1>2. r(held[t]) \in Nat /\ r(todo[t]) \in Nat
  BY <1>1
<1>3. loc[t].pc \in LeaveLabels
  BY DEF LeaveCas, LeaveClear, LeaveAdjust, At, LeaveLabels
<1>4. loc[t].walk.counter = 0 /\ ~loc[t].inside /\ loc[t].pc # "ack"
  BY <1>1, <1>3 DEF LocalsOK, NoWalk, ControlOK, LeaveLabels
<1>5. loc[t].pc = "leaveCas" /\ head[loc[t].vec] = loc[t].last =>
        InSlot(t) = r(held[t]) /\ InWalk(t) = 0
  <2>1. SUFFICES ASSUME loc[t].pc = "leaveCas", head[loc[t].vec] = loc[t].last
                 PROVE  InSlot(t) = r(held[t]) /\ InWalk(t) = 0
    OBVIOUS
  <2>2. InSlot(t) = r(held[t])
    BY <2>1 DEF InSlot, In
  <2>3. InWalk(t) = 0 + 0
    BY <1>4, <2>1 DEF InWalk
  <2> QED
    BY <2>2, <2>3
<1>6. loc[t].pc \in {"leaveClear", "leaveAdjust"} =>
        InSlot(t) = 0 /\ InWalk(t) = r(todo[t])
  <2>1. SUFFICES ASSUME loc[t].pc \in {"leaveClear", "leaveAdjust"}
                 PROVE  InSlot(t) = 0 /\ InWalk(t) = r(todo[t])
    OBVIOUS
  <2>2. InSlot(t) = 0
    BY <1>4, <2>1 DEF InSlot, In
  <2>3. loc[t].last.ptr # loc[t].smr => InWalk(t) = 0 + Rounds(todo[t], loc[t].smr)
    BY <1>4, <2>1 DEF InWalk
  <2>4. loc[t].last.ptr = loc[t].smr => InWalk(t) = 0 + 0
    BY <1>4, <2>1 DEF InWalk
  <2> QED
    BY <1>1, <2>2, <2>3, <2>4
\* The thread goes on to clear the slot, or to adjust its head.
<1>7. ASSUME SameClient(loc[t], loc'[t]), SameWalks(loc[t], loc'[t]),
             loc'[t].op = loc[t].op, loc'[t].last = loc[t].last,
             loc'[t].pc \in {"leaveClear", "leaveAdjust"}, later' = later
      PROVE  InSlot(t)' = 0 /\ InWalk(t)' = r(todo'[t]) /\ InOuter(t)' = InOuter(t)
  <2>1. InSlot(t)' = 0
    BY <1>4, <1>7 DEF InSlot, In, SameClient
  <2>2. InOuter(t)' = InOuter(t)
    BY <1>4, <1>7 DEF InOuter, SameWalks
  <2>3. loc[t].last.ptr = loc[t].smr => InWalk(t)' = 0 + 0
    BY <1>4, <1>7 DEF InWalk, SameClient, SameWalks
  <2>4. loc[t].last.ptr # loc[t].smr => InWalk(t)' = 0 + Rounds(todo'[t], loc[t].smr)
    BY <1>4, <1>7 DEF InWalk, SameClient, SameWalks
  <2>5. \A e : Rounds(todo'[t], e) = 0 + Rounds(todo'[t], e)
    <3>1. \A e : Rounds(todo'[t], e) \in Int
      <4>1. todo' \in [Threads -> Seq(Batches)]
        <5>1. LeaveCas(t) \/ LeaveClear(t) \/ LeaveAdjust(t) => TypeOK'
          BY TypeLeaves
        <5> QED
          BY <5>1 DEF TypeOK
      <4> QED
        BY <4>1, RoundsIs
    <3> QED
      BY <3>1
  <2> QED
    BY <2>1, <2>2, <2>3, <2>4, <2>5
<1> HIDE DEF r
<1>8. CASE LeaveCas(t) /\ head[loc[t].vec] = loc[t].last
  <2> DEFINE out == HeadAfterLeave(loc[t].last).refs = 0 /\ loc[t].last.ptr # NULL
  <2>1. loc[t].pc = "leaveCas"
    BY <1>8 DEF LeaveCas, At
  <2>2. CASE out
    <3>1. /\ SameClient(loc[t], loc'[t]) /\ SameWalks(loc[t], loc'[t])
          /\ loc'[t].op = loc[t].op /\ loc'[t].last = loc[t].last
          /\ loc'[t].pc \in {"leaveClear", "leaveAdjust"}
          /\ todo' = [todo EXCEPT ![t] = held[t]] /\ later' = later
      BY <1>1, <1>8, <2>2, LeaveCasDoes
    <3>2. todo'[t] = held[t]
      BY <1>1, <3>1 DEF TypeOK
    <3>3. InSlot(t)' = 0 /\ InWalk(t)' = r(held[t]) /\ InOuter(t)' = InOuter(t)
      BY <1>7, <3>1, <3>2
    <3> QED
      BY <1>1, <1>2, <1>5, <1>8, <2>1, <3>3 DEF Due
  <2>3. CASE ~out
    <3>1. Traversed(loc[t], loc'[t]) /\ Starts(t, held[t])
      BY <1>1, <1>8, <2>3, LeaveCasDoes
    <3>2. InSlot(t)' = 0 /\ InWalk(t)' \in Nat /\ InOuter(t)' \in Nat /\ InWalk(t)' + InOuter(t)' = r(held[t]) + InOuter(t)
      BY <1>1, <1>3, <3>1, DueTraverses DEF SameClient, SameWalks, r
    <3>3. Due(t)' = 0 + (InWalk(t)' + InOuter(t)')
      BY <3>2 DEF Due
    <3> QED
      BY <1>1, <1>2, <1>5, <1>8, <2>1, <3>2, <3>3 DEF Due
  <2> QED
    BY <2>2, <2>3
<1>9. CASE LeaveClear(t)
  <2>1. loc[t].pc = "leaveClear"
    BY <1>9 DEF LeaveClear, At
  <2>2. CASE head[loc[t].vec] = [refs |-> 0, ptr |-> loc[t].last.ptr]
    <3>1. /\ SameClient(loc[t], loc'[t]) /\ SameWalks(loc[t], loc'[t])
          /\ loc'[t].op = loc[t].op /\ loc'[t].last = loc[t].last
          /\ loc'[t].pc = "leaveAdjust"
      BY <1>1, <1>9, <2>2, LeaveClearDoes
    <3>2. todo' = todo /\ later' = later
      BY <1>9, <2>2 DEF LeaveClear
    <3>3. InSlot(t)' = 0 /\ InWalk(t)' = r(todo[t]) /\ InOuter(t)' = InOuter(t)
      BY <1>7, <3>1, <3>2
    <3> QED
      BY <1>1, <1>2, <1>6, <2>1, <3>3 DEF Due
  <2>3. CASE head[loc[t].vec] # [refs |-> 0, ptr |-> loc[t].last.ptr]
    <3>1. Traversed(loc[t], loc'[t]) /\ Starts(t, todo[t])
      BY <1>1, <1>9, <2>3, LeaveClearDoes
    <3>2. InSlot(t)' = 0 /\ InWalk(t)' \in Nat /\ InOuter(t)' \in Nat /\ InWalk(t)' + InOuter(t)' = r(todo[t]) + InOuter(t)
      BY <1>1, <1>3, <3>1, DueTraverses DEF SameClient, SameWalks, r
    <3>3. Due(t)' = 0 + (InWalk(t)' + InOuter(t)')
      BY <3>2 DEF Due
    <3> QED
      BY <1>1, <1>2, <1>6, <2>1, <3>2, <3>3 DEF Due
  <2> QED
    BY <2>2, <2>3
<1>10. CASE LeaveAdjust(t)
  <2>1. loc[t].pc = "leaveAdjust"
    BY <1>10 DEF LeaveAdjust, At
  <2>2. loc[t].last.ptr \in Batches
    BY <2>1, Addresses
  <2>3. PICK l \in Local :
          /\ Traversed(l, loc'[t]) /\ SameClient(loc[t], l) /\ SameWalks(loc[t], l)
          /\ l.op = loc[t].op /\ l.last = loc[t].last
    BY <1>1, <1>10, <2>2, LeaveAdjustDoes
  <2>4. Starts(t, todo[t])
    BY <1>10 DEF LeaveAdjust
  <2>5. InSlot(t)' = 0 /\ InWalk(t)' \in Nat /\ InOuter(t)' \in Nat /\ InWalk(t)' + InOuter(t)' = r(todo[t]) + InOuter(t)
    BY <1>1, <1>3, <2>3, <2>4, DueTraverses DEF r
  <2>6. Due(t)' = 0 + (InWalk(t)' + InOuter(t)')
    BY <2>5 DEF Due
  <2> QED
    BY <1>1, <1>2, <1>6, <2>1, <2>5, <2>6 DEF Due
<1> QED
  BY <1>8, <1>9, <1>10

\* The steps of traverse and of trim.
LEMMA DueWalks ==
    ASSUME Base, NEW t \in Threads, UNCHANGED <<head, counter>>,
           \/ TravRead(t) /\ Walks(t, todo[t])
           \/ TravDrop(t) /\ Walks(t, Tail(todo[t]))
           \/ TrimRead(t) /\ UNCHANGED history
    PROVE  Due(t)' = Due(t)
<1>1. /\ TypeOK /\ ControlOK(t) /\ LocalsOK(t) /\ loc[t] \in Local
      /\ InSlot(t) \in Nat /\ InWalk(t) \in Nat /\ InOuter(t) \in Nat
      /\ todo[t] \in Seq(Batches) /\ loc[t].walk.counter \in Nat
  BY ThreadNow, DueNat, WalkNow
<1>2. held' = held /\ head' = head
  BY DEF Walks, history, owed
\* In the slot as before, with the outer walk as before.
<1>3. ASSUME loc[t].pc \in {"travRead", "travDrop", "trimRead"},
             SameClient(loc[t], loc'[t]), loc'[t].pc \notin {"leaveRead", "leaveCas"}
      PROVE  InSlot(t)' = InSlot(t)
  BY <1>2, <1>3 DEF InSlot, In, SameClient
<1>4. CASE TravRead(t) /\ Walks(t, todo[t])
  <2> DEFINE w == loc[t].walk
             e == w.end
  <2>1. /\ loc[t].pc = "travRead" /\ SameClient(loc[t], loc'[t])
        /\ loc'[t].op = loc[t].op /\ loc'[t].outer = loc[t].outer
        /\ loc'[t].walk.counter = w.counter + 1
        /\ w.nxt = NULL => loc'[t].pc = "ack"
        /\ w.nxt # NULL => loc'[t].pc = "travDrop" /\ loc'[t].walk.end = e
    BY <1>1, <1>4, TravReadDoes
  <2>2. InSlot(t)' = InSlot(t)
    BY <1>3, <2>1
  <2>3. InWalk(t) = w.counter + Rounds(todo[t], e)
    BY <2>1 DEF InWalk
  <2>4. CASE w.nxt = NULL
    <3>1. todo[t] = <<>> /\ e = NULL
      BY <2>1, <2>4, WalkNow
    <3>2. Rounds(todo[t], e) = 1
      BY <1>1, <3>1, RoundsIs
    <3>3. InWalk(t)' = w.counter + 1 + 0
      BY <2>1, <2>4 DEF InWalk
    <3>4. Returns(t, todo[t])
      BY <1>4, <2>1, <2>4 DEF Walks
    <3>5. loc[t].op = "nested" => todo'[t] = later[t]
      BY <1>1, <3>4 DEF Returns, TypeOK
    <3>6. InOuter(t)' = InOuter(t)
      BY <2>1, <2>4, <3>5 DEF InOuter
    <3> QED
      BY <1>1, <2>2, <2>3, <3>2, <3>3, <3>6 DEF Due
  <2>5. CASE w.nxt # NULL
    <3>1. loc'[t].pc = "travDrop" /\ loc'[t].walk.end = e
      BY <2>1, <2>5
    <3>2. todo' = [todo EXCEPT ![t] = todo[t]] /\ later' = later
      BY <1>4, <3>1 DEF Walks
    <3>3. todo'[t] = todo[t]
      BY <1>1, <3>2 DEF TypeOK
    <3>4. InWalk(t)' = w.counter + 1 + (Rounds(todo[t], e) - 1)
      BY <2>1, <3>1, <3>3 DEF InWalk
    <3>5. InOuter(t)' = InOuter(t)
      BY <2>1, <3>1, <3>2 DEF InOuter
    <3>6. Rounds(todo[t], e) \in Nat
      BY <1>1, RoundsIs
    <3>7. InWalk(t)' = InWalk(t)
      <4>1. PICK n, m \in Int : n = w.counter /\ m = Rounds(todo[t], e)
        BY <1>1, <3>6
      <4>2. InWalk(t)' = n + 1 + (m - 1) /\ InWalk(t) = n + m
        BY <2>3, <3>4, <4>1
      <4> HIDE DEF w, e
      <4> QED
        BY <4>1, <4>2
    <3> QED
      BY <2>2, <3>5, <3>7 DEF Due
  <2> QED
    BY <2>4, <2>5
<1>5. CASE TravDrop(t) /\ Walks(t, Tail(todo[t]))
  <2> DEFINE w == loc[t].walk
             e == w.end
             rest == Tail(todo[t])
             c == Collected(loc[t].list, w.curr, MinusOne)
             flush == /\ loc[t].op = "trim" /\ loc[t].thr > 0
                      /\ w.curr \in c /\ Cardinality(c) >= loc[t].thr
  <2>1. loc[t].pc = "travDrop"
    BY <1>5 DEF TravDrop, At
  <2>2. w.curr \in Batches /\ w.curr # NULL /\ todo[t] # <<>> /\ (w.curr = e => rest = <<>>)
    BY <2>1, Addresses, WalkNow
  <2>3. /\ SameClient(loc[t], loc'[t])
        /\ flush => /\ loc'[t].op = "nested" /\ loc'[t].outer = w
                    /\ loc'[t].walk = NoWalk /\ loc'[t].pc = "leaveLoad"
        /\ ~flush => loc'[t].op = loc[t].op /\ loc'[t].outer = loc[t].outer
        /\ ~flush /\ w.curr = e => loc'[t].pc = "ack" /\ loc'[t].walk.counter = w.counter
        /\ ~flush /\ w.curr # e => loc'[t].pc = "travRead" /\ loc'[t].walk = w
    BY <1>1, <1>5, <2>2, TravDropDoes
  <2>4. /\ Rounds(todo[t], e) \in Nat \ {0} /\ Rounds(rest, e) = Rounds(todo[t], e) - 1
        /\ rest \in Seq(Batches) /\ (w.curr = e => Rounds(rest, e) = 0)
    BY <1>1, <2>2, RoundsIs
  <2>5. InWalk(t) = w.counter + Rounds(rest, e)
    <3>1. InWalk(t) = w.counter + (Rounds(todo[t], e) - 1)
      BY <2>1 DEF InWalk
    <3> QED
      BY <2>4, <3>1
  <2>6. flush => loc[t].op = "trim"
    OBVIOUS
  <2>7. Rounds(rest, e) \in Nat
    BY <2>4
  <2> HIDE DEF flush, rest, c
  <2>8. loc'[t].pc \notin {"leaveRead", "leaveCas"}
    BY <2>3
  <2>9. InSlot(t)' = InSlot(t)
    BY <1>3, <2>1, <2>3, <2>8
  <2>10. CASE flush
    <3>1. /\ loc'[t].op = "nested" /\ loc'[t].outer = w
          /\ loc'[t].walk = NoWalk /\ loc'[t].pc = "leaveLoad"
      BY <2>3, <2>10
    <3>2. later' = [later EXCEPT ![t] = rest]
      BY <1>5, <3>1 DEF Walks, rest
    <3>3. later'[t] = rest
      BY <1>1, <3>2 DEF TypeOK
    <3>4. InWalk(t)' = 0 + 0
      BY <3>1 DEF InWalk, NoWalk
    <3>5. InOuter(t)' = w.counter + Rounds(rest, e)
      <4>1. CASE w.curr # e
        BY <3>1, <3>3, <4>1 DEF InOuter
      <4>2. CASE w.curr = e
        <5>1. InOuter(t)' = w.counter + 0
          BY <3>1, <4>2 DEF InOuter
        <5> QED
          BY <2>4, <4>2, <5>1
      <4> QED
        BY <4>1, <4>2
    <3>6. InOuter(t) = 0 + 0
      <4>1. loc[t].op = "trim" /\ loc[t].outer = NoWalk
        BY <1>1, <2>6, <2>10 DEF LocalsOK
      <4> QED
        BY <4>1 DEF InOuter, NoWalk
    <3> QED
      BY <1>1, <2>5, <2>7, <2>9, <3>4, <3>5, <3>6 DEF Due
  <2>11. CASE ~flush /\ w.curr = e
    <3>1. /\ loc'[t].op = loc[t].op /\ loc'[t].outer = loc[t].outer
          /\ loc'[t].pc = "ack" /\ loc'[t].walk.counter = w.counter
      BY <2>3, <2>11
    <3>2. Returns(t, rest)
      BY <1>5, <3>1 DEF Walks, rest
    <3>3. loc[t].op = "nested" => todo'[t] = later[t]
      BY <1>1, <3>2 DEF Returns, TypeOK
    <3>4. InWalk(t)' = w.counter + 0
      BY <3>1 DEF InWalk
    <3>5. InOuter(t)' = InOuter(t)
      BY <2>1, <3>1, <3>3 DEF InOuter
    <3>6. Rounds(rest, e) = 0
      BY <2>4, <2>11
    <3> QED
      BY <1>1, <2>5, <2>9, <3>4, <3>5, <3>6 DEF Due
  <2>12. CASE ~flush /\ w.curr # e
    <3>1. /\ loc'[t].op = loc[t].op /\ loc'[t].outer = loc[t].outer
          /\ loc'[t].pc = "travRead" /\ loc'[t].walk = w
      BY <2>3, <2>12
    <3>2. todo' = [todo EXCEPT ![t] = rest] /\ later' = later
      BY <1>5, <3>1 DEF Walks, rest
    <3>3. todo'[t] = rest
      BY <1>1, <3>2 DEF TypeOK
    <3>4. InWalk(t)' = w.counter + Rounds(rest, e)
      BY <3>1, <3>3 DEF InWalk
    <3>5. InOuter(t)' = InOuter(t)
      BY <2>1, <3>1, <3>2 DEF InOuter
    <3> QED
      BY <1>1, <2>5, <2>9, <3>4, <3>5 DEF Due
  <2> QED
    BY <2>10, <2>11, <2>12
<1>6. CASE TrimRead(t) /\ UNCHANGED history
  <2>1. loc[t].pc = "trimRead"
    BY <1>6 DEF TrimRead, At
  <2>2. loc[t].smr \in Batches
    BY <2>1, Addresses
  <2>3. /\ loc'[t].pc = "travRead" /\ SameClient(loc[t], loc'[t])
        /\ loc'[t].op = loc[t].op /\ loc'[t].outer = loc[t].outer
        /\ loc'[t].walk.end = loc[t].walk.end
        /\ loc'[t].walk.counter = loc[t].walk.counter
    BY <1>1, <1>6, <2>2, TrimReadDoes
  <2>4. todo' = todo /\ later' = later
    BY <1>6 DEF history, owed
  <2>5. InSlot(t)' = InSlot(t)
    BY <1>3, <2>1, <2>3
  <2>6. InWalk(t)' = InWalk(t)
    BY <2>1, <2>3, <2>4 DEF InWalk
  <2>7. InOuter(t)' = InOuter(t)
    BY <2>1, <2>3, <2>4 DEF InOuter
  <2> QED
    BY <2>5, <2>6, <2>7 DEF Due
<1> QED
  BY <1>4, <1>5, <1>6

\* trim takes what the thread holds in its slot over into its walk.
LEMMA DueTrims ==
    ASSUME Base, NEW t \in Threads, NEW th \in TrimThresholds, Trim(t, th), Keeps(t),
           head' = head
    PROVE  Due(t)' = Due(t)
<1> DEFINE x == head[loc[t].vec].ptr
<1>1. /\ TypeOK /\ ControlOK(t) /\ LocalsOK(t) /\ loc[t] \in Local
      /\ InSlot(t) \in Nat /\ InWalk(t) \in Nat /\ InOuter(t) \in Nat
      /\ held[t] \in Seq(Batches)
  BY ThreadNow, DueNat, WalkNow
<1>2. /\ loc[t].pc = "idle" /\ loc[t].inside /\ loc'[t].inside = TRUE
      /\ loc'[t].vec = loc[t].vec /\ loc'[t].outer = loc[t].outer
      /\ x = loc[t].smr =>
           /\ loc'[t].op = loc[t].op /\ loc'[t].pc = "idle"
           /\ loc'[t].smr = loc[t].smr /\ SameWalks(loc[t], loc'[t])
      /\ x # loc[t].smr =>
           /\ loc'[t].op = "trim" /\ loc'[t].pc = "trimRead" /\ loc'[t].smr = x
           /\ loc'[t].walk.end = loc[t].smr
           /\ loc'[t].walk.counter = loc[t].walk.counter
  BY <1>1, TrimDoes
<1>3. later' = later /\ loc[t].op = "none"
  BY <1>1, <1>2 DEF Keeps, ControlOK
<1>4. CASE x = loc[t].smr
  <2>1. UNCHANGED <<held, todo>>
    BY <1>4 DEF Keeps
  <2> QED
    BY <1>2, <1>3, <1>4, <2>1, DueStill DEF In, SameWalks
<1>5. CASE x # loc[t].smr
  <2>1. todo' = [todo EXCEPT ![t] = held[t]]
    BY <1>5 DEF Keeps
  <2>2. todo'[t] = held[t]
    BY <1>1, <2>1 DEF TypeOK
  <2>3. loc[t].walk.counter = 0
    BY <1>1, <1>3 DEF LocalsOK, NoWalk
  <2>4. InSlot(t)' = 0
    BY <1>2, <1>5 DEF InSlot
  <2>5. InSlot(t) = Rounds(held[t], loc[t].smr)
    BY <1>2, <1>5 DEF InSlot, In
  <2>6. InWalk(t) = 0 + 0
    BY <1>2, <2>3 DEF InWalk
  <2>7. InWalk(t)' = 0 + Rounds(held[t], loc[t].smr)
    BY <1>2, <1>5, <2>2, <2>3 DEF InWalk
  <2>8. InOuter(t)' = InOuter(t)
    BY <1>2, <1>3, <1>5 DEF InOuter
  <2> QED
    BY <1>1, <2>4, <2>5, <2>6, <2>7, <2>8 DEF Due
<1> QED
  BY <1>4, <1>5

\* A thread that has just entered has nothing to acknowledge.
LEMMA DueEnters ==
    ASSUME Base, NEW t \in Threads, EnterAdd(t)
    PROVE  Due(t) = 0 /\ Due(t)' = 0
<1>1. TypeOK /\ ControlOK(t) /\ loc[t] \in Local /\ loc[t].slot \in Slots
  BY ThreadNow, Fields
<1>2. /\ loc[t].pc = "enterAdd" /\ loc'[t].pc = "idle"
      /\ loc'[t].vec = loc[t].slot /\ loc'[t].smr = head[loc[t].slot].ptr
      /\ loc'[t].op = "none" /\ loc'[t].walk = NoWalk /\ loc'[t].outer = NoWalk
  BY <1>1, EnterAddDoes
<1>3. head'[loc[t].slot].ptr = head[loc[t].slot].ptr
  BY <1>1 DEF EnterAdd, TypeOK, HeadWord
<1>4. ~loc[t].inside
  BY <1>1, <1>2 DEF ControlOK, EnterLabels
<1>5. InSlot(t)' = 0
  BY <1>2, <1>3 DEF InSlot
<1>6. InWalk(t)' = 0 + 0 /\ InOuter(t)' = 0 + 0
  BY <1>2 DEF InWalk, InOuter, NoWalk
<1> QED
  BY <1>2, <1>4, <1>5, <1>6, DueNone DEF Due

\* An acknowledgement takes off what the walk has counted.
LEMMA DueAcks ==
    ASSUME Base, NEW t \in Threads, Ack(t)
    PROVE  Due(t)' + loc[t].walk.counter = Due(t) /\ Due(t)' \in Nat
<1>1. /\ TypeOK /\ ControlOK(t) /\ LocalsOK(t) /\ loc[t] \in Local
      /\ InSlot(t) \in Nat /\ InWalk(t) \in Nat /\ InOuter(t) \in Nat
      /\ loc[t].walk.counter \in Nat
  BY ThreadNow, DueNat, WalkNow
<1>2. loc[t].pc = "ack" /\ Returned(loc[t], loc'[t])
  BY <1>1, AckDoes
<1>3. head' = head /\ held' = held /\ todo' = todo /\ later' = later
  BY DEF Ack, history, owed
<1>4. InSlot(t)' = InSlot(t)
  BY <1>2, <1>3 DEF InSlot, In, Returned, SameClient
<1>5. later' \in [Threads -> Seq(Batches)]
  BY <1>1, <1>3 DEF TypeOK
<1>6. /\ InWalk(t)' + InOuter(t)' = InOuter(t)
      /\ InWalk(t)' \in Nat /\ InOuter(t)' \in Nat
  BY <1>1, <1>2, <1>3, <1>5, DueReturns
<1>7. InWalk(t) = loc[t].walk.counter + 0
  BY <1>2 DEF InWalk
<1> QED
  BY <1>1, <1>4, <1>6, <1>7 DEF Due

\* What a step makes of what its thread has to acknowledge.
LEMMA DueActs ==
    ASSUME Base, NEW t \in Threads, Acts(t), ~Puts(t)
    PROVE  /\ Due(t)' \in Nat
           /\ IF Ack(t) THEN Due(t)' + loc[t].walk.counter = Due(t) ELSE Due(t)' = Due(t)
<1>0. Due(t) \in Nat
  BY DueNat
<1>1. CASE Ack(t)
  BY <1>1, DueAcks
<1>2. CASE EnterAdd(t) /\ ~Ack(t)
  BY <1>2, DueEnters
<1>3. CASE (\E th \in TrimThresholds : Trim(t, th)) /\ Keeps(t) /\ UNCHANGED <<head, counter>>
           /\ ~Ack(t)
  BY <1>0, <1>3, DueTrims
<1>4. CASE /\ ~Ack(t)
           /\ \/ TravRead(t) /\ Walks(t, todo[t]) /\ UNCHANGED <<head, counter>>
              \/ TravDrop(t) /\ Walks(t, Tail(todo[t])) /\ UNCHANGED <<head, counter>>
              \/ TrimRead(t) /\ UNCHANGED <<head, counter, history>>
  BY <1>0, <1>4, DueWalks
<1>5. CASE /\ ~Ack(t)
           /\ \/ LeaveCas(t) /\ head[loc[t].vec] = loc[t].last
              \/ LeaveClear(t) \/ LeaveAdjust(t)
  BY <1>0, <1>5, DueLeaves
<1>6. ASSUME \/ /\ UNCHANGED <<head, counter, history>>
                /\ \/ Deref(t) \/ DerefLoad(t) \/ DerefEpoch(t) \/ EndCall(t, Empty)
                   \/ (\E e \in 0 .. global : Retire(t, e))
                   \/ (\E b \in Batches : Free(t, b))
             \/ EnterLook(t) \/ LeaveLoad(t) \/ DerefAccess(t) \/ LeaveRead(t)
             \/ RetireAccess(t) \/ RetireLoad(t) \/ RetireAdjust(t) \/ RetireFinish(t)
             \/ RetireCount(t) \/ RetireCas(t)
             \/ LeaveCas(t) /\ head[loc[t].vec] # loc[t].last
      PROVE  Due(t)' = Due(t)
  <2>1. UNCHANGED <<head, counter, history>> => head' = head /\ held' = held /\ later' = later
    BY DEF history, owed
  <2>2. EnterLook(t) \/ LeaveLoad(t) \/ DerefAccess(t) \/ LeaveRead(t)
        \/ RetireAccess(t) \/ RetireLoad(t) \/ RetireAdjust(t) \/ RetireFinish(t)
        \/ RetireCount(t) => head' = head /\ held' = held /\ later' = later
    BY DEF EnterLook, LeaveLoad, DerefAccess, LeaveRead, RetireAccess, RetireLoad,
       RetireAdjust, RetireFinish, RetireCount, history, owed
  <2>3. RetireCas(t) => head' = head /\ held' = held /\ later' = later
    BY DEF RetireCas, Puts
  <2>4. LeaveCas(t) /\ head[loc[t].vec] # loc[t].last =>
          head' = head /\ held' = held /\ later' = later
    BY DEF LeaveCas, owed
  <2>5. CASE UNCHANGED <<head, counter, history>>
             /\ (Deref(t) \/ DerefLoad(t) \/ DerefEpoch(t) \/ EndCall(t, Empty)
                 \/ (\E e \in 0 .. global : Retire(t, e))
                 \/ (\E b \in Batches : Free(t, b)))
    BY <2>1, <2>5, DueCalls
  <2>6. CASE EnterLook(t) \/ LeaveLoad(t) \/ DerefAccess(t) \/ LeaveRead(t)
             \/ RetireAccess(t) \/ RetireLoad(t) \/ RetireAdjust(t) \/ RetireFinish(t)
             \/ RetireCount(t)
    BY <2>2, <2>6, DueCalls
  <2>7. CASE RetireCas(t)
    BY <2>3, <2>7, DueCalls
  <2>8. CASE LeaveCas(t) /\ head[loc[t].vec] # loc[t].last
    BY <2>4, <2>8, DueCalls
  <2> QED
    BY <1>6, <2>5, <2>6, <2>7, <2>8
<1> QED
  BY <1>0, <1>1, <1>2, <1>3, <1>4, <1>5, <1>6, ActsIs

-----------------------------------------------------------------------------
(* What the others have to acknowledge.                                    *)

\* The walks of the other threads are their own.
LEMMA OwedOthers ==
    ASSUME Base, RetirerInv, NEW t \in Threads, Acts(t), NEW u \in Threads, u # t
    PROVE  loc'[u] = loc[u] /\ todo'[u] = todo[u] /\ later'[u] = later[u]
<1>1. TypeOK /\ loc'[u] = loc[u]
  BY Frames DEF Base, Moves, Others
<1>2. ASSUME todo' = todo /\ later' = later
      PROVE  todo'[u] = todo[u] /\ later'[u] = later[u]
  BY <1>2
<1>3. ASSUME NEW q, Returns(t, q) PROVE todo'[u] = todo[u] /\ later'[u] = later[u]
  BY <1>1, <1>3 DEF Returns, TypeOK
<1>4. ASSUME NEW q, Starts(t, q) PROVE todo'[u] = todo[u] /\ later'[u] = later[u]
  BY <1>1, <1>3, <1>4 DEF Starts, TypeOK
<1>5. ASSUME NEW q, Walks(t, q) PROVE todo'[u] = todo[u] /\ later'[u] = later[u]
  BY <1>1, <1>3, <1>5 DEF Walks, TypeOK
<1>6. Keeps(t) => todo'[u] = todo[u] /\ later'[u] = later[u]
  BY <1>1 DEF Keeps, TypeOK
<1>7. LeaveClear(t) \/ LeaveAdjust(t) => todo'[u] = todo[u] /\ later'[u] = later[u]
  BY <1>2, <1>4 DEF LeaveClear, LeaveAdjust
<1>8. LeaveCas(t) => todo'[u] = todo[u] /\ later'[u] = later[u]
  <2>1. LeaveCas(t) =>
          \/ todo' = [todo EXCEPT ![t] = held[t]] /\ later' = later
          \/ Starts(t, held[t]) \/ (todo' = todo /\ later' = later)
    BY DEF LeaveCas, owed
  <2> QED
    BY <1>1, <1>2, <1>4, <2>1 DEF TypeOK
<1>9. EnterLook(t) \/ LeaveLoad(t) \/ EnterAdd(t) \/ DerefAccess(t) \/ LeaveRead(t)
      \/ Ack(t) => todo' = todo /\ later' = later
  BY DEF EnterLook, LeaveLoad, EnterAdd, DerefAccess, LeaveRead, Ack, history, owed
<1>10. RetireAccess(t) \/ RetireLoad(t) \/ RetireCas(t) \/ RetireAdjust(t)
       \/ RetireCount(t) \/ RetireFinish(t) => todo' = todo /\ later' = later
  BY DEF RetireAccess, RetireLoad, RetireCas, RetireAdjust, RetireCount, RetireFinish,
         history, owed
<1>11. UNCHANGED history => todo' = todo /\ later' = later
  BY DEF history, owed
<1>12. todo'[u] = todo[u] /\ later'[u] = later[u]
  BY <1>2, <1>5, <1>6, <1>7, <1>8, <1>9, <1>10, <1>11, ActsIs
<1> QED
  BY <1>1, <1>12

\* While a thread is in its slot, even about to leave it, only an insertion
\* changes what it holds there, or the head, on behalf of another thread.
LEMMA SlotOthers ==
    ASSUME Base, RetirerInv, NEW t \in Threads, Acts(t), ~Puts(t),
           NEW u \in Threads, u # t, In(u)
    PROVE  held'[u] = held[u] /\ head'[loc[u].vec].ptr = head[loc[u].vec].ptr
<1>1. TypeOK
  BY DEF Base
<1>2. loc[u].vec \in Slots /\ loc[t].slot \in Slots /\ loc[t] \in Local
  BY ThreadNow, Fields
<1>3. CASE LeaveCas(t) \/ LeaveClear(t)
  <2>1. P!TypeOK /\ P!ThreadInv /\ P!SlotsAgree
    BY DEF Base, P!CoreInv
  <2>2. P!In(u) /\ absVec[u] = loc[u].vec
    BY SameInside
  <2>3. \/ P!LeaveCas(t) \/ P!LeaveClear(t)
        \/ P!LeaveCasFails(t) \/ P!LeaveClearFails(t)
    BY <1>3, LeaveCasMaps, LeaveClearMaps
  <2>4. CASE P!LeaveCas(t) \/ P!LeaveClear(t)
    <3>1. P!SlotKept(u)
      BY <2>1, <2>4, CoreAssumption, P!LastOutLeaves
    <3> QED
      BY <2>2, <3>1 DEF P!SlotKept
  <2>5. CASE P!LeaveCasFails(t)
    <3>1. head' = head /\ held' = held
      BY <2>5 DEF P!LeaveCasFails, P!shared, P!history
    <3> QED
      BY <3>1
  <2>6. CASE P!LeaveClearFails(t)
    <3>1. head' = head /\ held' = held
      BY <1>3, <2>6, Zenon DEF P!LeaveClearFails, P!shared, LeaveCas, LeaveClear, At
    <3> QED
      BY <3>1
  <2> QED
    BY <2>3, <2>4, <2>5, <2>6
<1>4. EnterAdd(t) => held' = held /\ head'[loc[u].vec].ptr = head[loc[u].vec].ptr
  BY <1>1, <1>2 DEF EnterAdd, TypeOK, HeadWord, history, owed
<1>5. RetireCas(t) => head' = head /\ held' = held
  BY DEF Puts, RetireCas
<1>6. EnterLook(t) \/ LeaveLoad(t) \/ LeaveRead(t) \/ LeaveAdjust(t) \/ Ack(t)
      \/ DerefAccess(t) => head' = head /\ held' = held
  BY DEF EnterLook, LeaveLoad, LeaveRead, LeaveAdjust, Ack, DerefAccess, history, owed
<1>7. RetireAccess(t) \/ RetireLoad(t) \/ RetireAdjust(t) \/ RetireCount(t)
      \/ RetireFinish(t) => head' = head /\ held' = held
  BY DEF RetireAccess, RetireLoad, RetireAdjust, RetireCount, RetireFinish, history, owed
<1>8. ASSUME NEW q, Walks(t, q), UNCHANGED <<head, counter>>
      PROVE  head' = head /\ held' = held
  BY <1>8 DEF Walks
<1>9. UNCHANGED <<head, counter, history>> => head' = head /\ held' = held
  BY DEF history, owed
<1>10. Keeps(t) /\ UNCHANGED <<head, counter>> => head' = head /\ held'[u] = held[u]
  BY <1>1 DEF Keeps, TypeOK
<1> QED
  BY <1>3, <1>4, <1>5, <1>6, <1>7, <1>8, <1>9, <1>10, ActsIs

\* So what it has to acknowledge stays.
LEMMA DueOthers ==
    ASSUME Base, RetirerInv, NEW t \in Threads, Acts(t), ~Puts(t),
           NEW u \in Threads, u # t
    PROVE  Due(u)' = Due(u) /\ (In(u)' <=> In(u)) /\ loc'[u] = loc[u]
<1>1. loc'[u] = loc[u] /\ todo'[u] = todo[u] /\ later'[u] = later[u]
  BY OwedOthers
<1>2. In(u)' <=> In(u)
  BY <1>1 DEF In
<1>3. InSlot(u)' = InSlot(u)
  BY <1>1, <1>2, SlotOthers DEF InSlot
<1>4. InWalk(u)' = InWalk(u) /\ InOuter(u)' = InOuter(u)
  BY <1>1 DEF InWalk, InOuter
<1> QED
  BY <1>1, <1>2, <1>3, <1>4 DEF Due


-----------------------------------------------------------------------------
(* What an insertion gives the threads of its slot to acknowledge.         *)

\* What the compare-and-swap of retire writes, and the state that it finds.
LEMMA PutsIs ==
    ASSUME Base, NEW t \in Threads, Puts(t)
    PROVE  /\ P!Insert(t) /\ loc[t].pc = "retireCas" /\ loc[t].inside
           /\ loc[t].op = "retire" /\ loc[t].slot \in Slots
           /\ absSlot[t] = loc[t].slot /\ absBatch[t] = loc[t].batch
           /\ loc[t].batch \in Batches
           /\ head[loc[t].slot] = loc[t].last
           /\ head' = [head EXCEPT ![loc[t].slot].ptr = loc[t].batch]
           /\ head'[loc[t].slot].ptr = loc[t].batch
           /\ \A s \in Slots : s # loc[t].slot => head'[s] = head[s]
           /\ held' = [u \in Threads |->
                         IF u \in Inside(loc[t].slot) /\ loc[t].last.ptr # NULL
                         THEN <<loc[t].last.ptr>> \o held[u] ELSE held[u]]
           /\ covers' = [covers EXCEPT ![t] = Inside(loc[t].slot)]
           /\ todo' = todo /\ later' = later /\ counter' = counter
           /\ SameClient(loc[t], loc'[t]) /\ SameWalks(loc[t], loc'[t])
           /\ loc'[t].op = loc[t].op /\ loc'[t].slot = loc[t].slot
           /\ loc'[t].pc \in {"retireAdjust", "retireCount"}
           /\ loc'[t].into = loc[t].into \union {loc[t].slot}
<1>1. TypeOK /\ ControlOK(t) /\ loc[t] \in Local /\ loc[t].slot \in Slots
  BY ThreadNow, Fields
<1>2. RetireCas(t) /\ head[loc[t].slot] = loc[t].last
  BY DEF Puts
<1>3. /\ loc[t].pc = "retireCas" /\ SameClient(loc[t], loc'[t])
      /\ SameWalks(loc[t], loc'[t]) /\ loc'[t].op = loc[t].op
      /\ loc'[t].slot = loc[t].slot /\ loc'[t].into = loc[t].into \union {loc[t].slot}
      /\ loc'[t].pc = IF loc[t].last.ptr # NULL THEN "retireAdjust" ELSE "retireCount"
  BY <1>1, <1>2, RetireCasDoes
<1>4. loc[t].pc \in RetireLabels
  BY <1>3 DEF RetireLabels
<1>5. /\ absSlot[t] = loc[t].slot /\ absLast[t] = loc[t].last /\ absBatch[t] = loc[t].batch
      /\ loc[t].op = "retire" /\ loc[t].batch \in Batches
  BY <1>4, RetirerNow, Addresses
<1>6. P!Insert(t)
  BY <1>2, <1>5, RetireCasMaps DEF P!InsertFails
<1>7. loc[t].inside
  BY <1>1, <1>5 DEF ControlOK
<1>8. /\ head' = [head EXCEPT ![loc[t].slot].ptr = loc[t].batch]
      /\ held' = [u \in Threads |->
                    IF u \in Inside(loc[t].slot) /\ loc[t].last.ptr # NULL
                    THEN <<loc[t].last.ptr>> \o held[u] ELSE held[u]]
      /\ covers' = [covers EXCEPT ![t] = Inside(loc[t].slot)]
      /\ todo' = todo /\ later' = later /\ counter' = counter
  BY <1>2 DEF RetireCas
<1>9. /\ head'[loc[t].slot].ptr = loc[t].batch
      /\ \A s \in Slots : s # loc[t].slot => head'[s] = head[s]
  BY <1>1, <1>8 DEF TypeOK, HeadWord
<1> QED
  BY <1>1, <1>2, <1>3, <1>5, <1>6, <1>7, <1>8, <1>9

\* The handle of a thread in the slot is not the new head, and all that lies
\* between the two, with nothing retired yet, is nothing.
LEMMA HandleOlder ==
    ASSUME Base, NEW t \in Threads, Puts(t), NEW u \in Threads, u \in Inside(loc[t].slot)
    PROVE  /\ loc[u].smr # loc[t].batch
           /\ loc[t].last.ptr = loc[u].smr => held[u] = <<>>
           /\ loc[t].last.ptr # loc[u].smr => loc[t].last.ptr \in Batches
<1>1. /\ P!TypeOK /\ P!ThreadInv /\ P!KeepInv /\ P!OweInv
  BY DEF Base, P!CoreInv
<1>2. /\ P!Insert(t) /\ absSlot[t] = loc[t].slot /\ absBatch[t] = loc[t].batch
      /\ head[loc[t].slot] = loc[t].last /\ loc[t].batch \in Batches
  BY PutsIs
<1>3. In(u) /\ loc[u].vec = loc[t].slot
  BY DEF Inside
<1>4. P!In(u) /\ absVec[u] = loc[u].vec
  BY <1>3, SameInside
<1>5. absSmr[u] = loc[u].smr
  <2>1. ~Out(loc[u])
    <3>1. ControlOK(u)
      BY ThreadNow
    <3> QED
      BY <1>3, <3>1 DEF In, Out, ControlOK, LeaveLabels
  <2> QED
    BY <2>1, Image DEF SmrOf
<1>6. loc[t].last.ptr = loc[u].smr => held[u] = <<>>
  BY <1>1, <1>2, <1>3, <1>4, <1>5, CoreAssumption, P!HoldsNothing
<1>7. loc[t].last.ptr # loc[u].smr => loc[t].last.ptr \in Batches
  BY <1>1, <1>2, <1>3, <1>4, <1>5, CoreAssumption, P!HoldsHead
<1>8. /\ absLast[t].ptr = head[absSlot[t]].ptr /\ absLast[t].ptr # absBatch[t]
      /\ ~P!Owes(u, absBatch[t])
  BY <1>1, <1>2, <1>3, <1>4, CoreAssumption, P!InsertNew
<1>9. CASE loc[u].smr = NULL
  BY <1>2, <1>6, <1>7, <1>9, Constants
<1>10. CASE loc[u].smr # NULL /\ loc[t].last.ptr # loc[u].smr
  <2>1. P!InSeq(loc[u].smr, held[u])
    BY <1>1, <1>2, <1>3, <1>4, <1>5, <1>10, CoreAssumption, P!HoldsHandle
  <2>2. loc[u].smr # loc[t].batch
    BY <1>2, <1>8, <2>1 DEF P!Owes
  <2> QED
    BY <1>6, <1>7, <2>2
<1>11. CASE loc[t].last.ptr = loc[u].smr
  BY <1>2, <1>6, <1>8, <1>11
<1> QED
  BY <1>9, <1>10, <1>11

\* Each of the threads in the slot has one batch more to acknowledge.
LEMMA DuePuts ==
    ASSUME Base, RetirerInv, NEW t \in Threads, Acts(t), Puts(t), NEW u \in Threads
    PROVE  /\ Due(u)' = IF u \in Inside(loc[t].slot) THEN Due(u) + 1 ELSE Due(u)
           /\ loc'[u].vec = loc[u].vec
<1> DEFINE s == loc[t].slot
           prev == loc[t].last.ptr
           e == loc[u].smr
<1>1. /\ TypeOK /\ loc[u] \in Local /\ loc[u].vec \in Slots /\ held[u] \in Seq(Batches)
      /\ InSlot(u) \in Nat /\ InWalk(u) \in Nat /\ InOuter(u) \in Nat /\ NULL \notin Batches
  BY ThreadNow, Fields, WalkNow, DueNat, Constants
<1>2. /\ loc[t].pc = "retireCas" /\ loc[t].inside /\ loc[t].op = "retire" /\ s \in Slots
      /\ head[s].ptr = prev /\ head'[s].ptr = loc[t].batch
      /\ \A r \in Slots : r # s => head'[r] = head[r]
      /\ held'[u] = IF u \in Inside(s) /\ prev # NULL THEN <<prev>> \o held[u] ELSE held[u]
      /\ todo' = todo /\ later' = later
  <2>1. held' = [v \in Threads |->
                   IF v \in Inside(s) /\ prev # NULL THEN <<prev>> \o held[v] ELSE held[v]]
    BY PutsIs
  <2>2. held'[u] = IF u \in Inside(s) /\ prev # NULL THEN <<prev>> \o held[u] ELSE held[u]
    BY <2>1
  <2>3. /\ loc[t].pc = "retireCas" /\ loc[t].inside /\ loc[t].op = "retire" /\ s \in Slots
        /\ head[s] = loc[t].last /\ head'[s].ptr = loc[t].batch
        /\ todo' = todo /\ later' = later
    BY PutsIs
  <2>4. \A r \in Slots : r # s => head'[r] = head[r]
    BY PutsIs
  <2> QED
    BY <2>2, <2>3, <2>4
<1>3. /\ SameClient(loc[u], loc'[u]) /\ loc'[u].walk = loc[u].walk
      /\ loc'[u].outer = loc[u].outer /\ loc'[u].op = loc[u].op
      /\ (In(u)' <=> In(u))
      /\ InWalk(u)' = InWalk(u) /\ InOuter(u)' = InOuter(u)
  <2>1. CASE u = t
    <3>1. /\ SameClient(loc[t], loc'[t]) /\ SameWalks(loc[t], loc'[t])
          /\ loc'[t].op = loc[t].op /\ loc'[t].pc \in {"retireAdjust", "retireCount"}
      BY PutsIs
    <3>2. In(t)' <=> In(t)
      BY <1>2, <3>1 DEF In, SameClient
    <3>3. InWalk(t)' = InWalk(t)
      BY <1>2, <3>1 DEF InWalk, SameWalks
    <3>4. InOuter(t)' = InOuter(t)
      BY <1>2, <3>1 DEF InOuter, SameWalks
    <3> QED
      BY <2>1, <3>1, <3>2, <3>3, <3>4 DEF SameWalks
  <2>2. CASE u # t
    <3>1. loc'[u] = loc[u] /\ todo'[u] = todo[u] /\ later'[u] = later[u]
      BY <2>2, OwedOthers
    <3> QED
      BY <3>1 DEF In, InWalk, InOuter, SameClient
  <2> QED
    BY <2>1, <2>2
<1>4. Due(u) = InSlot(u) + InWalk(u) + InOuter(u)
      /\ Due(u)' = InSlot(u)' + InWalk(u) + InOuter(u)
  BY <1>3 DEF Due
<1>5. CASE u \notin Inside(s)
  <2>1. InSlot(u)' = InSlot(u)
    <3>1. CASE ~In(u)
      BY <1>3, <3>1 DEF InSlot
    <3>2. CASE In(u)
      <4>1. loc[u].vec # s
        BY <1>5, <3>2 DEF Inside
      <4>2. head'[loc[u].vec] = head[loc[u].vec] /\ held'[u] = held[u]
        BY <1>1, <1>2, <1>5, <4>1
      <4> QED
        BY <1>3, <3>2, <4>2 DEF InSlot, SameClient
    <3> QED
      BY <3>1, <3>2
  <2> QED
    BY <1>3, <1>4, <1>5, <2>1 DEF SameClient
<1>6. CASE u \in Inside(s)
  <2>1. In(u) /\ loc[u].vec = s
    BY <1>6 DEF Inside
  <2>2. /\ e # loc[t].batch /\ (prev = e => held[u] = <<>>)
        /\ prev # e => prev \in Batches
    BY <1>6, HandleOlder
  <2>3. InSlot(u)' = Rounds(held'[u], e)
    BY <1>2, <1>3, <2>1, <2>2 DEF InSlot, SameClient
  <2>4. InSlot(u) = IF prev # e THEN Rounds(held[u], e) ELSE 0
    BY <1>2, <2>1 DEF InSlot
  <2>5. Rounds(held'[u], e) = InSlot(u) + 1
    <3>1. CASE prev = NULL
      <4>1. e = NULL /\ held'[u] = <<>>
        BY <1>1, <1>2, <2>2, <3>1
      <4>2. Rounds(<<>>, NULL) = 1
        BY <1>1, RoundsIs
      <4> QED
        BY <2>4, <3>1, <4>1, <4>2
    <3>2. CASE prev # NULL /\ prev = e
      <4>1. held'[u] = <<prev>> \o <<>> /\ e \in Batches
        BY <1>1, <1>2, <1>6, <2>2, <3>2, Fields DEF Ptr
      <4>2. <<>> \in Seq(Batches)
        OBVIOUS
      <4>3. Rounds(<<>>, e) = 0 /\ Rounds(<<prev>> \o <<>>, e) = Rounds(<<>>, e) + 1
        BY <3>2, <4>1, <4>2, RoundsIs
      <4> QED
        BY <2>4, <3>2, <4>1, <4>3
    <3>3. CASE prev # NULL /\ prev # e
      <4>1. held'[u] = <<prev>> \o held[u]
        BY <1>2, <1>6, <3>3
      <4>2. Rounds(<<prev>> \o held[u], e) = Rounds(held[u], e) + 1
        BY <1>1, <2>2, <3>3, RoundsIs
      <4> QED
        BY <2>4, <3>3, <4>1, <4>2
    <3> QED
      BY <3>1, <3>2, <3>3
  <2> QED
    BY <1>1, <1>3, <1>4, <1>6, <2>3, <2>5 DEF SameClient
<1> QED
  BY <1>5, <1>6


-----------------------------------------------------------------------------
(* What has been retired into a slot and not been counted yet.             *)

\* One thread with each of a set of threads.
LEMMA PairsOf ==
    ASSUME NEW t \in Threads, NEW A \in SUBSET Threads
    PROVE  /\ IsFiniteSet({t} \X A) /\ Cardinality({t} \X A) = Cardinality(A)
           /\ Cardinality(A) \in Nat
<1>1. IsFiniteSet(A) /\ Cardinality(A) \in Nat /\ IsFiniteSet({t}) /\ Cardinality({t}) = 1
  BY Constants, FS_Subset, FS_CardinalityType, FS_Singleton
<1>2. IsFiniteSet({t} \X A) /\ Cardinality({t} \X A) = Cardinality({t}) * Cardinality(A)
  BY <1>1, FS_Product
<1>3. PICK n \in Nat : n = Cardinality(A)
  BY <1>1
<1>4. 1 * n = n
  OBVIOUS
<1> QED
  BY <1>1, <1>2, <1>3, <1>4

\* The references not counted yet are finitely many.
LEMMA UncountedFinite ==
    \A s : IsFiniteSet(Uncounted(s)) /\ Cardinality(Uncounted(s)) \in Nat
<1>1. IsFiniteSet(Threads \X Threads)
  BY Constants, FS_Product
<1>2. \A s : Uncounted(s) \subseteq Threads \X Threads
  BY DEF Uncounted
<1> QED
  BY <1>1, <1>2, FS_Subset, FS_CardinalityType

\* Only the compare-and-swap of retire and the count after it change this.
LEMMA UncountedStays ==
    ASSUME Base, RetirerInv, NEW t \in Threads, Acts(t), ~Puts(t), ~RetireCount(t), NEW s
    PROVE  Uncounted(s)' = Uncounted(s)
<1>1. /\ Moves(t) /\ ThreadInv' /\ covers' = covers
  <2>1. Moves(t) /\ (~RetireCas(t) => covers' = covers)
    BY Frames
  <2>2. RetireCas(t) => covers' = covers
    BY DEF RetireCas, Puts
  <2> QED
    BY <2>1, <2>2, ThreadActs
<1>2. ASSUME NEW u \in Threads, covers[u] # {}
      PROVE  /\ loc[u].pc \in {"retireAdjust", "retireCount"}
             /\ loc'[u].pc \in {"retireAdjust", "retireCount"}
  <2>1. RetireOK(u) /\ RetireOK(u)'
    BY <1>1, ThreadNow DEF ThreadInv
  <2> QED
    BY <1>1, <1>2, <2>1 DEF RetireOK
<1>3. ASSUME NEW u \in Threads, covers[u] # {}
      PROVE  loc'[u].slot = loc[u].slot
  <2>1. CASE u # t
    BY <1>1, <2>1 DEF Moves, Others
  <2>2. CASE u = t
    <3>1. loc[t].pc \in RetireLabels
      BY <1>2, <1>3, <2>2 DEF RetireLabels
    <3>2. loc'[t].pc \notin {"retireAccess", "retireFinish", "free"}
      BY <1>2, <1>3, <2>2
    <3> QED
      BY <1>2, <1>3, <2>2, <3>1, <3>2, RetireSteps DEF Passes
  <2> QED
    BY <2>1, <2>2
<1>4. ASSUME NEW u \in Threads, NEW v \in covers[u]
      PROVE  (/\ At(u, "retireAdjust") \/ At(u, "retireCount")
              /\ loc[u].slot = s)' <=>
             /\ At(u, "retireAdjust") \/ At(u, "retireCount")
             /\ loc[u].slot = s
  <2>1. covers[u] # {}
    BY <1>4
  <2> QED
    BY <1>2, <1>3, <2>1 DEF At
<1> QED
  BY <1>1, <1>4 DEF Uncounted

\* The compare-and-swap adds the threads in the slot.
LEMMA UncountedPuts ==
    ASSUME Base, RetirerInv, NEW t \in Threads, Acts(t), Puts(t), NEW s
    PROVE  Cardinality(Uncounted(s)') =
             IF s = loc[t].slot THEN Cardinality(Uncounted(s)) + Cardinality(Inside(s))
             ELSE Cardinality(Uncounted(s))
<1>1. /\ loc[t].pc = "retireCas" /\ covers' = [covers EXCEPT ![t] = Inside(loc[t].slot)]
      /\ loc'[t].slot = loc[t].slot /\ loc'[t].pc \in {"retireAdjust", "retireCount"}
  BY PutsIs
<1>2. TypeOK /\ \A u \in Threads : u # t => loc'[u] = loc[u]
  BY Frames DEF Base, Moves, Others
<1>3. covers'[t] = Inside(loc[t].slot) /\ \A u \in Threads : u # t => covers'[u] = covers[u]
  BY <1>1, <1>2 DEF TypeOK
<1>4. ASSUME NEW e
      PROVE  e \in Uncounted(s)' <=>
               \/ e \in Uncounted(s)
               \/ s = loc[t].slot /\ e \in {t} \X Inside(loc[t].slot)
  <2>1. Inside(loc[t].slot) \subseteq Threads
    BY DEF Inside
  <2>2. CASE e \notin Threads \X Threads
    BY <2>1, <2>2 DEF Uncounted
  <2>3. CASE e \in Threads \X Threads /\ e[1] = t
    <3>1. e \notin Uncounted(s)
      BY <1>1, <2>3 DEF Uncounted, At
    <3>2. e \in {t} \X Inside(loc[t].slot) <=> e[2] \in Inside(loc[t].slot)
      BY <2>1, <2>3
    <3>3. e \in Uncounted(s)' <=> loc[t].slot = s /\ e[2] \in Inside(loc[t].slot)
      BY <1>1, <1>3, <2>3 DEF Uncounted, At
    <3> QED
      BY <3>1, <3>2, <3>3
  <2>4. CASE e \in Threads \X Threads /\ e[1] # t
    <3>1. e \notin {t} \X Inside(loc[t].slot)
      BY <2>4
    <3>2. e[1] \in Threads /\ loc'[e[1]] = loc[e[1]] /\ covers'[e[1]] = covers[e[1]]
      BY <1>2, <1>3, <2>4
    <3>3. e \in Uncounted(s)' <=> e \in Uncounted(s)
      BY <2>4, <3>2 DEF Uncounted, At
    <3> QED
      BY <3>1, <3>3
  <2> QED
    BY <2>2, <2>3, <2>4
<1>5. CASE s # loc[t].slot
  BY <1>4, <1>5
<1>6. CASE s = loc[t].slot
  <2> DEFINE A == Inside(s)
             new == {t} \X Inside(s)
             U == Uncounted(s)
  <2>1. Uncounted(s)' = U \union new
    BY <1>4, <1>6
  <2>2. U \cap new = {}
    BY <1>1 DEF Uncounted, At
  <2>3. IsFiniteSet(U) /\ Cardinality(U) \in Nat
    BY UncountedFinite
  <2>4. A \in SUBSET Threads
    BY DEF Inside
  <2>5. IsFiniteSet(new) /\ Cardinality(new) = Cardinality(A) /\ Cardinality(A) \in Nat
    BY <2>4, PairsOf
  <2> HIDE DEF A, new, U
  <2>6. Cardinality(U \union new) = Cardinality(U) + Cardinality(new) - Cardinality(U \cap new)
    BY <2>3, <2>5, FS_Union
  <2>7. Cardinality(U \cap new) = 0
    BY <2>2, FS_EmptySet
  <2>8. PICK n, m \in Int : n = Cardinality(U) /\ m = Cardinality(A)
    BY <2>3, <2>5
  <2>9. n + m - 0 = n + m
    OBVIOUS
  <2>10. Cardinality(U \union new) = Cardinality(U) + Cardinality(A)
    BY <2>5, <2>6, <2>7, <2>8, <2>9
  <2> QED
    BY <1>6, <2>1, <2>10 DEF A, U
<1> QED
  BY <1>5, <1>6

\* The count takes off as many as it adds to the counter of the slot.
LEMMA UncountedCounts ==
    ASSUME Base, RetirerInv, NEW t \in Threads, Acts(t), RetireCount(t), NEW s \in Slots
    PROVE  /\ counter'[s] - counter[s] = Cardinality(Uncounted(s)) - Cardinality(Uncounted(s)')
           /\ Cardinality(Uncounted(s)') \in Nat
<1>1. /\ loc[t].pc = "retireCount" /\ covers' = [covers EXCEPT ![t] = {}]
      /\ counter' = [counter EXCEPT ![loc[t].slot] = @ + loc[t].last.refs]
  BY DEF RetireCount, At
<1>2. TypeOK /\ \A u \in Threads : u # t => loc'[u] = loc[u]
  BY Frames DEF Base, Moves, Others
<1>3. covers'[t] = {} /\ \A u \in Threads : u # t => covers'[u] = covers[u]
  BY <1>1, <1>2 DEF TypeOK
<1>4. /\ covers[t] \in SUBSET Threads /\ loc[t].last.refs = Cardinality(covers[t])
      /\ loc[t].slot \in Slots
  BY <1>1, <1>2, ThreadNow, Fields DEF RetireOK, TypeOK
<1> DEFINE gone == {t} \X covers[t]
           U == Uncounted(s)
<1>5. ASSUME NEW e
      PROVE  e \in Uncounted(s)' <=> e \in U /\ e[1] # t
  <2>1. CASE e \notin Threads \X Threads
    BY <2>1 DEF Uncounted
  <2>2. CASE e \in Threads \X Threads /\ e[1] = t
    BY <1>3, <2>2 DEF Uncounted
  <2>3. CASE e \in Threads \X Threads /\ e[1] # t
    <3>1. e[1] \in Threads /\ loc'[e[1]] = loc[e[1]] /\ covers'[e[1]] = covers[e[1]]
      BY <1>2, <1>3, <2>3
    <3> QED
      BY <2>3, <3>1 DEF Uncounted, At
  <2> QED
    BY <2>1, <2>2, <2>3
<1>6. IsFiniteSet(U) /\ Cardinality(U) \in Nat
  BY UncountedFinite
<1>7. counter[s] \in Int
  BY <1>2 DEF TypeOK
<1>8. CASE s # loc[t].slot
  <2>1. \A e \in U : e[1] # t
    BY <1>8 DEF Uncounted
  <2>2. Uncounted(s)' = U
    BY <1>5, <2>1
  <2>3. counter'[s] = counter[s]
    BY <1>1, <1>2, <1>8 DEF TypeOK
  <2> HIDE DEF U
  <2> QED
    BY <1>6, <1>7, <2>2, <2>3 DEF U
<1>9. CASE s = loc[t].slot
  <2>1. gone \subseteq U
    BY <1>1, <1>4, <1>9 DEF Uncounted, At
  <2>2. \A e \in U : e[1] = t => e \in gone
    BY DEF Uncounted
  <2>3. Uncounted(s)' = U \ gone
    BY <1>5, <2>2
  <2>4. counter'[s] = counter[s] + Cardinality(covers[t])
    BY <1>1, <1>2, <1>4, <1>9 DEF TypeOK
  <2>5. Cardinality(gone) = Cardinality(covers[t]) /\ Cardinality(covers[t]) \in Nat
    BY <1>4, PairsOf
  <2> HIDE DEF U, gone
  <2>6. U \cap gone = gone
    BY <2>1
  <2>7. IsFiniteSet(U \ gone) /\ Cardinality(U \ gone) = Cardinality(U) - Cardinality(gone)
    BY <1>6, <2>6, FS_Difference
  <2>8. Cardinality(U \ gone) \in Nat
    BY <2>7, FS_CardinalityType
  <2>9. PICK n, m, c \in Int : n = Cardinality(U) /\ m = Cardinality(covers[t]) /\ c = counter[s]
    BY <1>6, <1>7, <2>5
  <2>10. (c + m) - c = n - (n - m)
    OBVIOUS
  <2>11. /\ counter'[s] - counter[s] = Cardinality(U) - Cardinality(U \ gone)
         /\ Cardinality(U \ gone) \in Nat
    BY <2>4, <2>5, <2>7, <2>8, <2>9, <2>10
  <2> QED
    BY <2>3, <2>11 DEF U
<1> QED
  BY <1>8, <1>9


-----------------------------------------------------------------------------
(* The counter of a slot is what its threads have to acknowledge.          *)

\* What is due to a slot after a step.
LEMMA AllDueNext == (\A s : AllDue(s) = Tally(DueAt(s)))'
BY AllDueIs, PTL

\* How a step changes the counts of the threads of slot s.
LEMMA DueAtActs ==
    ASSUME Base, RetirerInv, NEW t \in Threads, Acts(t), NEW s
    PROVE  /\ DueAt(s) \in [Threads -> Nat] /\ DueAt(s)' \in [Threads -> Nat]
           /\ \A u \in Threads :
                IF Puts(t)
                THEN DueAt(s)'[u] = IF s = loc[t].slot /\ u \in Inside(s)
                                    THEN DueAt(s)[u] + 1 ELSE DueAt(s)[u]
                ELSE u # t \/ ~Ack(t) => DueAt(s)'[u] = DueAt(s)[u]
           /\ Ack(t) => ~Puts(t) /\ DueAt(s)'[t] + (IF loc[t].vec = s THEN loc[t].walk.counter ELSE 0)
                                     = DueAt(s)[t]
<1>1. ASSUME NEW u \in Threads
      PROVE  /\ DueAt(s)[u] = IF loc[u].vec = s THEN Due(u) ELSE 0
             /\ DueAt(s)'[u] = IF loc'[u].vec = s THEN Due(u)' ELSE 0
             /\ Due(u) \in Nat
  BY DueNat DEF DueAt
<1>2. DueAt(s) = [u \in Threads |-> DueAt(s)[u]] /\ DueAt(s)' = [u \in Threads |-> DueAt(s)'[u]]
  BY DEF DueAt
<1>3. Ack(t) => ~Puts(t) /\ ~EnterAdd(t)
  BY DEF Ack, Puts, RetireCas, EnterAdd, At
<1>4. CASE Puts(t)
  <2>1. ASSUME NEW u \in Threads
        PROVE  /\ DueAt(s)'[u] = IF s = loc[t].slot /\ u \in Inside(s)
                                 THEN DueAt(s)[u] + 1 ELSE DueAt(s)[u]
               /\ DueAt(s)[u] \in Nat /\ DueAt(s)'[u] \in Nat
    <3>1. /\ Due(u)' = IF u \in Inside(loc[t].slot) THEN Due(u) + 1 ELSE Due(u)
          /\ loc'[u].vec = loc[u].vec
      BY <1>4, DuePuts
    <3>2. u \in Inside(loc[t].slot) => loc[u].vec = loc[t].slot
      BY DEF Inside
    <3> QED
      BY <1>1, <3>1, <3>2
  <2>2. DueAt(s) \in [Threads -> Nat] /\ DueAt(s)' \in [Threads -> Nat]
    BY <1>2, <2>1
  <2> QED
    BY <1>3, <1>4, <2>1, <2>2
<1>5. CASE ~Puts(t)
  <2>1. ASSUME NEW u \in Threads, u # t
        PROVE  DueAt(s)'[u] = DueAt(s)[u]
    BY <1>1, <1>5, <2>1, DueOthers
  <2>2. /\ Due(t)' \in Nat
        /\ IF Ack(t) THEN Due(t)' + loc[t].walk.counter = Due(t) ELSE Due(t)' = Due(t)
    BY <1>5, DueActs
  <2>3. CASE EnterAdd(t)
    <3>1. Due(t) = 0 /\ Due(t)' = 0
      BY <2>3, DueEnters
    <3>2. DueAt(s)'[t] = 0 /\ DueAt(s)[t] = 0
      BY <1>1, <3>1
    <3>3. \A u \in Threads : DueAt(s)'[u] = DueAt(s)[u] /\ DueAt(s)[u] \in Nat
      BY <1>1, <2>1, <3>2
    <3>4. DueAt(s) \in [Threads -> Nat] /\ DueAt(s)' \in [Threads -> Nat]
      BY <1>2, <3>3
    <3> QED
      BY <1>3, <1>5, <2>3, <3>3, <3>4
  <2>4. CASE ~EnterAdd(t)
    <3>1. loc'[t].vec = loc[t].vec
      BY <2>4, VecStays
    <3>2. ~Ack(t) => DueAt(s)'[t] = DueAt(s)[t]
      BY <1>1, <2>2, <3>1
    <3>3. Ack(t) => DueAt(s)'[t] + (IF loc[t].vec = s THEN loc[t].walk.counter ELSE 0)
                      = DueAt(s)[t]
      BY <1>1, <2>2, <3>1
    <3>4. \A u \in Threads : DueAt(s)'[u] \in Nat /\ DueAt(s)[u] \in Nat
      BY <1>1, <2>1, <2>2
    <3>5. DueAt(s) \in [Threads -> Nat] /\ DueAt(s)' \in [Threads -> Nat]
      BY <1>2, <3>4
    <3> QED
      BY <1>5, <2>1, <3>2, <3>3, <3>5
  <2> QED
    BY <2>3, <2>4
<1> QED
  BY <1>4, <1>5

\* The counter of slot s when its threads have the counts f to acknowledge, of
\* which n are not counted yet.
Balanced(c, f, n) == c = Cardinality(Tally(f)) - n

\* The acknowledgements agree slot by slot.
LEMMA BalancedIs ==
    AckInv <=> \A s \in Slots : Balanced(counter[s], DueAt(s), Cardinality(Uncounted(s)))
BY AllDueIs DEF AckInv, Balanced

\* The same after a step.
LEMMA BalancedNext ==
    (AckInv <=> \A s \in Slots : Balanced(counter[s], DueAt(s), Cardinality(Uncounted(s))))'
BY BalancedIs, PTL

\* Insertions, counts and acknowledgements keep the balance.
LEMMA AckActs ==
    ASSUME Base, RetirerInv, AckInv, NEW t \in Threads, Acts(t)
    PROVE  AckInv'
<1> SUFFICES ASSUME NEW s \in Slots
             PROVE  Balanced(counter'[s], DueAt(s)', Cardinality(Uncounted(s)'))
  BY BalancedNext
<1> DEFINE f == DueAt(s)
           g == DueAt(s)'
           m == Cardinality(Uncounted(s))
           T == Cardinality(Tally(f))
<1>1. /\ f \in [Threads -> Nat] /\ g \in [Threads -> Nat]
      /\ \A u \in Threads :
           IF Puts(t)
           THEN g[u] = IF s = loc[t].slot /\ u \in Inside(s) THEN f[u] + 1 ELSE f[u]
           ELSE u # t \/ ~Ack(t) => g[u] = f[u]
      /\ Ack(t) => ~Puts(t) /\ g[t] + (IF loc[t].vec = s THEN loc[t].walk.counter ELSE 0) = f[t]
  BY DueAtActs
<1>2. /\ counter[s] = T - m /\ counter[s] \in Int /\ TypeOK
      /\ m \in Nat /\ T \in Nat
  <2>1. m \in Nat
    BY UncountedFinite
  <2>2. T \in Nat
    BY <1>1, InTally
  <2> QED
    BY <2>1, <2>2, BalancedIs DEF Balanced, Base, TypeOK
<1>3. CASE Puts(t)
  <2>1. counter' = counter
    BY <1>3, PutsIs
  <2>2. Cardinality(Uncounted(s)') = IF s = loc[t].slot THEN m + Cardinality(Inside(s)) ELSE m
    BY <1>3, UncountedPuts
  <2>3. CASE s = loc[t].slot
    <3> DEFINE A == Inside(s)
    <3>1. A \in SUBSET Threads /\ Cardinality(A) \in Nat
      <4>1. A \in SUBSET Threads
        BY DEF Inside
      <4> QED
        BY <4>1, PairsOf
    <3>2. \A u \in Threads : g[u] = IF u \in A THEN f[u] + 1 ELSE f[u]
      BY <1>1, <1>3, <2>3
    <3> HIDE DEF A, f, g, m
    <3>3. Cardinality(Tally(g)) = Cardinality(Tally(f)) + Cardinality(A)
      BY <1>1, <3>1, <3>2, TallyMore
    <3>4. Cardinality(Uncounted(s)') = m + Cardinality(A)
      BY <2>2, <2>3 DEF A
    <3>5. PICK x, y, z \in Int : x = T /\ y = m /\ z = Cardinality(A)
      BY <1>2, <3>1
    <3>6. x - y = (x + z) - (y + z)
      OBVIOUS
    <3>7. counter'[s] = Cardinality(Tally(g)) - Cardinality(Uncounted(s)')
      BY <1>2, <2>1, <3>3, <3>4, <3>5, <3>6
    <3> QED
      BY <3>7 DEF Balanced, g
  <2>4. CASE s # loc[t].slot
    <3>1. \A u \in Threads : g[u] = f[u]
      BY <1>1, <1>3, <2>4
    <3>2. g = f
      BY <1>1, <3>1
    <3> QED
      BY <1>2, <2>1, <2>2, <2>4, <3>2 DEF Balanced
  <2> QED
    BY <2>3, <2>4
<1>4. CASE Ack(t)
  <2>1. ~Puts(t) /\ ~RetireCount(t)
    BY <1>1, <1>4 DEF Ack, RetireCount, At
  <2>2. Uncounted(s)' = Uncounted(s)
    BY <2>1, UncountedStays
  <2> DEFINE n == IF loc[t].vec = s THEN loc[t].walk.counter ELSE 0
  <2>3. n \in Nat /\ counter'[s] = counter[s] - n
    BY <1>2, <1>4, WalkNow DEF Ack, TypeOK
  <2>4. g[t] + n = f[t] /\ \A u \in Threads : u # t => g[u] = f[u]
    BY <1>1, <1>4, <2>1
  <2> HIDE DEF n, f, g, m
  <2>5. Cardinality(Tally(g)) = Cardinality(Tally(f)) - n
    BY <1>1, <2>3, <2>4, TallyLess
  <2>6. PICK x, y, z \in Int : x = T /\ y = m /\ z = n
    BY <1>2, <2>3
  <2>7. (x - y) - z = (x - z) - y
    OBVIOUS
  <2>8. counter'[s] = Cardinality(Tally(g)) - m
    BY <1>2, <2>3, <2>5, <2>6, <2>7
  <2> QED
    BY <2>2, <2>8 DEF Balanced, g, m
<1>5. CASE ~Puts(t) /\ ~Ack(t)
  <2>1. g = f
    <3>1. \A u \in Threads : g[u] = f[u]
      BY <1>1, <1>5
    <3> QED
      BY <1>1, <3>1
  <2>2. CASE RetireCount(t)
    <3> DEFINE k == Cardinality(Uncounted(s)')
    <3>1. counter'[s] - counter[s] = m - k /\ k \in Nat
      BY <2>2, UncountedCounts
    <3>2. counter'[s] \in Int
      BY <2>2, TypeActs DEF TypeOK
    <3> HIDE DEF k, m, f
    <3>3. PICK x, y, z, c, d \in Int : x = T /\ y = m /\ z = k /\ c = counter[s] /\ d = counter'[s]
      BY <1>2, <3>1, <3>2
    <3>4. c = x - y /\ d - c = y - z
      BY <1>2, <3>1, <3>3
    <3>5. d = x - z
      BY <3>4
    <3>6. counter'[s] = T - k
      BY <3>3, <3>5
    <3> QED
      BY <2>1, <3>6 DEF Balanced, k, f
  <2>3. CASE ~RetireCount(t)
    <3>1. Uncounted(s)' = Uncounted(s)
      BY <1>5, <2>3, UncountedStays
    <3>2. counter' = counter
      <4>1. EnterLook(t) \/ LeaveLoad(t) \/ EnterAdd(t) \/ DerefAccess(t) \/ LeaveRead(t)
            \/ LeaveCas(t) \/ LeaveClear(t) \/ LeaveAdjust(t) => counter' = counter
        BY DEF EnterLook, LeaveLoad, EnterAdd, DerefAccess, LeaveRead, LeaveCas,
               LeaveClear, LeaveAdjust
      <4>2. RetireAccess(t) \/ RetireLoad(t) \/ RetireCas(t) \/ RetireAdjust(t)
            \/ RetireFinish(t) => counter' = counter
        BY DEF RetireAccess, RetireLoad, RetireCas, RetireAdjust, RetireFinish
      <4>3. UNCHANGED <<head, counter>> \/ UNCHANGED <<head, counter, history>> =>
              counter' = counter
        OBVIOUS
      <4> QED
        BY <1>5, <2>3, <4>1, <4>2, <4>3, ActsIs
    <3> QED
      BY <1>2, <2>1, <3>1, <3>2 DEF Balanced
  <2> QED
    BY <2>2, <2>3
<1> QED
  BY <1>3, <1>4, <1>5


-----------------------------------------------------------------------------
(* The threads that stay in a slot.                                        *)

\* A thread begins to look for a slot in enter only, and a slot is added to
\* those that a batch is in only by its compare-and-swap.
LEMMA Onward ==
    ASSUME Base, NEW t \in Threads, Acts(t)
    PROVE  /\ ~EnterLook(t) => loc'[t].pc \notin EnterLabels
           /\ ~Puts(t) => loc'[t].into \subseteq loc[t].into
<1> DEFINE On == loc'[t].pc \notin EnterLabels /\ loc'[t].into \subseteq loc[t].into
<1>1. TypeOK /\ loc[t] \in Local
  BY ThreadNow
<1>2. CASE loc[t].pc \in RetireLabels
  <2>1. loc'[t].pc \notin EnterLabels
    BY <1>2, RetireSteps DEF EnterLabels, Passes, Advanced
  <2>2. ~Puts(t) => loc'[t].into \subseteq loc[t].into
    <3>1. CASE loc[t].pc # "retireFinish"
      BY <1>2, <3>1, RetireSteps DEF Passes, Advanced
    <3>2. CASE loc[t].pc = "retireFinish"
      <4>1. RetireFinish(t) /\ loc[t].batch \in Batches
        BY <1>2, <3>2, RetireActs, Addresses DEF RetireAccess, RetireLoad, RetireCas,
           RetireAdjust, RetireCount, At
      <4> QED
        BY <1>1, <4>1, RetireFinishDoes DEF SameRetire
    <3> QED
      BY <3>1, <3>2
  <2> QED
    BY <2>1, <2>2
<1>3. CASE loc[t].pc \notin RetireLabels
  <2>1. /\ LeaveRead(t) => loc[t].last.ptr \in Batches
        /\ TrimRead(t) => loc[t].smr \in Batches
        /\ LeaveAdjust(t) => loc[t].last.ptr \in Batches
        /\ TravDrop(t) => loc[t].walk.curr \in Batches
    BY Addresses DEF LeaveRead, TrimRead, LeaveAdjust, TravDrop, At
  <2>2. EnterLook(t) => loc'[t].into \subseteq loc[t].into
    BY <1>1, EnterLookDoes
  <2>3. EnterAdd(t) \/ LeaveLoad(t) \/ EndCall(t, Empty) => On
    BY <1>1, EnterAddDoes, LeaveLoadDoes, EndCallDoes DEF SameRetire, EnterLabels
  <2>4. Deref(t) \/ DerefLoad(t) => On
    BY <1>1, DerefDoes, DerefLoadDoes DEF SameRetire, EnterLabels
  <2>5. DerefEpoch(t) => On
    BY <1>1, DerefEpochDoes DEF SameRetire, EnterLabels
  <2>6. DerefAccess(t) => On
    BY <1>1, DerefAccessDoes DEF SameRetire, EnterLabels
  <2>7. (\E th \in TrimThresholds : Trim(t, th)) => On
    BY <1>1, TrimDoes DEF SameRetire, EnterLabels
  <2>8. (\E e \in 0 .. global : Retire(t, e)) => On
    BY <1>1, RetireDoes DEF EnterLabels
  <2>9. (\E b \in Batches : Free(t, b)) => On
    BY <1>1, FreeDoes DEF SameRetire, EnterLabels
  <2>10. TravDrop(t) => On
    <3>1. TravDrop(t) => SameRetire(loc[t], loc'[t])
      BY <1>1, <2>1, TravDropDoes
    <3>2. TravDrop(t) => loc'[t].pc \in {"leaveLoad", "ack", "travRead"}
      BY <1>1, <2>1, TravDropDoes
    <3> QED
      BY <3>1, <3>2 DEF SameRetire, EnterLabels
  <2>11. TravRead(t) \/ TrimRead(t) \/ LeaveRead(t) => On
    BY <1>1, <2>1, TravReadDoes, TrimReadDoes, LeaveReadDoes DEF SameRetire, EnterLabels
  <2>12. Ack(t) => On
    BY <1>1, AckDoes DEF Returned, SameRetire, EnterLabels
  <2>13. ASSUME NEW l \in Local, Traversed(l, loc'[t]), SameRetire(loc[t], l)
         PROVE  On
    BY <2>13 DEF Traversed, Returned, SameRetire, EnterLabels
  <2>14. LeaveAdjust(t) => On
    BY <1>1, <2>1, <2>13, LeaveAdjustDoes
  <2>15. SameRetire(loc[t], loc[t])
    BY DEF SameRetire
  <2>16. LeaveCas(t) => On
    <3>1. SUFFICES ASSUME LeaveCas(t) PROVE On
      OBVIOUS
    <3>2. \/ /\ SameRetire(loc[t], loc'[t])
             /\ loc'[t].pc = IF CmpxchgFull THEN "leaveAdjust" ELSE "leaveClear"
          \/ Traversed(loc[t], loc'[t])
          \/ Loaded(loc[t], loc'[t], head[loc[t].vec])
      BY <1>1, <3>1, LeaveCasDoes
    <3> QED
      BY <1>1, <2>13, <2>15, <3>2 DEF Loaded, SameRetire, EnterLabels
  <2>17. LeaveClear(t) => On
    <3>1. SUFFICES ASSUME LeaveClear(t) PROVE On
      OBVIOUS
    <3>2. \/ SameRetire(loc[t], loc'[t]) /\ loc'[t].pc = "leaveAdjust"
          \/ Traversed(loc[t], loc'[t])
      BY <1>1, <3>1, LeaveClearDoes
    <3> QED
      BY <1>1, <2>13, <2>15, <3>2 DEF SameRetire, EnterLabels
  <2>18. ~(\/ RetireAccess(t) \/ RetireLoad(t) \/ RetireCas(t) \/ RetireAdjust(t)
           \/ RetireCount(t) \/ RetireFinish(t))
    BY <1>3 DEF RetireAccess, RetireLoad, RetireCas, RetireAdjust, RetireCount,
                RetireFinish, At, RetireLabels
  <2> HIDE DEF On
  <2>19. EnterLook(t) \/ On
    BY <2>3, <2>4, <2>5, <2>6, <2>7, <2>8, <2>9, <2>10, <2>11, <2>12, <2>14, <2>16, <2>17,
       <2>18, ActsIs
  <2> QED
    BY <2>2, <2>19 DEF On
<1> QED
  BY <1>2, <1>3

\* A slot whose counter is not zero has, when the counts that are to come are
\* taken off, a thread with something to acknowledge.
LEMMA SomeoneOwes ==
    ASSUME Base, AckInv, NEW s \in Slots, counter[s] # 0
    PROVE  \/ \E u \in Threads : loc[u].vec = s /\ Due(u) # 0
           \/ counter[s] < 0 /\ Uncounted(s) # {}
<1> SUFFICES ASSUME \A u \in Threads : loc[u].vec = s => Due(u) = 0
             PROVE  counter[s] < 0 /\ Uncounted(s) # {}
  OBVIOUS
<1>1. AllDue(s) = {}
  <2>1. ASSUME NEW u \in Threads, loc[u].vec = s PROVE {u} \X (1 .. Due(u)) = {}
    <3>1. Due(u) = 0
      BY <2>1
    <3>2. 1 .. 0 = {}
      OBVIOUS
    <3> QED
      BY <3>1, <3>2
  <2> QED
    BY <2>1 DEF AllDue
<1>2. Cardinality(AllDue(s)) = 0
  BY <1>1, FS_EmptySet
<1>3. IsFiniteSet(Uncounted(s)) /\ Cardinality(Uncounted(s)) \in Nat
  BY UncountedFinite
<1>4. PICK n \in Nat : n = Cardinality(Uncounted(s))
  BY <1>3
<1>5. counter[s] = 0 - n
  BY <1>2, <1>4 DEF AckInv
<1>6. n # 0
  BY <1>5
<1>7. Uncounted(s) # {}
  BY <1>4, <1>6, FS_EmptySet
<1> QED
  BY <1>5, <1>6, <1>7

\* A thread that looks for a slot has nothing to acknowledge.
LEMMA LookersOwe ==
    ASSUME Base, NEW t \in Threads,
           loc[t].pc \in EnterLabels \/ EnterLook(t)
    PROVE  Due(t) = 0 /\ ~In(t)
<1>1. ControlOK(t) /\ TypeOK
  BY ThreadNow
<1>2. /\ loc[t].pc \in {"idle", "reenter", "enterLook", "enterAdd"}
      /\ loc[t].pc = "idle" => ~loc[t].inside
  BY <1>1, EnterLookDoes DEF EnterLabels
<1>3. ~loc[t].inside
  BY <1>1, <1>2 DEF ControlOK, EnterLabels
<1> QED
  BY <1>2, <1>3, DueNone

\* A slot that a retirement goes to keeps a thread: the one that departs from
\* it found something to acknowledge, and not of its own.
LEMMA StayActs ==
    ASSUME Base, RetirerInv, AckInv, StayInv, NEW t \in Threads, Acts(t)
    PROVE  StayInv'
<1> SUFFICES ASSUME NEW v \in Threads, NEW s \in loc'[v].into
             PROVE  \E u \in Threads : loc'[u].vec = s /\ ~Departs(u)'
  BY DEF StayInv
<1>1. TypeOK /\ \A u \in Threads : u # t => loc'[u] = loc[u]
  BY Frames DEF Base, Moves, Others
<1>2. \A u \in Threads : u # t => (Departs(u)' <=> Departs(u))
  BY <1>1 DEF Departs
<1>3. CASE s \in loc[v].into
  <2>1. PICK u \in Threads : loc[u].vec = s /\ ~Departs(u)
    BY <1>3 DEF StayInv
  <2>2. CASE u # t
    BY <1>1, <1>2, <2>1, <2>2
  <2>3. CASE u = t /\ EnterAdd(t)
    <3>1. loc[t].pc = "enterAdd" /\ loc'[t].pc = "idle" /\ loc'[t].vec = loc[t].slot
      BY <1>1, <2>3, EnterAddDoes
    <3>2. loc[t].slot = loc[t].vec
      BY <2>1, <2>3, <3>1 DEF Departs, EnterLabels
    <3>3. ~Departs(t)'
      BY <3>1 DEF Departs, EnterLabels
    <3> QED
      BY <2>1, <2>3, <3>1, <3>2, <3>3
  <2>4. CASE u = t /\ EnterLook(t)
    <3>1. /\ loc'[t].vec = loc[t].vec
          /\ LET i == IF loc[t].pc = "enterLook" THEN loc[t].slot ELSE loc[t].vec IN
             \/ loc'[t].pc = "enterAdd" /\ loc'[t].slot = i
             \/ /\ loc'[t].pc = "enterLook" /\ loc'[t].slot # loc[t].vec
                /\ counter[i] >= StallThreshold
      BY <1>1, <2>4, EnterLookDoes DEF SameClient
    <3>2. loc[t].pc # "enterLook"
      <4>1. ControlOK(t)
        BY ThreadNow
      <4> QED
        BY <2>1, <2>4, <4>1 DEF ControlOK, Departs, EnterLabels
    <3>3. CASE loc'[t].slot = loc[t].vec
      BY <2>1, <2>4, <3>1, <3>3 DEF Departs
    <3>4. CASE loc'[t].slot # loc[t].vec
      <4>1. counter[s] >= StallThreshold
        BY <2>1, <2>4, <3>1, <3>2, <3>4
      <4>2. s \in Slots
        BY <2>1, ThreadNow, Fields
      <4>3. counter[s] \in Int /\ StallThreshold \in Nat \ {0}
        BY <1>1, <4>2, Constants DEF TypeOK
      <4>4. counter[s] # 0 /\ ~(counter[s] < 0)
        BY <4>1, <4>3
      <4>5. PICK w \in Threads : loc[w].vec = s /\ Due(w) # 0
        BY <4>2, <4>4, SomeoneOwes
      <4>6. w # t /\ loc[w].pc \notin EnterLabels
        BY <2>4, <4>5, LookersOwe
      <4>7. ~Departs(w)
        BY <4>6 DEF Departs
      <4> QED
        BY <1>1, <1>2, <4>5, <4>6, <4>7
    <3> QED
      BY <3>3, <3>4
  <2>5. CASE u = t /\ ~EnterAdd(t) /\ ~EnterLook(t)
    <3>1. loc'[t].vec = loc[t].vec
      BY <2>5, VecStays
    <3>2. ~Departs(t)'
      BY <2>5, Onward DEF Departs
    <3> QED
      BY <2>1, <2>5, <3>1, <3>2
  <2> QED
    BY <2>2, <2>3, <2>4, <2>5
<1>4. CASE s \notin loc[v].into
  <2>1. v = t /\ Puts(t)
    <3>1. v = t
      BY <1>1, <1>4
    <3> QED
      BY <1>4, <3>1, Onward
  <2>2. /\ P!Insert(t) /\ s = loc[t].slot /\ s \in Slots /\ head[s] = loc[t].last
    <3>1. loc'[t].into = loc[t].into \union {loc[t].slot}
      BY <2>1, PutsIs
    <3>2. P!Insert(t) /\ loc[t].slot \in Slots /\ head[loc[t].slot] = loc[t].last
      BY <2>1, PutsIs
    <3> QED
      BY <1>4, <2>1, <3>1, <3>2
  <2>3. head[s].refs # 0
    <3>1. P!RetireOK(t)
      BY DEF Base, P!CoreInv, P!ThreadInv, P!ThreadOK
    <3>2. absPc[t] = "retireCas" /\ absLast[t] = loc[t].last
      BY <2>2, Image DEF P!Insert
    <3> QED
      BY <2>2, <3>1, <3>2 DEF P!RetireOK
  <2>4. PICK u \in Threads : loc[u].vec = s /\ In(u)
    <3>1. P!SlotsAgree /\ s \in P!Slots
      BY <2>2, SameWords DEF Base, P!CoreInv
    <3>2. head[s].refs = Cardinality(Inside(s))
      BY <3>1, SameInside, SameSize DEF P!SlotsAgree
    <3>3. Inside(s) # {}
      BY <2>3, <3>2, FS_EmptySet
    <3> QED
      BY <3>3 DEF Inside
  <2>5. loc'[u].vec = loc[u].vec
    BY <2>1, DuePuts
  <2>6. ~Departs(u)'
    <3>1. CASE u # t
      BY <1>2, <2>4, <3>1, LookersOwe DEF Departs
    <3>2. CASE u = t
      BY <2>1, <3>2, PutsIs DEF Departs, EnterLabels
    <3> QED
      BY <3>1, <3>2
  <2> QED
    BY <2>4, <2>5, <2>6
<1> QED
  BY <1>3, <1>4


\* To begin with nobody has anything to acknowledge.
LEMMA AckInit == Init => AckInv /\ StayInv
<1> SUFFICES ASSUME Init PROVE AckInv /\ StayInv
  OBVIOUS
<1>1. ASSUME NEW t \in Threads
      PROVE  loc[t].pc = "idle" /\ ~loc[t].inside /\ loc[t].into = {}
  <2>1. PICK s \in Slots : loc[t] = [Between(Empty) EXCEPT !.vec = s]
    BY <1>1 DEF Init
  <2> QED
    BY <2>1 DEF Between
<1>2. Base
  BY SafeInit DEF SafeInv
<1>3. ASSUME NEW s \in Slots PROVE Cardinality(AllDue(s)) = 0 /\ Cardinality(Uncounted(s)) = 0
  <2>1. ASSUME NEW t \in Threads PROVE 1 .. Due(t) = {}
    <3>1. Due(t) = 0
      BY <1>1, <1>2, DueNone
    <3>2. 1 .. 0 = {}
      OBVIOUS
    <3> QED
      BY <3>1, <3>2
  <2>2. AllDue(s) = {}
    BY <2>1 DEF AllDue
  <2>3. Uncounted(s) = {}
    BY <1>1 DEF Uncounted, At
  <2> QED
    BY <2>2, <2>3, FS_EmptySet
<1>4. AckInv
  BY <1>3 DEF AckInv, Init
<1>5. StayInv
  BY <1>1 DEF StayInv
<1> QED
  BY <1>4, <1>5

\* The acknowledgements are about these variables only.
LEMMA AckStill ==
    ASSUME AckInv, StayInv, UNCHANGED <<loc, head, counter, history>>
    PROVE  AckInv' /\ StayInv'
<1>1. \A t \in Threads : Due(t)' = Due(t)
  BY DEF Due, InSlot, InWalk, InOuter, In, history, owed
<1>2. \A s : AllDue(s)' = AllDue(s)
  BY <1>1 DEF AllDue
<1>3. \A s : Uncounted(s)' = Uncounted(s)
  BY DEF Uncounted, At, history
<1>4. AckInv'
  BY <1>2, <1>3 DEF AckInv
<1>5. StayInv'
  BY DEF StayInv, Departs
<1> QED
  BY <1>4, <1>5

\* The whole inductive invariant.
IInv == SafeInv /\ AckInv /\ StayInv

\* Every step keeps the invariant.
LEMMA InvStep == IInv /\ [Next]_vars => IInv'
<1> SUFFICES ASSUME IInv, [Next]_vars PROVE IInv'
  OBVIOUS
<1>1. SafeInv /\ AckInv /\ StayInv /\ Base /\ RetirerInv /\ SafeInv'
  BY SafeStep DEF IInv, SafeInv
<1>2. ASSUME NEW t \in Threads, Acts(t) PROVE AckInv' /\ StayInv'
  BY <1>1, <1>2, AckActs, StayActs
<1>3. ASSUME (Structure /\ UNCHANGED <<head, counter, history>>) \/ UNCHANGED vars
      PROVE  AckInv' /\ StayInv'
  <2>1. UNCHANGED <<loc, head, counter, history>>
    <3>1. CASE Structure /\ UNCHANGED <<head, counter, history>>
      BY <3>1 DEF Structure, Alloc, Link
    <3>2. CASE UNCHANGED vars
      BY <3>2 DEF vars, history, owed
    <3> QED
      BY <1>3, <3>1, <3>2
  <2> QED
    BY <1>1, <2>1, AckStill
<1> QED
  BY <1>1, <1>2, <1>3 DEF Next, Acts, IInv

\* The invariant that the properties below follow from holds of every state.
THEOREM Invariance == Spec => []OwnInv
<1>1. Init => IInv
  BY SafeInit, AckInit DEF IInv
<1>2. IInv => OwnInv
  BY DEF IInv, SafeInv, Base, OwnInv
<1> QED
  BY <1>1, <1>2, InvStep, PTL DEF Spec

\* The counter of a slot is zero unless a thread is in the slot, or on its way
\* out, or a retirement has still to count there: the acknowledgements balance
\* what the retirements counted, whatever the order they come in.
THEOREM AcksKept == Spec => []AcksBalance
<1>1. IInv => AcksBalance
  <2> SUFFICES ASSUME IInv, NEW s \in Slots, counter[s] # 0
               PROVE  \E t \in Threads :
                        \/ /\ loc[t].vec = s
                           /\ \/ loc[t].inside
                              \/ loc[t].pc \notin {"idle", "enterLook", "enterAdd",
                                                   "reenter", "free"}
                        \/ loc[t].pc \in {"retireAdjust", "retireCount"} /\ loc[t].slot = s
    BY DEF AcksBalance
  <2>1. Base /\ AckInv
    BY DEF IInv, SafeInv
  <2>2. CASE \E u \in Threads : loc[u].vec = s /\ Due(u) # 0
    BY <2>1, <2>2, DueNone
  <2>3. CASE Uncounted(s) # {}
    <3>1. PICK e : e \in Uncounted(s)
      BY <2>3
    <3> QED
      BY <3>1 DEF Uncounted, At
  <2> QED
    BY <2>1, <2>2, <2>3, SomeoneOwes
<1>2. Init => IInv
  BY SafeInit, AckInit DEF IInv
<1> QED
  BY <1>1, <1>2, InvStep, PTL DEF Spec

\* Each slot that a retirement has put its batch into keeps a thread until the
\* retirement is over, so that there are as many nodes as slots to put it into.
THEOREM NodesKept == Spec => []NodesSuffice
<1>1. OwnInv => NodesSuffice
  BY DEF OwnInv, StayInv, NodesSuffice
<1> QED
  BY <1>1, Invariance, PTL

=============================================================================
