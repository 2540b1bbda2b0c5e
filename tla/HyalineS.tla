------------------------------- MODULE HyalineS -------------------------------
(***************************************************************************)
(* Hyaline-S, the scheme of hyaline/lfbsmr.h: bits/lfbsmr_cas2.h over      *)
(* bits/lfbsmr_common.h (module Robust), one atomic access per step.       *)
(*                                                                         *)
(* The heads are those of Hyaline: [refs, ptr].  Every slot also counts    *)
(* the references that its threads have not acknowledged, and a thread     *)
(* that enters goes round a slot whose count is at least the stall         *)
(* threshold: somebody has stalled in it.                                  *)
(***************************************************************************)
EXTENDS Robust

CONSTANTS
    CmpxchgFull,      \* __LFREF_CMPXCHG_FULL: does one CAS change both halves
    StallThreshold    \* __LFBSMR_STALL_THRESHOLD

\* A slot's share of the word of a counter is more than its threads can owe.
ASSUME HyalineSAssumption ==
    /\ NULL \notin Batches
    /\ NumSlots \in Nat \ {0} /\ \E order \in 0 .. Mod : NumSlots = 2^order
    /\ Mod \in Nat \ {0} /\ Mod % NumSlots = 0
    /\ IsFiniteSet(Threads) /\ Cardinality(Threads) < Mod \div NumSlots
    /\ (NumSlots - 1) * Cardinality(Threads) < Mod \div NumSlots
    /\ CmpxchgFull \in BOOLEAN
    /\ MaxEpoch \in Nat /\ StallThreshold \in Nat \ {0}
    /\ TrimThresholds \subseteq Nat

VARIABLES
    counter,      \* counter[s]: hdr->vector[s].counter, a signed number
    \* history, as in Hyaline: the batches t has still to decrement,
    held,         \* held[t]: in its slot, from the one below the head to the handle
    todo,         \* todo[t]: ahead of its walk
    later,        \* later[t]: ahead of trim's walk while the nested leave runs
    covers        \* and covers[t]: the threads its retire has not yet counted

owed == <<held, todo, later>>
history == <<owed, covers>>
vars == <<global, access, head, next, refs, birth, root, status, loc, counter,
          held, todo, later, covers>>

\* addend == ((~0U) >> order) + 1U
Addend == LET sum == (Mod - 1) \div NumSlots + 1 IN IF sum = Mod THEN 0 ELSE sum

HeadWord == [refs : Word, ptr : Ptr]
Empty == [refs |-> 0, ptr |-> NULL]

Labels ==
    {"idle", "enterLook", "enterAdd", "derefLoad", "derefEpoch", "derefAccess",
     "leaveLoad", "leaveRead", "leaveCas", "leaveClear", "leaveAdjust", "trimRead",
     "travRead", "travDrop", "ack", "retireAccess", "retireLoad", "retireCas",
     "retireAdjust", "retireCount", "retireFinish", "free", "reenter"}

TypeOK ==
    /\ global \in Epoch
    /\ access \in [Slots -> Epoch]
    /\ head \in [Slots -> HeadWord]
    /\ counter \in [Slots -> Int]
    /\ next \in [Batches -> [Slots -> Ptr]]
    /\ refs \in [Batches -> Word]
    /\ birth \in [Batches -> Epoch]
    /\ root \in Ptr
    /\ status \in [Batches -> {"freed", "new", "linked", "retired"}]
    /\ loc \in [Threads -> Locals(HeadWord, Labels)]
    /\ held \in [Threads -> Seq(Batches)]
    /\ todo \in [Threads -> Seq(Batches)]
    /\ later \in [Threads -> Seq(Batches)]
    /\ covers \in [Threads -> SUBSET Threads]

\* lfbsmr_init; every thread has a slot to begin with.
Init ==
    /\ global = 0
    /\ access = [s \in Slots |-> 0]
    /\ head = [s \in Slots |-> Empty]
    /\ counter = [s \in Slots |-> 0]
    /\ next = [b \in Batches |-> [s \in Slots |-> NULL]]
    /\ refs = [b \in Batches |-> 0]
    /\ birth = [b \in Batches |-> 0]
    /\ root = NULL
    /\ status = [b \in Batches |-> "freed"]
    /\ loc \in [Threads -> {[Between(Empty) EXCEPT !.vec = s] : s \in Slots}]
    /\ held = [t \in Threads |-> <<>>]
    /\ todo = [t \in Threads |-> <<>>]
    /\ later = [t \in Threads |-> <<>>]
    /\ covers = [t \in Threads |-> {}]

\* The threads that the count of slot s stands for.
In(t) == loc[t].inside \/ loc[t].pc \in {"leaveRead", "leaveCas"}
Inside(s) == {t \in Threads : loc[t].vec = s /\ In(t)}

-----------------------------------------------------------------------------
(* enter: choose a slot, and take a reference to it.                       *)

\* One round of the loop, with the load of the slot's counter.  j is the next
\* slot to look at, the thread's own slot where the search has come round.
EnterLook(t) ==
    LET l == loc[t]
        i == IF l.pc = "enterLook" THEN l.slot ELSE l.vec
        j == (i + 1) % NumSlots
    IN  /\ \/ l.pc = "idle" /\ ~l.inside
           \/ l.pc \in {"reenter", "enterLook"}
        /\ Goes(t, IF j = l.vec \/ counter[i] < StallThreshold
                   THEN [l EXCEPT !.op = "enter", !.slot = i, !.pc = "enterAdd"]
                   ELSE [l EXCEPT !.op = "enter", !.slot = j, !.pc = "enterLook"])
        /\ UNCHANGED <<epochs, head, memory, structure, counter, history>>

EnterAdd(t) ==
    LET l == loc[t] IN
    /\ At(t, "enterAdd")
    /\ head' = [head EXCEPT ![l.slot].refs = AddW(@, 1)]
    /\ Goes(t, [Between(Empty) EXCEPT !.inside = TRUE, !.vec = l.slot,
                                      !.smr = head[l.slot].ptr])
    /\ UNCHANGED <<epochs, memory, structure, counter, history>>

-----------------------------------------------------------------------------
\* Mutant of DerefAccess: the pointer is not read again once the epoch is
\* published.
DerefAccessOnce(t) ==
    LET l == loc[t] IN
    /\ At(t, "derefAccess")
    /\ \/ /\ access[l.vec] = l.acc
          /\ access' = [access EXCEPT ![l.vec] = l.glob]
          /\ Goes(t, [l EXCEPT !.acc = l.glob, !.pc = "derefEpoch"])
       \/ /\ access[l.vec] # l.acc
          /\ Goes(t, [l EXCEPT !.acc = access[l.vec],
                               !.pc = IF access[l.vec] >= l.glob THEN "derefEpoch"
                                      ELSE @])
          /\ UNCHANGED access
    /\ UNCHANGED <<global, head, memory, structure, counter, history>>

\* access: the CAS on the slot's access epoch.  It fails when another thread
\* of the slot was there first, and need not be retried if that one was as far.
DerefAccess(t) ==
    LET l == loc[t]
        s == l.vec
    IN  /\ At(t, "derefAccess")
        /\ \/ /\ access[s] = l.acc
              /\ access' = [access EXCEPT ![s] = l.glob]
              /\ Goes(t, [l EXCEPT !.acc = l.glob, !.glob = 0, !.pc = "derefLoad"])
           \/ /\ access[s] # l.acc
              /\ Goes(t, IF access[s] >= l.glob
                         THEN [l EXCEPT !.acc = access[s], !.glob = 0, !.pc = "derefLoad"]
                         ELSE [l EXCEPT !.acc = access[s]])
              /\ UNCHANGED access
        /\ UNCHANGED <<global, head, memory, structure, counter, history>>

-----------------------------------------------------------------------------
(* leave: drop the slot's count; the last one out clears the slot.         *)

\* What comes after a load of the head: its node is read if it is not the
\* thread's handle.
HeadLoaded(l, w) ==
    [l EXCEPT !.last = w, !.pc = IF w.ptr # l.smr THEN "leaveRead" ELSE "leaveCas"]

\* The first load of the head, in a call of the client or of traverse.  From
\* here on the client of t has no pointer.
LeaveLoad(t) ==
    LET l == [loc[t] EXCEPT !.inside = FALSE, !.holds = {},
                            !.op = IF @ = "nested" THEN @ ELSE "leave"]
    IN  /\ (At(t, "idle") /\ loc[t].inside) \/ At(t, "leaveLoad")
        /\ Goes(t, HeadLoaded(l, head[l.vec]))
        /\ UNCHANGED <<epochs, head, memory, structure, counter, history>>

\* next = node->next of the head.
LeaveRead(t) ==
    LET l == loc[t] IN
    /\ At(t, "leaveRead")
    /\ Goes(t, [l EXCEPT !.walk.nxt = next[l.last.ptr][l.vec], !.pc = "leaveCas"])
    /\ UNCHANGED <<epochs, head, memory, structure, counter, history>>

\* The tail of __leave: traverse from the head's successor, if anything was
\* retired since the thread entered.
LeaveTraverse(l) ==
    LET m == [l EXCEPT !.last = Empty]
    IN  IF l.last.ptr # l.smr
        THEN [m EXCEPT !.walk.end = l.smr, !.pc = "travRead"]
        ELSE Return(m)

\* The history of a return from __leave or traverse, rest being what the walk
\* has left (nothing): the walk of trim goes on with its own.
Returns(t, rest) ==
    IF loc[t].op = "nested"
    THEN /\ todo' = [todo EXCEPT ![t] = later[t]]
         /\ later' = [later EXCEPT ![t] = <<>>]
    ELSE /\ todo' = [todo EXCEPT ![t] = rest]
         /\ later' = later

\* The history of LeaveTraverse: rest is what the walk will find.
Starts(t, rest) ==
    IF loc[t].last.ptr # loc[t].smr
    THEN todo' = [todo EXCEPT ![t] = rest] /\ later' = later
    ELSE Returns(t, rest)

\* The history of a step of traverse.
Walks(t, rest) ==
    /\ IF loc'[t].pc = "ack" THEN Returns(t, rest)
       ELSE IF loc'[t].pc = "leaveLoad"
       THEN /\ todo' = [todo EXCEPT ![t] = <<>>]
            /\ later' = [later EXCEPT ![t] = rest]
       ELSE todo' = [todo EXCEPT ![t] = rest] /\ later' = later
    /\ UNCHANGED <<held, covers>>

\* The history of trim: the head stays in the slot as the handle.
Keeps(t) ==
    /\ IF head[loc[t].vec].ptr = loc[t].smr THEN UNCHANGED <<held, todo>>
       ELSE /\ todo' = [todo EXCEPT ![t] = held[t]]
            /\ held' = [held EXCEPT ![t] = <<>>]
    /\ UNCHANGED <<later, covers>>

\* The new head word: with a full CAS the last one out also clears ptr.
HeadAfterLeave(w) ==
    LET n == AddW(w.refs, MinusOne)
    IN  IF CmpxchgFull /\ n = 0 THEN Empty ELSE [w EXCEPT !.refs = n]

LeaveCas(t) ==
    LET l == loc[t]
        n == HeadAfterLeave(l.last)
    IN  /\ At(t, "leaveCas")
        /\ \/ /\ head[l.vec] = l.last
              /\ head' = [head EXCEPT ![l.vec] = n]
              /\ held' = [held EXCEPT ![t] = <<>>]
              /\ IF n.refs = 0 /\ l.last.ptr # NULL
                 THEN /\ Goes(t, [l EXCEPT !.pc = IF CmpxchgFull THEN "leaveAdjust"
                                                  ELSE "leaveClear"])
                      /\ todo' = [todo EXCEPT ![t] = held[t]]
                      /\ later' = later
                 ELSE Goes(t, LeaveTraverse(l)) /\ Starts(t, held[t])
           \/ /\ head[l.vec] # l.last
              /\ Goes(t, HeadLoaded(l, head[l.vec]))
              /\ UNCHANGED <<head, owed>>
        /\ UNCHANGED <<epochs, memory, structure, counter, covers>>

\* For an incomplete CAS, the extra step; it fails if another thread came.
LeaveClear(t) ==
    LET l == loc[t] IN
    /\ At(t, "leaveClear")
    /\ IF head[l.vec] = [refs |-> 0, ptr |-> l.last.ptr]
       THEN /\ head' = [head EXCEPT ![l.vec] = Empty]
            /\ Goes(t, [l EXCEPT !.pc = "leaveAdjust"])
            /\ UNCHANGED <<todo, later>>
       ELSE /\ Goes(t, LeaveTraverse(l))
            /\ Starts(t, todo[t])
            /\ UNCHANGED head
    /\ UNCHANGED <<epochs, memory, structure, counter, held, covers>>

\* The slot is finished with the batch that was its head.
LeaveAdjust(t) ==
    LET l == loc[t] IN
    /\ At(t, "leaveAdjust")
    /\ Adjust(l.last.ptr, Addend)
    /\ Goes(t, LeaveTraverse([l EXCEPT !.list = Collected(@, l.last.ptr, Addend)]))
    /\ Starts(t, todo[t])
    /\ UNCHANGED <<epochs, head, next, birth, structure, counter, held, covers>>

\* ack: at the end of traverse.
Ack(t) ==
    LET l == loc[t] IN
    /\ At(t, "ack")
    /\ counter' = [counter EXCEPT ![l.vec] = @ - l.walk.counter]
    /\ Goes(t, Return(l))
    /\ UNCHANGED <<epochs, head, memory, structure, history>>

-----------------------------------------------------------------------------
(* retire: insert the batch in every slot in use whose threads may have    *)
(* read a pointer to it, in slot order.                                    *)

\* The bottom of the loop over the slots.
NextSlot(l) ==
    IF l.slot + 1 < NumSlots
    THEN [l EXCEPT !.last = Empty, !.slot = @ + 1, !.pc = "retireAccess"]
    ELSE [l EXCEPT !.last = Empty, !.pc = IF l.doAdjs THEN "retireFinish" ELSE "free"]

\* Mutant of PassBy: the share of the slot is forgotten.
PassByAddsNothing(l) == NextSlot(l)

\* adjust: the slot is passed by.
PassBy(l) == NextSlot([l EXCEPT !.adjs = AddW(@, Addend), !.doAdjs = TRUE])

\* With w the head word just loaded.
TrySlot(l, w) ==
    IF w.refs = 0 THEN PassBy(l) ELSE [l EXCEPT !.last = w, !.pc = "retireCas"]

\* Mutant of RetireAccess: a slot that is exactly as far is passed by.
RetireAccessLater(t) ==
    LET l == loc[t] IN
    /\ At(t, "retireAccess")
    /\ Goes(t, IF access[l.slot] > l.min THEN [l EXCEPT !.pc = "retireLoad"]
               ELSE PassBy(l))
    /\ UNCHANGED <<epochs, head, memory, structure, counter, history>>

RetireAccess(t) ==
    LET l == loc[t] IN
    /\ At(t, "retireAccess")
    /\ Goes(t, IF access[l.slot] >= l.min THEN [l EXCEPT !.pc = "retireLoad"]
               ELSE PassBy(l))
    /\ UNCHANGED <<epochs, head, memory, structure, counter, history>>

RetireLoad(t) ==
    /\ At(t, "retireLoad")
    /\ Goes(t, TrySlot(loc[t], head[loc[t].slot]))
    /\ UNCHANGED <<epochs, head, memory, structure, counter, history>>

\* The CAS that makes the batch the head.  The old one is now owed by every
\* thread in the slot.
RetireCas(t) ==
    LET l == loc[t]
        s == l.slot
        prev == l.last.ptr
    IN  /\ At(t, "retireCas")
        /\ \/ /\ head[s] = l.last
              /\ head' = [head EXCEPT ![s].ptr = l.batch]
              /\ next' = [next EXCEPT ![l.batch][s] = prev]
              /\ held' = [u \in Threads |-> IF u \in Inside(s) /\ prev # NULL
                                            THEN <<prev>> \o held[u] ELSE held[u]]
              /\ covers' = [covers EXCEPT ![t] = Inside(s)]
              /\ Goes(t, [l EXCEPT !.into = @ \union {s},
                                   !.pc = IF prev # NULL THEN "retireAdjust"
                                          ELSE "retireCount"])
           \/ /\ head[s] # l.last
              /\ Goes(t, TrySlot(l, head[s]))
              /\ UNCHANGED <<head, next, held, covers>>
        /\ UNCHANGED <<epochs, refs, birth, structure, counter, todo, later>>

\* Mutant of RetireAdjust: the threads inside the slot are not counted.
RetireAdjustsNoThreads(t) ==
    LET l == loc[t] IN
    /\ At(t, "retireAdjust")
    /\ Adjust(l.last.ptr, Addend)
    /\ Goes(t, [l EXCEPT !.list = Collected(@, l.last.ptr, Addend),
                         !.pc = "retireCount"])
    /\ UNCHANGED <<epochs, head, next, birth, structure, counter, history>>

\* The slot is finished with its old head, but for the threads in it.
RetireAdjust(t) ==
    LET l == loc[t]
        share == AddW(Addend, l.last.refs)
    IN  /\ At(t, "retireAdjust")
        /\ Adjust(l.last.ptr, share)
        /\ Goes(t, [l EXCEPT !.list = Collected(@, l.last.ptr, share),
                             !.pc = "retireCount"])
        /\ UNCHANGED <<epochs, head, next, birth, structure, counter, history>>

\* The slot's threads have one more batch each to acknowledge; then the next
\* node of the batch, for the next slot, is read from the node just inserted.
RetireCount(t) ==
    LET l == loc[t] IN
    /\ At(t, "retireCount")
    /\ counter' = [counter EXCEPT ![l.slot] = @ + l.last.refs]
    /\ Goes(t, NextSlot(l))
    /\ covers' = [covers EXCEPT ![t] = {}]
    /\ UNCHANGED <<epochs, head, memory, structure, owed>>

RetireFinish(t) ==
    LET l == loc[t] IN
    /\ At(t, "retireFinish")
    /\ Adjust(l.batch, l.adjs)
    /\ Goes(t, [l EXCEPT !.list = Collected(@, l.batch, l.adjs), !.pc = "free"])
    /\ UNCHANGED <<epochs, head, next, birth, structure, counter, history>>

-----------------------------------------------------------------------------
Step(t) ==
    \/ /\ CommonStep(t, Empty)
       /\ \/ At(t, "travRead") /\ Walks(t, todo[t])
          \/ At(t, "travDrop") /\ Walks(t, Tail(todo[t]))
          \/ loc[t].pc \notin {"travRead", "travDrop"} /\ UNCHANGED history
       /\ UNCHANGED <<head, counter>>
    \/ EnterAdd(t) \/ DerefAccess(t) \/ LeaveRead(t) \/ LeaveCas(t)
    \/ LeaveClear(t) \/ LeaveAdjust(t) \/ Ack(t) \/ RetireAccess(t)
    \/ RetireLoad(t) \/ RetireCas(t) \/ RetireAdjust(t) \/ RetireCount(t)
    \/ RetireFinish(t)

Call(t) ==
    \/ Deref(t) /\ UNCHANGED <<head, counter, history>>
    \/ (\E th \in TrimThresholds : Trim(t, th)) /\ Keeps(t) /\ UNCHANGED <<head, counter>>
    \/ (\E e \in 0 .. global : Retire(t, e)) /\ UNCHANGED <<head, counter, history>>

Next ==
    \/ Structure /\ UNCHANGED <<head, counter, history>>
    \/ \E t \in Threads : EnterLook(t) \/ LeaveLoad(t) \/ Call(t) \/ Step(t)

Spec == Init /\ [][Next]_vars
-----------------------------------------------------------------------------
(* Safety.                                                                 *)

\* The batches whose memory the next access of t reads or writes.
Target(t) ==
    LET l == loc[t] IN
    CASE l.pc \in {"leaveRead", "leaveAdjust"} -> {l.last.ptr}
      [] l.pc = "trimRead" -> {l.smr}
      [] l.pc = "travRead" -> {l.walk.nxt} \ {NULL}
      [] l.pc = "travDrop" -> {l.walk.curr}
      [] l.pc = "retireAdjust" -> {l.last.ptr, l.batch}
      [] l.op = "retire" /\ l.pc \notin {"retireAdjust", "free"} -> {l.batch}
      [] OTHER -> {}

\* No call touches a batch whose memory was given back or is about to be.
TouchesOnlyRetired ==
    \A t \in Threads : \A b \in Target(t) :
        /\ b # NULL /\ status[b] = "retired"
        /\ \A u \in Threads : b \notin loc[u].list

\* A slot nobody is in or about to leave, and that no retire is about to
\* count for, has nothing left to acknowledge: entering threads take it.
AcksBalance ==
    \A s \in Slots :
        \/ counter[s] = 0
        \/ \E t \in Threads :
             LET l == loc[t] IN
             \/ l.vec = s /\ (l.inside \/ l.pc \notin {"idle", "enterLook",
                                                       "enterAdd", "reenter", "free"})
             \/ l.pc \in {"retireAdjust", "retireCount"} /\ l.slot = s

\* Threads change slots while a retire goes from slot to slot, but each slot
\* it inserted the batch into keeps a thread: a batch with one node for each
\* thread, and one for the counter, does not run out of nodes.
NodesSuffice ==
    \A t \in Threads : \A s \in loc[t].into : \E u \in Threads : loc[u].vec = s

\* Nothing leaks.
QuietIsClean ==
    (\A t \in Threads : loc[t].pc = "idle" /\ ~loc[t].inside) =>
        /\ head = [s \in Slots |-> Empty]
        /\ \A b \in Batches : status[b] # "retired"

(* The client sees nothing but SafePointers. *)
Abstract == INSTANCE SafePointers WITH holds <- [t \in Threads |-> loc[t].holds]
ImplementsSafePointers == Abstract!Spec

-----------------------------------------------------------------------------
(* The inductive invariant behind these properties.                        *)

EnterLabels == {"enterLook", "enterAdd"}
DerefLabels == {"derefLoad", "derefEpoch", "derefAccess"}
LeaveLabels == {"leaveRead", "leaveCas", "leaveClear", "leaveAdjust"}
RetireLabels ==
    {"retireAccess", "retireLoad", "retireCas", "retireAdjust", "retireCount",
     "retireFinish"}

\* Where a call can be, and whether its thread is inside.
ControlOK(t) ==
    LET l == loc[t] IN
    /\ l.pc \in {"idle", "reenter"} <=> l.op = "none"
    /\ l.pc \in EnterLabels <=> l.op = "enter"
    /\ l.pc \in DerefLabels <=> l.op = "deref"
    /\ l.pc \in RetireLabels => l.op = "retire"
    /\ l.op = "retire" => l.pc \in RetireLabels \union {"free"}
    /\ l.pc \in LeaveLabels => l.op \in {"leave", "nested"}
    /\ l.pc = "leaveLoad" => l.op = "nested"
    /\ l.pc = "trimRead" => l.op = "trim"
    /\ l.op = "leave" => l.pc \in LeaveLabels \union {"travRead", "travDrop", "ack", "free"}
    /\ l.op = "nested" =>
         l.pc \in LeaveLabels \union {"leaveLoad", "travRead", "travDrop", "ack"}
    /\ l.op = "trim" => l.pc \in {"trimRead", "travRead", "travDrop", "ack", "free"}
    /\ l.op = "trimLeft" => l.pc \in {"travRead", "travDrop", "ack", "free"}
    /\ l.op \in {"deref", "trim", "retire"} \/ l.pc = "leaveLoad" => l.inside
    /\ l.op \in {"enter", "leave", "trimLeft"} \/ l.pc = "reenter" => ~l.inside
    /\ l.op = "nested" /\ l.pc # "leaveLoad" => ~l.inside
    /\ ~l.inside => l.holds = {}
    /\ l.pc = "enterLook" => l.slot # l.vec

\* The locals of the calls a thread is not in.
LocalsOK(t) ==
    LET l == loc[t] IN
    /\ l.op \in {"none", "enter", "deref"} => l.last = Empty /\ l.thr = 0 /\ l.list = {}
    /\ l.op \notin {"enter", "retire"} => l.slot = 0
    /\ l.op # "retire" => l.adjs = 0 /\ ~l.doAdjs /\ l.into = {}
    /\ l.op # "nested" => l.outer = NoWalk
    /\ l.op \in {"none", "enter", "deref", "retire"} \/ l.pc \in {"free", "leaveLoad"} =>
         l.walk = NoWalk
    /\ l.pc \in LeaveLabels => l.walk = [NoWalk EXCEPT !.nxt = l.walk.nxt]
    /\ l.pc = "trimRead" => l.walk = [NoWalk EXCEPT !.end = l.walk.end]
    /\ IsFiniteSet(l.list)

\* A retirement and the slots that it has come to.
RetireOK(t) ==
    LET l == loc[t] IN
    /\ l.into \subseteq 0 .. l.slot
    /\ l.pc \in {"retireAccess", "retireLoad", "retireCas"} => l.slot \notin l.into
    /\ l.pc \in {"retireAdjust", "retireCount"} =>
         l.slot \in l.into /\ l.last.refs = Cardinality(covers[t])
    /\ l.pc \notin {"retireAdjust", "retireCount"} => covers[t] = {}
    /\ l.pc = "retireFinish" => l.doAdjs
    /\ l.pc \in RetireLabels => l.batch # NULL /\ l.min <= birth[l.batch]

\* A slot's epoch only moves forward, and what a thread knows of it is behind.
EpochOK(t) ==
    LET l == loc[t] IN
    /\ l.pc \in DerefLabels => l.acc <= access[l.vec]
    /\ l.pc = "derefAccess" => l.acc < l.glob /\ l.glob <= global

ThreadInv ==
    \A t \in Threads : ControlOK(t) /\ LocalsOK(t) /\ RetireOK(t) /\ EpochOK(t)

\* What is reachable was born by now.
ObjectInv ==
    /\ root # NULL => status[root] = "linked"
    /\ \A b \in Batches : status[b] # "freed" => birth[b] <= global
    /\ \A s \in Slots : access[s] <= global

\* The slots that the retirement run by t has not come to, and those it passed by.
Ahead(t) ==
    LET l == loc[t] IN
    IF l.pc \in {"retireAccess", "retireLoad", "retireCas"} THEN l.slot .. NumSlots - 1
    ELSE IF l.pc \in {"retireAdjust", "retireCount"} THEN l.slot + 1 .. NumSlots - 1
    ELSE {}
Skipped(t) ==
    LET l == loc[t] IN
    IF l.pc = "retireFinish" THEN Slots \ l.into
    ELSE IF l.pc \in RetireLabels THEN (0 .. l.slot - 1) \ l.into
    ELSE {}

Retiring(t, b) == loc[t].batch = b /\ loc[t].pc \in RetireLabels

\* A decrement of b waits for t to leave, or will when there is another head.
Within(t, b) == InSeq(b, held[t]) \/ head[loc[t].vec].ptr = b

\* The pointers t has, and the one that deref is about to return.
Claims(t) ==
    loc[t].holds \union
    IF At(t, "derefEpoch") /\ loc[t].acc = global THEN {loc[t].value} \ {NULL} ELSE {}

\* What a thread claims was born by the epoch of its slot, so a retirement
\* does not pass by the slot: the batch is in it, or is still to come there.
ClaimInv ==
    \A t \in Threads : \A b \in Claims(t) :
        /\ status[b] \in {"linked", "retired"} /\ birth[b] <= access[loc[t].vec]
        /\ status[b] = "retired" =>
             Within(t, b) \/ \E u \in Threads : Retiring(u, b) /\ loc[t].vec \in Ahead(u)

\* A retirement that passes no slot by inserts the batch in its thread's own.
RetirerInv ==
    \A t \in Threads : loc[t].pc \in RetireLabels /\ Skipped(t) = {} =>
        Within(t, loc[t].batch) \/ loc[t].vec \in Ahead(t)

\* How many batches t has to acknowledge, the rounds of its walks: in its slot,
\* in the walk that it is in, and in that of trim around the nested leave.
Rounds(q, end) == Len(q) + IF end = NULL THEN 1 ELSE 0
InSlot(t) ==
    LET l == loc[t] IN
    IF In(t) /\ head[l.vec].ptr # l.smr THEN Rounds(held[t], l.smr) ELSE 0
InWalk(t) ==
    LET l == loc[t] IN
    l.walk.counter +
    IF l.pc \in {"leaveClear", "leaveAdjust"} /\ l.last.ptr # l.smr
    THEN Rounds(todo[t], l.smr)
    ELSE IF l.pc \in {"trimRead", "travRead"} THEN Rounds(todo[t], l.walk.end)
    ELSE IF l.pc = "travDrop" THEN Rounds(todo[t], l.walk.end) - 1
    ELSE 0
InOuter(t) ==
    LET l == loc[t] IN
    l.outer.counter +
    IF l.op = "nested" /\ l.outer.curr # l.outer.end
    THEN Rounds(IF l.pc = "ack" THEN todo[t] ELSE later[t], l.outer.end)
    ELSE 0
Due(t) == InSlot(t) + InWalk(t) + InOuter(t)

AllDue(s) == UNION {{t} \X (1 .. Due(t)) : t \in {u \in Threads : loc[u].vec = s}}

\* The threads that a retire has inserted a batch for and will count.
Uncounted(s) == {e \in Threads \X Threads :
    /\ At(e[1], "retireAdjust") \/ At(e[1], "retireCount")
    /\ loc[e[1]].slot = s /\ e[2] \in covers[e[1]]}

\* The counter of a slot is what its threads have to acknowledge, as far as it
\* has been counted.
AckInv ==
    \A s \in Slots : counter[s] = Cardinality(AllDue(s)) - Cardinality(Uncounted(s))

\* A slot with a batch of a retirement that is under way keeps a thread: the
\* last one to look for another slot would find nothing to acknowledge.
Departs(t) == loc[t].pc \in EnterLabels /\ loc[t].slot # loc[t].vec
StayInv ==
    \A t \in Threads : \A s \in loc[t].into :
        \E u \in Threads : loc[u].vec = s /\ ~Departs(u)

OwnInv ==
    /\ TypeOK /\ ThreadInv /\ ObjectInv /\ ClaimInv /\ RetirerInv /\ AckInv /\ StayInv
=============================================================================
