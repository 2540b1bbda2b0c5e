------------------------------ MODULE Hyaline1S ------------------------------
(***************************************************************************)
(* Hyaline-1S, the scheme of hyaline/lfbsmro.h: bits/lfbsmr_cas1.h over    *)
(* bits/lfbsmr_common.h (module Robust), one atomic access per step.       *)
(*                                                                         *)
(* Every thread has a slot of its own, as in Hyaline-1: the head word is   *)
(* one bit and the newest batch, the access epoch has one writer, and      *)
(* nothing is acknowledged.  Slot and thread have the same number.         *)
(***************************************************************************)
EXTENDS Robust

ASSUME Hyaline1SAssumption ==
    /\ NULL \notin Batches
    /\ NumSlots \in Nat \ {0} /\ Threads = Slots
    /\ Mod \in Nat /\ NumSlots < Mod
    /\ MaxEpoch \in Nat /\ TrimThresholds \subseteq Nat

\* History, which no step of the code reads.
VARIABLES
    minEpoch,     \* minEpoch[b]: the epoch b was retired with
    \* the batches t has been counted for and has still to decrement:
    held,         \* held[t]: in its slot, from the head to the handle
    todo,         \* todo[t]: ahead of its walk
    later         \* later[t]: ahead of trim's walk while the nested leave runs

owed == <<held, todo, later>>
history == <<minEpoch, owed>>
vars == <<global, access, head, next, refs, birth, root, status, loc,
          minEpoch, held, todo, later>>

HeadWord == [on : BOOLEAN, ptr : Ptr]
Off == [on |-> FALSE, ptr |-> NULL]

Labels ==
    {"idle", "derefLoad", "derefEpoch", "derefAccess", "leaveLoad", "trimRead",
     "travRead", "travDrop", "ack", "retireAccess", "retireLoad", "retireCas",
     "retireFinish", "free", "reenter"}

TypeOK ==
    /\ global \in Epoch
    /\ access \in [Slots -> Epoch]
    /\ head \in [Slots -> HeadWord]
    /\ next \in [Batches -> [Slots -> Ptr]]
    /\ refs \in [Batches -> Word]
    /\ birth \in [Batches -> Epoch]
    /\ minEpoch \in [Batches -> Epoch]
    /\ root \in Ptr
    /\ status \in [Batches -> {"freed", "new", "linked", "retired"}]
    /\ loc \in [Threads -> Locals(HeadWord, Labels)]
    /\ held \in [Threads -> Seq(Batches)]
    /\ todo \in [Threads -> Seq(Batches)]
    /\ later \in [Threads -> Seq(Batches)]

\* lfbsmr_init
Init ==
    /\ global = 0
    /\ access = [s \in Slots |-> 0]
    /\ head = [s \in Slots |-> Off]
    /\ next = [b \in Batches |-> [s \in Slots |-> NULL]]
    /\ refs = [b \in Batches |-> 0]
    /\ birth = [b \in Batches |-> 0]
    /\ minEpoch = [b \in Batches |-> 0]
    /\ root = NULL
    /\ status = [b \in Batches |-> "freed"]
    /\ loc = [t \in Threads |-> [Between(Off) EXCEPT !.vec = t]]
    /\ held = [t \in Threads |-> <<>>]
    /\ todo = [t \in Threads |-> <<>>]
    /\ later = [t \in Threads |-> <<>>]

-----------------------------------------------------------------------------
\* Mutant of Enter: the handle stays the one that trim left.
EnterKeepsHandle(t) ==
    /\ At(t, "reenter") \/ (At(t, "idle") /\ ~loc[t].inside)
    /\ head' = [head EXCEPT ![t] = [on |-> TRUE, ptr |-> NULL]]
    /\ Goes(t, [loc[t] EXCEPT !.inside = TRUE, !.pc = "idle"])
    /\ UNCHANGED <<epochs, memory, structure, history>>

\* enter: a store.
Enter(t) ==
    /\ At(t, "reenter") \/ (At(t, "idle") /\ ~loc[t].inside)
    /\ head' = [head EXCEPT ![t] = [on |-> TRUE, ptr |-> NULL]]
    /\ Goes(t, [loc[t] EXCEPT !.inside = TRUE, !.smr = NULL, !.pc = "idle"])
    /\ UNCHANGED <<epochs, memory, structure, history>>

\* Mutant of DerefAccess: the pointer is not read again.
DerefAccessOnce(t) ==
    /\ At(t, "derefAccess")
    /\ access' = [access EXCEPT ![t] = loc[t].glob]
    /\ Goes(t, [loc[t] EXCEPT !.acc = loc[t].glob, !.pc = "derefEpoch"])
    /\ UNCHANGED <<global, head, memory, structure, history>>

\* access: a store to the slot's access epoch.
DerefAccess(t) ==
    /\ At(t, "derefAccess")
    /\ access' = [access EXCEPT ![t] = loc[t].glob]
    /\ Goes(t, [loc[t] EXCEPT !.acc = loc[t].glob, !.glob = 0, !.pc = "derefLoad"])
    /\ UNCHANGED <<global, head, memory, structure, history>>

-----------------------------------------------------------------------------
\* The history of a return from __leave or traverse.
Returns(t) ==
    /\ todo' = [todo EXCEPT ![t] = IF loc[t].op = "nested" THEN later[t] ELSE <<>>]
    /\ later' = [later EXCEPT ![t] = <<>>]

\* The history of an exchange that took the list with head curr out of the slot.
Takes(t, curr) ==
    /\ held' = [held EXCEPT ![t] = <<>>]
    /\ IF curr # NULL THEN todo' = [todo EXCEPT ![t] = held[t]] /\ later' = later
       ELSE Returns(t)

\* The history of a decrement: the walk goes on, or the nested leave begins.
Drops(t) ==
    /\ IF loc'[t].op # loc[t].op
       THEN /\ todo' = [todo EXCEPT ![t] = <<>>]
            /\ later' = [later EXCEPT ![t] = Tail(todo[t])]
       ELSE /\ todo' = [todo EXCEPT ![t] = Tail(@)]
            /\ later' = later
    /\ held' = held

\* The history of trim: the head stays in the slot as the handle.
Keeps(t) ==
    /\ IF head[t].ptr = loc[t].smr THEN UNCHANGED <<held, todo>>
       ELSE /\ todo' = [todo EXCEPT ![t] = Tail(held[t])]
            /\ held' = [held EXCEPT ![t] = <<head[t].ptr>>]
    /\ later' = later

\* Mutant of Leave: the walk goes past the handle.
LeaveNoHandle(t) ==
    LET l == [loc[t] EXCEPT !.inside = FALSE, !.holds = {},
                            !.op = IF @ = "nested" THEN @ ELSE "leave"]
        curr == head[t].ptr
    IN  /\ (At(t, "idle") /\ loc[t].inside) \/ At(t, "leaveLoad")
        /\ head' = [head EXCEPT ![t] = Off]
        /\ Goes(t, IF curr # NULL
                   THEN [l EXCEPT !.walk.nxt = curr, !.pc = "travRead"]
                   ELSE Return(l))
        /\ Takes(t, curr)
        /\ UNCHANGED <<epochs, memory, structure, minEpoch>>

\* leave, of the client or of traverse: take the list out of the slot by an
\* exchange, and walk it.  From here on the client of t has no pointer.
Leave(t) ==
    LET l == [loc[t] EXCEPT !.inside = FALSE, !.holds = {},
                            !.op = IF @ = "nested" THEN @ ELSE "leave"]
        curr == head[t].ptr
    IN  /\ (At(t, "idle") /\ loc[t].inside) \/ At(t, "leaveLoad")
        /\ head' = [head EXCEPT ![t] = Off]
        /\ Goes(t, IF curr # NULL
                   THEN [l EXCEPT !.walk.nxt = curr, !.walk.end = l.smr,
                                  !.pc = "travRead"]
                   ELSE Return(l))
        /\ Takes(t, curr)
        /\ UNCHANGED <<epochs, memory, structure, minEpoch>>

\* ack does nothing.
Ack(t) ==
    /\ At(t, "ack")
    /\ Goes(t, Return(loc[t]))
    /\ Returns(t)
    /\ UNCHANGED <<epochs, head, memory, structure, minEpoch, held>>

-----------------------------------------------------------------------------
(* retire: insert the batch in every slot that is on and whose thread may  *)
(* have read a pointer to it, in slot order.                               *)

RetireBegin(t, e) ==
    /\ Retire(t, e)
    /\ minEpoch' = [minEpoch EXCEPT ![root] = loc'[t].min]
    /\ UNCHANGED <<head, owed>>

\* next: the bottom of the loop over the slots.
NextSlot(l) ==
    IF l.slot + 1 < NumSlots
    THEN [l EXCEPT !.last = Off, !.slot = @ + 1, !.pc = "retireAccess"]
    ELSE [l EXCEPT !.last = Off, !.pc = "retireFinish"]

\* With w the head word just loaded.
TrySlot(l, w) ==
    IF ~w.on THEN NextSlot(l) ELSE [l EXCEPT !.last = w, !.pc = "retireCas"]

\* Mutant of RetireAccess: the batch goes into every slot that is on.
RetireAccessAny(t) ==
    LET l == loc[t] IN
    /\ At(t, "retireAccess")
    /\ Goes(t, [l EXCEPT !.pc = "retireLoad"])
    /\ UNCHANGED <<epochs, head, memory, structure, history>>

RetireAccess(t) ==
    LET l == loc[t] IN
    /\ At(t, "retireAccess")
    /\ Goes(t, IF access[l.slot] >= l.min THEN [l EXCEPT !.pc = "retireLoad"]
               ELSE NextSlot(l))
    /\ UNCHANGED <<epochs, head, memory, structure, history>>

RetireLoad(t) ==
    /\ At(t, "retireLoad")
    /\ Goes(t, TrySlot(loc[t], head[loc[t].slot]))
    /\ UNCHANGED <<epochs, head, memory, structure, history>>

\* The CAS that makes the batch the head.
RetireCas(t) ==
    LET l == loc[t]
        s == l.slot
    IN  /\ At(t, "retireCas")
        /\ \/ /\ head[s] = l.last
              /\ head' = [head EXCEPT ![s].ptr = l.batch]
              /\ next' = [next EXCEPT ![l.batch][s] = l.last.ptr]
              /\ Goes(t, NextSlot([l EXCEPT !.adjs = AddW(@, 1),
                                            !.into = @ \union {s}]))
              /\ held' = [held EXCEPT ![s] = <<l.batch>> \o @]
           \/ /\ head[s] # l.last
              /\ Goes(t, TrySlot(l, head[s]))
              /\ UNCHANGED <<head, next, held>>
        /\ UNCHANGED <<epochs, refs, birth, structure, minEpoch, todo, later>>

\* Mutant of RetireFinish: a batch that went into no slot is left alone.
RetireFinishIfInserted(t) ==
    LET l == loc[t] IN
    /\ At(t, "retireFinish")
    /\ Adjust(l.batch, l.adjs)
    /\ Goes(t, [l EXCEPT !.list = IF l.adjs = 0 THEN @ ELSE Collected(@, l.batch, l.adjs),
                         !.pc = "free"])
    /\ UNCHANGED <<epochs, head, next, birth, structure, history>>

RetireFinish(t) ==
    LET l == loc[t] IN
    /\ At(t, "retireFinish")
    /\ Adjust(l.batch, l.adjs)
    /\ Goes(t, [l EXCEPT !.list = Collected(@, l.batch, l.adjs), !.pc = "free"])
    /\ UNCHANGED <<epochs, head, next, birth, structure, history>>

-----------------------------------------------------------------------------
Step(t) ==
    \/ /\ CommonStep(t, Off)
       /\ minEpoch' = [b \in Batches |-> IF status'[b] = "freed" THEN 0 ELSE minEpoch[b]]
       /\ IF At(t, "travDrop") THEN Drops(t) ELSE UNCHANGED owed
       /\ UNCHANGED head
    \/ DerefAccess(t) \/ Ack(t) \/ (At(t, "leaveLoad") /\ Leave(t))
    \/ (At(t, "reenter") /\ Enter(t)) \/ RetireAccess(t) \/ RetireLoad(t)
    \/ RetireCas(t) \/ RetireFinish(t)

Call(t) ==
    \/ Deref(t) /\ UNCHANGED <<head, history>>
    \/ (\E th \in TrimThresholds : Trim(t, th)) /\ Keeps(t) /\ UNCHANGED <<head, minEpoch>>
    \/ \E e \in 0 .. global : RetireBegin(t, e)

Next ==
    \/ Structure /\ UNCHANGED <<head, history>>
    \/ \E t \in Threads : Enter(t) \/ Leave(t) \/ Call(t) \/ Step(t)

Spec == Init /\ [][Next]_vars
-----------------------------------------------------------------------------
(* Safety.                                                                 *)

\* The batches whose memory the next access of t reads or writes.
Target(t) ==
    LET l == loc[t] IN
    CASE l.pc = "trimRead" -> {l.smr}
      [] l.pc = "travRead" -> {l.walk.nxt} \ {NULL}
      [] l.pc = "travDrop" -> {l.walk.curr}
      [] l.op = "retire" /\ l.pc # "free" -> {l.batch}
      [] OTHER -> {}

\* No call touches a batch whose memory was given back or is about to be.
TouchesOnlyRetired ==
    \A t \in Threads : \A b \in Target(t) :
        /\ b # NULL /\ status[b] = "retired"
        /\ \A u \in Threads : b \notin loc[u].list

\* Nothing leaks.
QuietIsClean ==
    (\A t \in Threads : loc[t].pc = "idle" /\ ~loc[t].inside) =>
        /\ head = [s \in Slots |-> Off]
        /\ \A b \in Batches : status[b] # "retired"

(* The client sees nothing but SafePointers. *)
Abstract == INSTANCE SafePointers WITH holds <- [t \in Threads |-> loc[t].holds]
ImplementsSafePointers == Abstract!Spec

-----------------------------------------------------------------------------
(* The inductive invariant behind these properties.                        *)

RetireLabels == {"retireAccess", "retireLoad", "retireCas", "retireFinish"}
DerefLabels == {"derefLoad", "derefEpoch", "derefAccess"}

\* t will still decrement the counter of b.
Owes(t, b) == InSeq(b, held[t]) \/ InSeq(b, todo[t]) \/ InSeq(b, later[t])
Owers(b) == {t \in Threads : Owes(t, b)}

Retiring(t, b) == loc[t].batch = b /\ loc[t].pc \in RetireLabels

\* The slots that the retirement run by t has not come to.
Ahead(t) == IF At(t, "retireFinish") THEN {} ELSE loc[t].slot .. NumSlots - 1

Listed(b) == \E t \in Threads : b \in loc[t].list

\* A slot is on exactly while its owner is inside, and empty when it is off.
SlotOK(t) ==
    /\ head[t].on <=> loc[t].inside
    /\ ~loc[t].inside => head[t] = Off /\ held[t] = <<>> /\ loc[t].holds = {}

\* Where a call can be, and what it holds there.
ControlOK(t) ==
    LET l == loc[t] IN
    /\ l.vec = t
    /\ l.pc \in {"idle", "reenter"} <=> l.op = "none"
    /\ l.pc \in DerefLabels <=> l.op = "deref"
    /\ l.batch # NULL <=> l.op = "retire"
    /\ l.pc \in RetireLabels => l.op = "retire"
    /\ l.op = "retire" => l.pc \in RetireLabels \union {"free"}
    /\ l.op \in {"leave", "trimLeft"} => l.pc \in {"travRead", "travDrop", "ack", "free"}
    /\ l.op = "trim" => l.pc \in {"trimRead", "travRead", "travDrop", "ack", "free"}
    /\ l.op = "nested" => l.pc \in {"leaveLoad", "travRead", "travDrop", "ack"}
    /\ l.pc = "leaveLoad" => l.op = "nested"
    /\ l.pc = "trimRead" => l.op = "trim"
    /\ l.op \in {"deref", "trim", "retire"} \/ l.pc = "leaveLoad" => l.inside
    /\ l.op \in {"leave", "trimLeft"} \/ l.pc = "reenter" => ~l.inside
    /\ l.op = "nested" /\ l.pc # "leaveLoad" => ~l.inside
    /\ l.pc = "retireCas" => l.last.on
    /\ l.op # "retire" => l.slot = 0 /\ l.adjs = 0
    /\ l.op \in {"none", "deref"} => l.list = {}
    /\ l.pc \notin {"trimRead", "travRead", "travDrop"} => todo[t] = <<>>
    /\ l.op # "nested" => later[t] = <<>>

\* The pointers a thread goes by lead through what it owes, in that order.
ChainOK(t) ==
    LET l == loc[t] IN
    /\ l.inside => Chain(next, t, held[t], head[t].ptr, l.smr)
    /\ l.pc = "trimRead" =>
         /\ l.smr # NULL /\ InSeq(l.smr, held[t])
         /\ Chain(next, t, todo[t], next[l.smr][t], l.walk.end)
    /\ l.pc = "travRead" => Chain(next, t, todo[t], l.walk.nxt, l.walk.end)
    /\ l.pc = "travDrop" =>
         /\ todo[t] # <<>>
         /\ Chain(next, t, todo[t], l.walk.curr, l.walk.end)
         /\ l.walk.nxt = next[l.walk.curr][t]
    /\ l.op = "nested" =>
         IF l.outer.curr = l.outer.end THEN later[t] = <<>>
         ELSE Chain(next, t, later[t], l.outer.nxt, l.outer.end)

\* A thread owes a batch at most one decrement.
OnceOK(t) ==
    /\ Distinct(held[t]) /\ Distinct(todo[t]) /\ Distinct(later[t])
    /\ Disjoint(held[t], todo[t])
    /\ Disjoint(held[t], later[t])
    /\ Disjoint(todo[t], later[t])

\* Only the owner moves a slot's epoch, and only forward.
EpochOK(t) ==
    LET l == loc[t] IN
    /\ access[t] <= global
    /\ l.pc \in DerefLabels => l.acc = access[t]
    /\ l.pc = "derefAccess" => access[t] <= l.glob /\ l.glob <= global

ThreadOK(t) == SlotOK(t) /\ ControlOK(t) /\ ChainOK(t) /\ OnceOK(t) /\ EpochOK(t)
ThreadInv == \A t \in Threads : ThreadOK(t)

\* What is reachable was born by now.
ObjectInv ==
    /\ root # NULL => status[root] = "linked"
    /\ \A b \in Batches : status[b] # "freed" => birth[b] <= global

\* At most one thread retires a batch, with an epoch that is not after its
\* birth, and until it has been through all the slots, the batch is in none
\* that lies ahead.
RetireInv ==
    \A t \in Threads : \A b \in Batches : Retiring(t, b) =>
        /\ status[b] = "retired" /\ ~Listed(b)
        /\ \A u \in Threads : Retiring(u, b) => u = t
        /\ loc[t].min <= birth[b]
        /\ loc[t].adjs <= NumSlots
        /\ ~At(t, "retireFinish") => loc[t].adjs <= loc[t].slot
        /\ Owers(b) \cap Ahead(t) = {}

\* The counter of a retired batch is the number of threads that owe it a
\* decrement, less the retirer's adjs until that is added.  It is 0 with
\* nobody retiring the batch only when the batch is on one free list.
RefsInv ==
    \A b \in Batches :
        /\ status[b] # "retired" \/ Listed(b) => Owers(b) = {}
        /\ Listed(b) => status[b] = "retired"
        /\ \A t, u \in Threads : b \in loc[t].list \cap loc[u].list => t = u
        /\ \A t \in Threads : Retiring(t, b) =>
             /\ Cardinality(Owers(b)) <= loc[t].adjs
             /\ refs[b] = NegW(loc[t].adjs - Cardinality(Owers(b)))
        /\ (status[b] = "retired" /\ ~Listed(b)
              /\ \A t \in Threads : ~Retiring(t, b)) =>
             Owers(b) # {} /\ refs[b] = Cardinality(Owers(b))

\* The pointers t has, and the one that deref is about to return.
Claims(t) ==
    loc[t].holds \union
    IF At(t, "derefEpoch") /\ loc[t].acc = global THEN {loc[t].value} \ {NULL} ELSE {}

\* What a thread claims was born by the epoch of its slot, so a retirement
\* does not pass by the slot: the batch is in it, or is still to come there.
ClaimInv ==
    \A t \in Threads : \A b \in Claims(t) :
        /\ status[b] \in {"linked", "retired"} /\ birth[b] <= access[t]
        /\ status[b] = "retired" =>
             InSeq(b, held[t]) \/ \E u \in Threads : Retiring(u, b) /\ t \in Ahead(u)

IInv == TypeOK /\ ThreadInv /\ ObjectInv /\ RetireInv /\ RefsInv /\ ClaimInv

-----------------------------------------------------------------------------
(* Liveness.  The scheduler runs thread 1, and an operation of its client  *)
(* is a finite number of calls, then leave; thread 0 may stop for ever.    *)
Fairness == WF_vars(Step(1)) /\ SF_vars(Leave(1))
FairSpec == Spec /\ Fairness

\* Thread 0 has stopped between two calls, inside.
Stalled == At(0, "idle") /\ loc[0].inside

\* Robustness: a batch all of whose nodes were born after the last epoch the
\* stalled thread read a pointer in is freed while the thread stays where it
\* is.
Robust1 ==
    \A b \in Batches :
        (status[b] = "retired" /\ minEpoch[b] > access[0]) ~>
            (status[b] = "freed" \/ ~Stalled)
=============================================================================
