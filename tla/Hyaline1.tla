------------------------------- MODULE Hyaline1 -------------------------------
(***************************************************************************)
(* Hyaline-1, the scheme of hyaline/lfsmro.h: bits/lfsmr_cas1.h over       *)
(* bits/lfsmr_common.h, one atomic access of the code per step.            *)
(*                                                                         *)
(* Every thread has a slot of its own (enter_num of the trackers is the    *)
(* thread's number), so a slot needs no count: its head word is one bit,   *)
(* "the thread is inside", and the newest batch retired into the slot.     *)
(* Only the owner takes batches out of its slot, by exchanging the word.   *)
(*                                                                         *)
(* Abstractions: those of module Hyaline.  Slots without a thread are      *)
(* always off and retire passes them by; they are left out.                *)
(***************************************************************************)
EXTENDS Words, Chains, FiniteSets

CONSTANTS
    NumThreads,
    TrimThresholds    \* the thresholds the client passes to trim

Threads == 0 .. NumThreads - 1

ASSUME Hyaline1Assumption ==
    /\ NULL \notin Batches
    /\ NumThreads \in Nat \ {0}
    /\ Mod \in Nat /\ NumThreads < Mod
    /\ TrimThresholds \subseteq Nat

HeadWord == [on : BOOLEAN, ptr : Ptr]
Off == [on |-> FALSE, ptr |-> NULL]

\* The locals of a call of traverse.
Walk == [curr : Ptr, nxt : Ptr, end : Ptr]
NoWalk == [curr |-> NULL, nxt |-> NULL, end |-> NULL]

VARIABLES
    \* the shared words
    head,       \* head[t]: hdr->vector[t].head
    next,       \* next[b][t]: next of b's node in slot t
    refs,       \* refs[b]: the counter in b's last node
    \* what the client sees (see SafeReclaim)
    active, status, grace,
    \* history: the batches t will still decrement, in the order it will do so
    held,       \* those in its slot, newest first, down to its handle
    todo,       \* those its current traverse has not come to
    later,      \* those trim's traverse has left when it runs the nested leave
    \* the locals of the threads
    pc,         \* the next atomic access
    op,         \* the call t is in
    smr,        \* the client's handle
    walk,       \* the current call of traverse
    outer,      \* trim's call of traverse while it runs the nested leave
    thr,        \* trim's *threshold
    list,       \* batches to free at the end of the call
    batch, slot, adjs, last   \* retire: first, i, adjs, last

shared == <<head, next, refs>>
client == <<active, status, grace>>
history == <<held, todo, later>>
retireLocals == <<batch, slot, adjs, last>>
walkLocals == <<walk, outer, thr>>
vars == <<head, next, refs, active, status, grace, held, todo, later, pc, op,
          smr, walk, outer, thr, list, batch, slot, adjs, last>>

Labels == {"idle", "leaveSwap", "trimRead", "travRead", "travDrop", "retireLoad",
           "retireCas", "retireFinish", "free", "reenter"}
Ops == {"none", "leave", "trim", "nested", "trimLeft", "retire"}

TypeOK ==
    /\ head \in [Threads -> HeadWord]
    /\ next \in [Batches -> [Threads -> Ptr]]
    /\ refs \in [Batches -> Word]
    /\ active \in SUBSET Threads
    /\ status \in [Batches -> {"live", "retired", "freed"}]
    /\ grace \in [Batches -> SUBSET Threads]
    /\ held \in [Threads -> Seq(Batches)]
    /\ todo \in [Threads -> Seq(Batches)]
    /\ later \in [Threads -> Seq(Batches)]
    /\ pc \in [Threads -> Labels]
    /\ op \in [Threads -> Ops]
    /\ smr \in [Threads -> Ptr]
    /\ walk \in [Threads -> Walk]
    /\ outer \in [Threads -> Walk]
    /\ thr \in [Threads -> Nat]
    /\ list \in [Threads -> SUBSET Batches]
    /\ batch \in [Threads -> Ptr]
    /\ slot \in [Threads -> Threads]
    /\ adjs \in [Threads -> Word]
    /\ last \in [Threads -> HeadWord]

\* lfsmr_init: every slot is off.
Init ==
    /\ head = [t \in Threads |-> Off]
    /\ next = [b \in Batches |-> [t \in Threads |-> NULL]]
    /\ refs = [b \in Batches |-> 0]
    /\ active = {}
    /\ status = [b \in Batches |-> "live"]
    /\ grace = [b \in Batches |-> {}]
    /\ held = [t \in Threads |-> <<>>]
    /\ todo = [t \in Threads |-> <<>>]
    /\ later = [t \in Threads |-> <<>>]
    /\ pc = [t \in Threads |-> "idle"]
    /\ op = [t \in Threads |-> "none"]
    /\ smr = [t \in Threads |-> NULL]
    /\ walk = [t \in Threads |-> NoWalk]
    /\ outer = [t \in Threads |-> NoWalk]
    /\ thr = [t \in Threads |-> 0]
    /\ list = [t \in Threads |-> {}]
    /\ batch = [t \in Threads |-> NULL]
    /\ slot = [t \in Threads |-> 0]
    /\ adjs = [t \in Threads |-> 0]
    /\ last = [t \in Threads |-> Off]

Goto(t, l) == pc' = [pc EXCEPT ![t] = l]

\* A counter that reaches 0 sends its batch to the local free list.
AdjustRefs(t, b, v) ==
    /\ refs' = [refs EXCEPT ![b] = AddW(refs[b], v)]
    /\ list' = IF refs[b] = NegW(v)
               THEN [list EXCEPT ![t] = list[t] \union {b}] ELSE list

Released(t) == [b \in Batches |-> grace[b] \ {t}]

-----------------------------------------------------------------------------
(* enter: a store.                                                         *)

EnterSlot(t) ==
    /\ head' = [head EXCEPT ![t] = [on |-> TRUE, ptr |-> NULL]]
    /\ smr' = [smr EXCEPT ![t] = NULL]
    /\ active' = active \union {t}

Enter(t) ==
    /\ pc[t] = "idle" /\ t \notin active
    /\ EnterSlot(t)
    /\ UNCHANGED <<next, refs, status, grace, history, pc, op, walkLocals, list,
                   retireLocals>>

-----------------------------------------------------------------------------
(* leave: take the whole list out of the slot and walk it.                 *)

\* Mutant of LeaveBegin: the walk goes past the handle.
LeaveBeginNoHandle(t) ==
    /\ head' = [head EXCEPT ![t] = Off]
    /\ walk' = [walk EXCEPT ![t] = [curr |-> NULL, nxt |-> head[t].ptr,
                                    end |-> NULL]]
    /\ Goto(t, "travRead")
    /\ active' = active \ {t}
    /\ grace' = Released(t)
    /\ todo' = [todo EXCEPT ![t] = held[t]]
    /\ held' = [held EXCEPT ![t] = <<>>]
    /\ UNCHANGED <<next, refs, status, later, smr, outer, thr, list, retireLocals>>

\* The exchange.  From here on the client of t holds no reference.
LeaveBegin(t) ==
    /\ head' = [head EXCEPT ![t] = Off]
    /\ walk' = [walk EXCEPT ![t] = [curr |-> NULL, nxt |-> head[t].ptr,
                                    end |-> smr[t]]]
    /\ Goto(t, "travRead")
    /\ active' = active \ {t}
    /\ grace' = Released(t)
    /\ todo' = [todo EXCEPT ![t] = held[t]]
    /\ held' = [held EXCEPT ![t] = <<>>]
    /\ UNCHANGED <<next, refs, status, later, smr, outer, thr, list, retireLocals>>

Leave(t) ==
    /\ pc[t] = "idle" /\ t \in active
    /\ LeaveBegin(t)
    /\ op' = [op EXCEPT ![t] = "leave"]

\* The nested leave of traverse, called on behalf of trim.
NestedLeave(t) ==
    /\ pc[t] = "leaveSwap"
    /\ LeaveBegin(t)
    /\ UNCHANGED op

-----------------------------------------------------------------------------
(* traverse: give back one reference to every batch down to the handle.    *)

\* Mutant of Return: the nested leave ends trim's traversal, too.
ReturnEndsTrim(t) ==
    /\ op' = [op EXCEPT ![t] = IF op[t] = "nested" THEN "trimLeft" ELSE op[t]]
    /\ walk' = [walk EXCEPT ![t] = NoWalk]
    /\ outer' = [outer EXCEPT ![t] = NoWalk]
    /\ thr' = [thr EXCEPT ![t] = 0]
    /\ later' = [later EXCEPT ![t] = <<>>]
    /\ Goto(t, "free")

\* traverse returns: to the caller's free, or, from the nested leave, to
\* trim's traverse with *threshold = 0.
Return(t) ==
    \/ /\ op[t] = "nested"
       /\ op' = [op EXCEPT ![t] = "trimLeft"]
       /\ walk' = [walk EXCEPT ![t] = outer[t]]
       /\ outer' = [outer EXCEPT ![t] = NoWalk]
       /\ thr' = [thr EXCEPT ![t] = 0]
       /\ later' = [later EXCEPT ![t] = <<>>]
       /\ Goto(t, IF outer[t].curr = outer[t].end THEN "free" ELSE "travRead")
    \/ /\ op[t] # "nested"
       /\ walk' = [walk EXCEPT ![t] = NoWalk]
       /\ Goto(t, "free")
       /\ UNCHANGED <<op, outer, thr, later>>

\* The chain to go on with after a return, rest being what the returning
\* walk has left (nothing).
TodoAfterReturn(t, rest) == IF op[t] = "nested" THEN later[t] ELSE rest

TravRead(t) ==
    LET b == walk[t].nxt IN
    /\ pc[t] = "travRead"
    /\ \/ /\ b = NULL
          /\ Return(t)
          /\ todo' = [todo EXCEPT ![t] = TodoAfterReturn(t, todo[t])]
       \/ /\ b # NULL
          /\ walk' = [walk EXCEPT ![t] = [curr |-> b, nxt |-> next[b][t],
                                          end |-> walk[t].end]]
          /\ Goto(t, "travDrop")
          /\ UNCHANGED <<op, outer, thr, todo, later>>
    /\ UNCHANGED <<shared, client, held, smr, list, retireLocals>>

\* When trim has collected threshold batches it leaves before it goes on.
\* The batches collected so far are list[t].
Flushes(t, b) ==
    /\ op[t] = "trim" /\ thr[t] > 0
    /\ refs[b] = 1 /\ Cardinality(list[t]) + 1 >= thr[t]

TravDrop(t) ==
    LET b == walk[t].curr IN
    /\ pc[t] = "travDrop"
    /\ AdjustRefs(t, b, MinusOne)
    /\ \/ /\ Flushes(t, b)
          /\ op' = [op EXCEPT ![t] = "nested"]
          /\ outer' = [outer EXCEPT ![t] = walk[t]]
          /\ walk' = [walk EXCEPT ![t] = NoWalk]
          /\ later' = [later EXCEPT ![t] = Tail(todo[t])]
          /\ todo' = [todo EXCEPT ![t] = <<>>]
          /\ Goto(t, "leaveSwap")
          /\ UNCHANGED thr
       \/ /\ ~Flushes(t, b) /\ b # walk[t].end
          /\ todo' = [todo EXCEPT ![t] = Tail(todo[t])]
          /\ Goto(t, "travRead")
          /\ UNCHANGED <<op, walk, outer, thr, later>>
       \/ /\ ~Flushes(t, b) /\ b = walk[t].end
          /\ Return(t)
          /\ todo' = [todo EXCEPT ![t] = TodoAfterReturn(t, Tail(todo[t]))]
    /\ UNCHANGED <<head, next, client, held, smr, retireLocals>>

-----------------------------------------------------------------------------
(* trim: acknowledge what was retired so far without leaving the slot.     *)

TrimNothing(t) ==
    /\ pc[t] = "idle" /\ t \in active
    /\ head[t].ptr = smr[t]
    /\ grace' = Released(t)
    /\ UNCHANGED <<shared, active, status, history, pc, op, smr, walkLocals, list,
                   retireLocals>>

TrimBegin(t, th) ==
    /\ pc[t] = "idle" /\ t \in active
    /\ head[t].ptr # smr[t]
    /\ smr' = [smr EXCEPT ![t] = head[t].ptr]
    /\ walk' = [walk EXCEPT ![t] = [curr |-> NULL, nxt |-> NULL, end |-> smr[t]]]
    /\ thr' = [thr EXCEPT ![t] = th]
    /\ op' = [op EXCEPT ![t] = "trim"]
    /\ Goto(t, "trimRead")
    /\ grace' = Released(t)
    /\ todo' = [todo EXCEPT ![t] = Tail(held[t])]
    /\ held' = [held EXCEPT ![t] = <<head[t].ptr>>]
    /\ UNCHANGED <<shared, active, status, later, outer, list, retireLocals>>

\* Mutant of TrimRead: the walk starts at the batch that becomes the handle.
TrimReadsHandle(t) ==
    /\ pc[t] = "trimRead"
    /\ walk' = [walk EXCEPT ![t] = [curr |-> NULL, nxt |-> smr[t],
                                    end |-> walk[t].end]]
    /\ Goto(t, "travRead")
    /\ UNCHANGED <<shared, client, history, op, smr, outer, thr, list, retireLocals>>

\* link = node->next, where the traversal starts.
TrimRead(t) ==
    /\ pc[t] = "trimRead"
    /\ walk' = [walk EXCEPT ![t] = [curr |-> NULL, nxt |-> next[smr[t]][t],
                                    end |-> walk[t].end]]
    /\ Goto(t, "travRead")
    /\ UNCHANGED <<shared, client, history, op, smr, outer, thr, list, retireLocals>>

\* Leave was called by traverse: enter the slot again.
Reenter(t) ==
    /\ pc[t] = "reenter"
    /\ EnterSlot(t)
    /\ Goto(t, "idle")
    /\ UNCHANGED <<next, refs, status, grace, history, op, walkLocals, list,
                   retireLocals>>

-----------------------------------------------------------------------------
(* retire: insert the batch in every slot that is on, in slot order.       *)

\* retire of the last node of a batch: the batch is linked up, refs = 0.
Retire(t, b) ==
    /\ pc[t] = "idle" /\ status[b] = "live"
    /\ status' = [status EXCEPT ![b] = "retired"]
    /\ grace' = [grace EXCEPT ![b] = active]
    /\ refs' = [refs EXCEPT ![b] = 0]
    /\ batch' = [batch EXCEPT ![t] = b]
    /\ slot' = [slot EXCEPT ![t] = 0]
    /\ adjs' = [adjs EXCEPT ![t] = 0]
    /\ op' = [op EXCEPT ![t] = "retire"]
    /\ Goto(t, "retireLoad")
    /\ UNCHANGED <<head, next, active, history, smr, walkLocals, list, last>>

\* The bottom of the loop over the slots.
NextSlot(t) ==
    \/ /\ slot[t] + 1 < NumThreads
       /\ slot' = [slot EXCEPT ![t] = slot[t] + 1]
       /\ Goto(t, "retireLoad")
    \/ /\ slot[t] + 1 >= NumThreads
       /\ slot' = slot
       /\ Goto(t, "retireFinish")

\* With w the head word just loaded: pass by a slot that is off.
TrySlot(t, w) ==
    \/ /\ ~w.on
       /\ NextSlot(t)
       /\ UNCHANGED last
    \/ /\ w.on
       /\ last' = [last EXCEPT ![t] = w]
       /\ Goto(t, "retireCas")
       /\ UNCHANGED slot

RetireLoad(t) ==
    /\ pc[t] = "retireLoad"
    /\ TrySlot(t, head[slot[t]])
    /\ UNCHANGED <<shared, client, history, op, smr, walkLocals, list, batch, adjs>>

\* Mutant of Insert: adjs++ is forgotten.
InsertUncounted(t) ==
    LET s == slot[t] IN
    /\ pc[t] = "retireCas"
    /\ head[s] = last[t]
    /\ head' = [head EXCEPT ![s] = [on |-> TRUE, ptr |-> batch[t]]]
    /\ next' = [next EXCEPT ![batch[t]] = [next[batch[t]] EXCEPT ![s] = last[t].ptr]]
    /\ held' = [held EXCEPT ![s] = <<batch[t]>> \o held[s]]
    /\ NextSlot(t)
    /\ UNCHANGED <<refs, client, todo, later, op, smr, walkLocals, list, batch, adjs,
                   last>>

\* The CAS that makes batch[t] the head of the slot.
Insert(t) ==
    LET s == slot[t] IN
    /\ pc[t] = "retireCas"
    /\ head[s] = last[t]
    /\ head' = [head EXCEPT ![s] = [on |-> TRUE, ptr |-> batch[t]]]
    /\ next' = [next EXCEPT ![batch[t]] = [next[batch[t]] EXCEPT ![s] = last[t].ptr]]
    /\ held' = [held EXCEPT ![s] = <<batch[t]>> \o held[s]]
    /\ adjs' = [adjs EXCEPT ![t] = AddW(adjs[t], 1)]
    /\ NextSlot(t)
    /\ UNCHANGED <<refs, client, todo, later, op, smr, walkLocals, list, batch, last>>

InsertFails(t) ==
    /\ pc[t] = "retireCas"
    /\ head[slot[t]] # last[t]
    /\ TrySlot(t, head[slot[t]])
    /\ UNCHANGED <<shared, client, history, op, smr, walkLocals, list, batch, adjs>>

RetireFinish(t) ==
    /\ pc[t] = "retireFinish"
    /\ AdjustRefs(t, batch[t], adjs[t])
    /\ Goto(t, "free")
    /\ UNCHANGED <<head, next, client, history, op, smr, walkLocals, retireLocals>>

-----------------------------------------------------------------------------
(* free: give the collected batches back to the allocator.                 *)

Free(t, b) ==
    /\ pc[t] = "free" /\ b \in list[t]
    /\ list' = [list EXCEPT ![t] = list[t] \ {b}]
    /\ status' = [status EXCEPT ![b] = "freed"]
    /\ UNCHANGED <<shared, active, grace, history, pc, op, smr, walkLocals,
                   retireLocals>>

\* The call returns; its locals are gone, and after leave so is the handle.
EndCall(t) ==
    /\ pc[t] = "free" /\ list[t] = {}
    /\ Goto(t, IF op[t] = "trimLeft" THEN "reenter" ELSE "idle")
    /\ op' = [op EXCEPT ![t] = "none"]
    /\ walk' = [walk EXCEPT ![t] = NoWalk]
    /\ thr' = [thr EXCEPT ![t] = 0]
    /\ batch' = [batch EXCEPT ![t] = NULL]
    /\ slot' = [slot EXCEPT ![t] = 0]
    /\ adjs' = [adjs EXCEPT ![t] = 0]
    /\ last' = [last EXCEPT ![t] = Off]
    /\ smr' = [smr EXCEPT ![t] = IF t \in active THEN smr[t] ELSE NULL]
    /\ UNCHANGED <<shared, client, history, outer, list>>

\* The allocator hands freed memory out again.
Alloc(b) ==
    /\ status[b] = "freed"
    /\ status' = [status EXCEPT ![b] = "live"]
    /\ next' = [next EXCEPT ![b] = [t \in Threads |-> NULL]]
    /\ UNCHANGED <<head, refs, active, grace, history, pc, op, smr, walkLocals,
                   list, retireLocals>>

-----------------------------------------------------------------------------
\* What the client starts, and what goes on by itself.
Trim(t) == TrimNothing(t) \/ \E th \in TrimThresholds : TrimBegin(t, th)

Call(t) ==
    \/ Enter(t) \/ Leave(t) \/ Trim(t)
    \/ \E b \in Batches : Retire(t, b)

Step(t) ==
    \/ NestedLeave(t) \/ TravRead(t) \/ TravDrop(t) \/ TrimRead(t) \/ Reenter(t)
    \/ RetireLoad(t) \/ Insert(t) \/ InsertFails(t) \/ RetireFinish(t) \/ EndCall(t)
    \/ \E b \in Batches : Free(t, b)

Next ==
    \/ \E t \in Threads : Call(t) \/ Step(t)
    \/ \E b \in Batches : Alloc(b)

Spec == Init /\ [][Next]_vars
-----------------------------------------------------------------------------
(* Safety.                                                                 *)

\* t will still decrement the counter of b.
Owes(t, b) == InSeq(b, held[t]) \/ InSeq(b, todo[t]) \/ InSeq(b, later[t])
Owers(b) == {t \in Threads : Owes(t, b)}

Retiring(t, b) ==
    batch[t] = b /\ pc[t] \in {"retireLoad", "retireCas", "retireFinish"}

\* The slots that the retirement run by t has not come to.
Ahead(t) == IF pc[t] = "retireFinish" THEN {} ELSE slot[t] .. NumThreads - 1

Listed(b) == \E t \in Threads : b \in list[t]

\* The batches whose memory the next access of t reads or writes.
Target(t) ==
    CASE pc[t] = "trimRead" -> {smr[t]}
      [] pc[t] = "travRead" -> {walk[t].nxt} \ {NULL}
      [] pc[t] = "travDrop" -> {walk[t].curr}
      [] pc[t] \in {"retireLoad", "retireCas", "retireFinish"} -> {batch[t]}
      [] OTHER -> {}

\* No call dereferences the null pointer or a batch whose memory was, or is
\* about to be, given back: neither the nodes traverse and trim walk over
\* nor the retired batch while retire goes from slot to slot.  It follows
\* that a counter reaches 0 once per retirement: no batch is freed twice.
TouchesOnlyRetired ==
    \A t \in Threads : \A b \in Target(t) :
        b \in Batches /\ status[b] = "retired" /\ ~Listed(b)

\* A batch on a free list has outlived every thread that was inside when
\* it was retired, and no slot and no traversal still leads to it.
FreesAreSafe ==
    \A t \in Threads : \A b \in list[t] :
        status[b] = "retired" /\ grace[b] = {} /\ Owers(b) = {}

\* Nothing leaks: with every thread out and no call under way, the slots are
\* off and everything that was retired has been freed.
QuietIsClean ==
    (active = {} /\ \A t \in Threads : pc[t] = "idle") =>
        /\ head = [t \in Threads |-> Off]
        /\ \A b \in Batches : status[b] # "retired"

(* The client sees nothing but SafeReclaim. *)
Abstract == INSTANCE SafeReclaim
ImplementsSafeReclaim == Abstract!Spec

-----------------------------------------------------------------------------
(* The inductive invariant behind these properties.                        *)

\* A slot is on exactly while its owner is inside, and empty when it is off.
SlotOK(t) ==
    /\ head[t].on <=> t \in active
    /\ t \notin active => head[t] = Off /\ held[t] = <<>>

\* Where a call can be, and what it holds there.
ControlOK(t) ==
    /\ pc[t] \in {"idle", "reenter"} <=> op[t] = "none"
    /\ op[t] = "retire" <=> batch[t] # NULL
    /\ pc[t] \in {"retireLoad", "retireCas", "retireFinish"} => op[t] = "retire"
    /\ op[t] = "retire" =>
         pc[t] \in {"retireLoad", "retireCas", "retireFinish", "free"}
    /\ op[t] \in {"leave", "trimLeft"} => pc[t] \in {"travRead", "travDrop", "free"}
    /\ op[t] = "trim" => pc[t] \in {"trimRead", "travRead", "travDrop", "free"}
    /\ op[t] = "nested" => pc[t] \in {"leaveSwap", "travRead", "travDrop"}
    /\ pc[t] = "leaveSwap" => op[t] = "nested"
    /\ pc[t] = "trimRead" => op[t] = "trim"
    /\ op[t] = "trim" \/ pc[t] = "leaveSwap" => t \in active
    /\ op[t] \in {"leave", "trimLeft"} \/ pc[t] = "reenter" => t \notin active
    /\ op[t] = "nested" /\ pc[t] # "leaveSwap" => t \notin active
    /\ pc[t] = "retireCas" => last[t].on
    /\ pc[t] \in {"idle", "reenter"} => list[t] = {}
    /\ pc[t] \notin {"trimRead", "travRead", "travDrop"} => todo[t] = <<>>
    /\ op[t] # "nested" => later[t] = <<>>

\* The pointers a thread goes by lead through what it owes, in that order.
ChainOK(t) ==
    /\ t \in active => Chain(next, t, held[t], head[t].ptr, smr[t])
    /\ pc[t] = "trimRead" =>
         /\ smr[t] # NULL /\ InSeq(smr[t], held[t])
         /\ Chain(next, t, todo[t], next[smr[t]][t], walk[t].end)
    /\ pc[t] = "travRead" => Chain(next, t, todo[t], walk[t].nxt, walk[t].end)
    /\ pc[t] = "travDrop" =>
         /\ todo[t] # <<>>
         /\ Chain(next, t, todo[t], walk[t].curr, walk[t].end)
         /\ walk[t].nxt = next[walk[t].curr][t]
    /\ op[t] = "nested" =>
         IF outer[t].curr = outer[t].end THEN later[t] = <<>>
         ELSE Chain(next, t, later[t], outer[t].nxt, outer[t].end)

\* A thread owes a batch at most one decrement.
OnceOK(t) ==
    /\ Distinct(held[t]) /\ Distinct(todo[t]) /\ Distinct(later[t])
    /\ Disjoint(held[t], todo[t])
    /\ Disjoint(held[t], later[t])
    /\ Disjoint(todo[t], later[t])

ThreadOK(t) == SlotOK(t) /\ ControlOK(t) /\ ChainOK(t) /\ OnceOK(t)
ThreadInv == \A t \in Threads : ThreadOK(t)

\* At most one thread retires a batch, and until it has been through all the
\* slots, the batch is in none that lies ahead.
RetireInv ==
    \A t \in Threads : \A b \in Batches : Retiring(t, b) =>
        /\ status[b] = "retired" /\ ~Listed(b)
        /\ \A u \in Threads : Retiring(u, b) => u = t
        /\ adjs[t] <= NumThreads
        /\ pc[t] # "retireFinish" => adjs[t] <= slot[t]
        /\ Owers(b) \cap Ahead(t) = {}

\* The counter of a retired batch is the number of threads that owe it a
\* decrement, less the retirer's adjs until that is added.  It is 0 with
\* nobody retiring the batch only when the batch is on one free list.
RefsInv ==
    \A b \in Batches :
        /\ status[b] # "retired" \/ Listed(b) => Owers(b) = {}
        /\ Listed(b) => status[b] = "retired"
        /\ \A t, u \in Threads : b \in list[t] \cap list[u] => t = u
        /\ \A t \in Threads : Retiring(t, b) =>
             /\ Cardinality(Owers(b)) <= adjs[t]
             /\ refs[b] = NegW(adjs[t] - Cardinality(Owers(b)))
        /\ (status[b] = "retired" /\ ~Listed(b)
              /\ \A t \in Threads : ~Retiring(t, b)) =>
             Owers(b) # {} /\ refs[b] = Cardinality(Owers(b))

\* A thread a batch has to outlive is inside and has the batch in its slot,
\* or the retirement is still to come to its slot.
GraceInv ==
    \A b \in Batches : \A s \in grace[b] :
        /\ s \in active
        /\ \/ InSeq(b, held[s])
           \/ \E t \in Threads : Retiring(t, b) /\ s \in Ahead(t)

IInv == TypeOK /\ ThreadInv /\ RetireInv /\ RefsInv /\ GraceInv
=============================================================================
