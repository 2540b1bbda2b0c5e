------------------------------- MODULE Hyaline -------------------------------
(***************************************************************************)
(* Hyaline, the scheme of hyaline/lfsmr.h: bits/lfsmr_cas2.h over          *)
(* bits/lfsmr_common.h, one atomic access of the code per step.            *)
(*                                                                         *)
(* Every slot has a head word [refs, ptr]: how many threads are inside the *)
(* slot and the newest batch retired into it.  A batch goes into the list  *)
(* of each slot that is in use and is freed when its reference counter     *)
(* returns to 0.  The counter is a w-bit word, and the 2^order slots each  *)
(* contribute Addend = 2^(w-order) to it once they are finished with the   *)
(* batch: it cannot be 0 before the last slot has contributed.             *)
(*                                                                         *)
(* Abstractions.  A batch is a value; the node of batch b that is inserted *)
(* in slot s is known by (b, s), so a pointer found in slot s is a batch.  *)
(* The last node, which holds the counter, is in no list (that a batch has *)
(* enough nodes is not the matter of this module).  node->next of a node   *)
(* under construction is written together with the compare-and-swap that   *)
(* publishes it: nobody reads it before.  A load of the double-width word  *)
(* is one step.  `check' is LF_DONTCHECK.                                  *)
(***************************************************************************)
EXTENDS Words, Chains, FiniteSets

CONSTANTS
    Threads,
    NumSlots,         \* 1 << order
    CmpxchgFull,      \* __LFREF_CMPXCHG_FULL: does one CAS change both halves
    RetireOutside,    \* may a thread that is not inside call retire
    TrimThresholds    \* the thresholds the client passes to trim

Slots == 0 .. NumSlots - 1

\* What a slot contributes to the counter of a batch.
Share == Mod \div NumSlots

\* The word has room for the threads: decrements may come before the counts
\* of all the slots but one are added, and must not use up a share.
ASSUME HyalineAssumption ==
    /\ NULL \notin Batches
    /\ NumSlots \in Nat \ {0}
    /\ Mod \in Nat \ {0} /\ Mod % NumSlots = 0
    /\ IsFiniteSet(Threads) /\ Cardinality(Threads) < Share
    /\ (NumSlots - 1) * Cardinality(Threads) < Share
    /\ CmpxchgFull \in BOOLEAN /\ RetireOutside \in BOOLEAN
    /\ TrimThresholds \subseteq Nat

\* Mutant of Addend: without the "+ 1U" the shares of the slots do not add
\* up to 2^w.
AddendNoCarry == (Mod - 1) \div NumSlots

\* addend == ((~0U) >> order) + 1U
Addend == LET sum == (Mod - 1) \div NumSlots + 1 IN IF sum = Mod THEN 0 ELSE sum

HeadWord == [refs : Word, ptr : Ptr]
Empty == [refs |-> 0, ptr |-> NULL]

\* The locals of a call of traverse.
Walk == [curr : Ptr, nxt : Ptr, end : Ptr]
NoWalk == [curr |-> NULL, nxt |-> NULL, end |-> NULL]

VARIABLES
    \* the shared words
    head,       \* head[s]: hdr->vector[s].head
    next,       \* next[b][s]: next of b's node in slot s
    refs,       \* refs[b]: the counter in b's last node
    \* what the client sees (see SafeReclaim)
    active, status, grace,
    \* history: the batches t will still decrement, in the order it will do so
    held,       \* those in its slot, from the one below the head to its handle
    todo,       \* those its current traverse has not come to
    later,      \* those trim's traverse has left when it runs the nested leave
    \* the locals of the threads
    pc,         \* the next atomic access
    op,         \* the call t is in: leave, trim, trim's nested leave, ...
    vec, smr,   \* the client's slot and handle
    last,       \* the head word as last loaded
    walk,       \* the current call of traverse
    outer,      \* trim's call of traverse while it runs the nested leave
    thr,        \* trim's *threshold
    list,       \* batches to free at the end of the call
    batch, slot, adjs, doAdjs,  \* retire: first, i, adjs, do_adjs
    \* history of retire
    skipped,    \* the slots it passed by
    covers      \* the threads whose count it adds to the old head

shared == <<head, next, refs>>
client == <<active, status, grace>>
history == <<held, todo, later>>
callerLocals == <<vec, smr>>
walkLocals == <<walk, outer, thr>>
countLocals == <<adjs, doAdjs, skipped>>
retireLocals == <<batch, slot, adjs, doAdjs, skipped, covers>>
vars == <<head, next, refs, active, status, grace, held, todo, later, pc, op, vec,
          smr, last, walk, outer, thr, list, batch, slot, adjs, doAdjs, skipped,
          covers>>

Labels ==
    {"idle", "leaveLoad", "leaveRead", "leaveCas", "leaveClear", "leaveAdjust",
     "trimRead", "travRead", "travDrop", "retireLoad", "retireCas",
     "retireAdjust", "retireNext", "retireFinish", "free", "reenter"}

Ops == {"none", "leave", "trim", "nested", "trimLeft", "retire"}

TypeOK ==
    /\ head \in [Slots -> HeadWord]
    /\ next \in [Batches -> [Slots -> Ptr]]
    /\ refs \in [Batches -> Word]
    /\ active \in SUBSET Threads
    /\ status \in [Batches -> {"live", "retired", "freed"}]
    /\ grace \in [Batches -> SUBSET Threads]
    /\ held \in [Threads -> Seq(Batches)]
    /\ todo \in [Threads -> Seq(Batches)]
    /\ later \in [Threads -> Seq(Batches)]
    /\ pc \in [Threads -> Labels]
    /\ op \in [Threads -> Ops]
    /\ vec \in [Threads -> Slots]
    /\ smr \in [Threads -> Ptr]
    /\ last \in [Threads -> HeadWord]
    /\ walk \in [Threads -> Walk]
    /\ outer \in [Threads -> Walk]
    /\ thr \in [Threads -> Nat]
    /\ list \in [Threads -> SUBSET Batches]
    /\ batch \in [Threads -> Ptr]
    /\ slot \in [Threads -> Slots]
    /\ adjs \in [Threads -> Word]
    /\ doAdjs \in [Threads -> BOOLEAN]
    /\ skipped \in [Threads -> SUBSET Slots]
    /\ covers \in [Threads -> SUBSET Threads]

\* lfsmr_init: empty slots, and nobody in a call.
Blank ==
    /\ head = [s \in Slots |-> Empty]
    /\ next = [b \in Batches |-> [s \in Slots |-> NULL]]
    /\ refs = [b \in Batches |-> 0]
    /\ active = {}
    /\ grace = [b \in Batches |-> {}]
    /\ held = [t \in Threads |-> <<>>]
    /\ todo = [t \in Threads |-> <<>>]
    /\ later = [t \in Threads |-> <<>>]
    /\ pc = [t \in Threads |-> "idle"]
    /\ op = [t \in Threads |-> "none"]
    /\ vec = [t \in Threads |-> 0]
    /\ smr = [t \in Threads |-> NULL]
    /\ last = [t \in Threads |-> Empty]
    /\ walk = [t \in Threads |-> NoWalk]
    /\ outer = [t \in Threads |-> NoWalk]
    /\ thr = [t \in Threads |-> 0]
    /\ list = [t \in Threads |-> {}]
    /\ batch = [t \in Threads |-> NULL]
    /\ slot = [t \in Threads |-> 0]
    /\ adjs = [t \in Threads |-> 0]
    /\ doAdjs = [t \in Threads |-> FALSE]
    /\ skipped = [t \in Threads |-> {}]
    /\ covers = [t \in Threads |-> {}]

Init == Blank /\ status = [b \in Batches |-> "live"]

Goto(t, l) == pc' = [pc EXCEPT ![t] = l]

\* A counter that reaches 0 sends its batch to the local free list.
AdjustRefs(t, b, v) ==
    /\ refs' = [refs EXCEPT ![b] = AddW(refs[b], v)]
    /\ list' = IF refs[b] = NegW(v)
               THEN [list EXCEPT ![t] = list[t] \union {b}] ELSE list

Released(t) == [b \in Batches |-> grace[b] \ {t}]

\* The threads that the count of slot s stands for.
In(t) == t \in active \/ pc[t] \in {"leaveRead", "leaveCas"}
Inside(s) == {t \in Threads : vec[t] = s /\ In(t)}

-----------------------------------------------------------------------------
(* enter: one fetch-and-add takes the reference and returns the handle.    *)

\* Mutant of EnterSlot: the thread would also walk over the batches that were
\* in the slot before it came.
EnterSlotNoHandle(t, s) ==
    /\ head' = [head EXCEPT ![s] = [refs |-> AddW(head[s].refs, 1),
                                    ptr |-> head[s].ptr]]
    /\ smr' = [smr EXCEPT ![t] = NULL]
    /\ vec' = [vec EXCEPT ![t] = s]
    /\ active' = active \union {t}

EnterSlot(t, s) ==
    /\ head' = [head EXCEPT ![s] = [refs |-> AddW(head[s].refs, 1),
                                    ptr |-> head[s].ptr]]
    /\ smr' = [smr EXCEPT ![t] = head[s].ptr]
    /\ vec' = [vec EXCEPT ![t] = s]
    /\ active' = active \union {t}

Enter(t, s) ==
    /\ pc[t] = "idle" /\ t \notin active
    /\ EnterSlot(t, s)
    /\ UNCHANGED <<next, refs, status, grace, history, pc, op, last, walkLocals, list,
                   retireLocals>>

-----------------------------------------------------------------------------
(* leave: drop the slot's count; the last one out clears the slot.         *)

\* With the head word w just loaded, its successor is read unless nothing was
\* retired since the thread entered.
LoadedHead(t, w) ==
    /\ last' = [last EXCEPT ![t] = w]
    /\ Goto(t, IF w.ptr # smr[t] THEN "leaveRead" ELSE "leaveCas")

\* __leave: the first load of the head.  From here on the client of t holds
\* no reference.
LeaveBegin(t) ==
    /\ LoadedHead(t, head[vec[t]])
    /\ active' = active \ {t}
    /\ grace' = Released(t)
    /\ UNCHANGED <<shared, status, history, callerLocals, walkLocals, list,
                   retireLocals>>

Leave(t) ==
    /\ pc[t] = "idle" /\ t \in active
    /\ LeaveBegin(t)
    /\ op' = [op EXCEPT ![t] = "leave"]

\* The nested leave of traverse, called on behalf of trim.
NestedLeave(t) ==
    /\ pc[t] = "leaveLoad"
    /\ LeaveBegin(t)
    /\ UNCHANGED op

\* next = node->next of the head.
LeaveRead(t) ==
    /\ pc[t] = "leaveRead"
    /\ walk' = [walk EXCEPT ![t] = [curr |-> NULL, nxt |-> next[last[t].ptr][vec[t]],
                                    end |-> NULL]]
    /\ Goto(t, "leaveCas")
    /\ UNCHANGED <<shared, client, history, op, callerLocals, last, outer, thr, list,
                   retireLocals>>

\* Mutant of Return: the nested leave ends trim's traversal, too.
ReturnEndsTrim(t) ==
    /\ op' = [op EXCEPT ![t] = IF op[t] = "nested" THEN "trimLeft" ELSE op[t]]
    /\ walk' = [walk EXCEPT ![t] = NoWalk]
    /\ outer' = [outer EXCEPT ![t] = NoWalk]
    /\ thr' = [thr EXCEPT ![t] = 0]
    /\ later' = [later EXCEPT ![t] = <<>>]
    /\ Goto(t, "free")

\* __leave or traverse returns: to the caller's free, or to trim's traverse
\* with *threshold = 0.
Return(t) ==
    \/ /\ op[t] = "nested"
       /\ op' = [op EXCEPT ![t] = "trimLeft"]
       /\ outer' = [outer EXCEPT ![t] = NoWalk]
       /\ thr' = [thr EXCEPT ![t] = 0]
       /\ later' = [later EXCEPT ![t] = <<>>]
       /\ \/ /\ outer[t].curr = outer[t].end
             /\ walk' = [walk EXCEPT ![t] = NoWalk]
             /\ Goto(t, "free")
          \/ /\ outer[t].curr # outer[t].end
             /\ walk' = [walk EXCEPT ![t] = outer[t]]
             /\ Goto(t, "travRead")
    \/ /\ op[t] # "nested"
       /\ walk' = [walk EXCEPT ![t] = NoWalk]
       /\ Goto(t, "free")
       /\ UNCHANGED <<op, outer, thr, later>>

\* The chain to go on with after a return, rest being what the returning
\* walk has left (nothing).
TodoAfterReturn(t, rest) == IF op[t] = "nested" THEN later[t] ELSE rest

\* The tail of __leave: traverse from the head's successor, if anything was
\* retired since the thread entered; rest is what the traversal will find.
\* (A local is reset as soon as it is not used again, here and below: fewer
\* states, the same behaviour.)
LeaveTraverse(t, rest) ==
    /\ last' = [last EXCEPT ![t] = Empty]
    /\ \/ /\ last[t].ptr # smr[t]
          /\ walk' = [walk EXCEPT ![t] = [curr |-> NULL, nxt |-> walk[t].nxt,
                                          end |-> smr[t]]]
          /\ todo' = [todo EXCEPT ![t] = rest]
          /\ Goto(t, "travRead")
          /\ UNCHANGED <<op, outer, thr, later>>
       \/ /\ last[t].ptr = smr[t]
          /\ Return(t)
          /\ todo' = [todo EXCEPT ![t] = TodoAfterReturn(t, rest)]

\* Mutant of HeadAfterLeave: the last one out leaves the list in the slot.
HeadKeepsList(w) == [refs |-> AddW(w.refs, MinusOne), ptr |-> w.ptr]

\* The new head word: with a full CAS the last one out also clears ptr.
HeadAfterLeave(w) ==
    IF CmpxchgFull /\ w.refs = 1 THEN Empty
    ELSE [refs |-> AddW(w.refs, MinusOne), ptr |-> w.ptr]

\* The thread is the last one out of a slot with a list.
LastOut(w) == w.refs = 1 /\ w.ptr # NULL

LeaveCas(t) ==
    LET s == vec[t]
        w == last[t]
    IN  /\ pc[t] = "leaveCas"
        /\ head[s] = w
        /\ head' = [head EXCEPT ![s] = HeadAfterLeave(w)]
        /\ held' = [held EXCEPT ![t] = <<>>]
        /\ \/ /\ LastOut(w)
              /\ Goto(t, IF CmpxchgFull THEN "leaveAdjust" ELSE "leaveClear")
              /\ todo' = [todo EXCEPT ![t] = held[t]]
              /\ UNCHANGED <<op, last, walkLocals, later>>
           \/ /\ ~LastOut(w)
              /\ LeaveTraverse(t, held[t])
        /\ UNCHANGED <<next, refs, client, callerLocals, list, retireLocals>>

\* Mutant of LeaveCasFails: the loop tries again with the word loaded before.
LeaveCasFailsStale(t) ==
    /\ pc[t] = "leaveCas"
    /\ head[vec[t]] # last[t]
    /\ UNCHANGED vars

\* The slot has changed since the head was loaded.
LeaveCasFails(t) ==
    /\ pc[t] = "leaveCas"
    /\ head[vec[t]] # last[t]
    /\ LoadedHead(t, head[vec[t]])
    /\ UNCHANGED <<shared, client, history, op, callerLocals, walkLocals, list,
                   retireLocals>>

\* Mutants of LeaveClear: the outcome of the CAS is not looked at, or the
\* step is left out.
LeaveClearUnchecked(t) ==
    LET s == vec[t] IN
    /\ pc[t] = "leaveClear"
    /\ head' = IF head[s] = [refs |-> 0, ptr |-> last[t].ptr]
               THEN [head EXCEPT ![s] = Empty] ELSE head
    /\ Goto(t, "leaveAdjust")
    /\ UNCHANGED <<next, refs, client, history, op, callerLocals, last, walkLocals,
                   list, retireLocals>>

LeaveNeverClears(t) ==
    /\ pc[t] = "leaveClear"
    /\ LeaveTraverse(t, todo[t])
    /\ UNCHANGED <<shared, client, held, callerLocals, list, retireLocals>>

\* For an incomplete CAS, the extra step; it fails if another thread came.
LeaveClear(t) ==
    LET s == vec[t] IN
    /\ pc[t] = "leaveClear"
    /\ head[s] = [refs |-> 0, ptr |-> last[t].ptr]
    /\ head' = [head EXCEPT ![s] = Empty]
    /\ Goto(t, "leaveAdjust")
    /\ UNCHANGED <<next, refs, client, history, op, callerLocals, last, walkLocals,
                   list, retireLocals>>

LeaveClearFails(t) ==
    /\ pc[t] = "leaveClear"
    /\ head[vec[t]] # [refs |-> 0, ptr |-> last[t].ptr]
    /\ LeaveTraverse(t, todo[t])
    /\ UNCHANGED <<shared, client, held, callerLocals, list, retireLocals>>

\* Mutant of LeaveAdjust: the slot's share of the counter is forgotten.
LeaveAdjustsNothing(t) ==
    /\ pc[t] = "leaveAdjust"
    /\ LeaveTraverse(t, todo[t])
    /\ UNCHANGED <<shared, list, client, held, callerLocals, retireLocals>>

\* The slot is finished with the batch that was its head.
LeaveAdjust(t) ==
    /\ pc[t] = "leaveAdjust"
    /\ AdjustRefs(t, last[t].ptr, Addend)
    /\ LeaveTraverse(t, todo[t])
    /\ UNCHANGED <<head, next, client, held, callerLocals, retireLocals>>

-----------------------------------------------------------------------------
(* traverse: give back one reference to every batch down to the handle.    *)

TravRead(t) ==
    LET b == walk[t].nxt IN
    /\ pc[t] = "travRead"
    /\ \/ /\ b = NULL
          /\ Return(t)
          /\ todo' = [todo EXCEPT ![t] = TodoAfterReturn(t, todo[t])]
       \/ /\ b # NULL
          /\ walk' = [walk EXCEPT ![t] = [curr |-> b, nxt |-> next[b][vec[t]],
                                          end |-> walk[t].end]]
          /\ Goto(t, "travDrop")
          /\ UNCHANGED <<op, outer, thr, todo, later>>
    /\ UNCHANGED <<shared, client, held, callerLocals, last, list, retireLocals>>

\* When trim has collected threshold batches it leaves before it goes on.
\* The batches collected so far are list[t].
Flushes(t, b) ==
    /\ op[t] = "trim" /\ thr[t] > 0
    /\ refs[b] = 1 /\ Cardinality(list[t]) + 1 >= thr[t]

TravDrop(t) ==
    LET b == walk[t].curr IN
    /\ pc[t] = "travDrop"
    /\ AdjustRefs(t, b, MinusOne)
    /\ \/ /\ Flushes(t, b)
          /\ op' = [op EXCEPT ![t] = "nested"]
          /\ outer' = [outer EXCEPT ![t] = walk[t]]
          /\ walk' = [walk EXCEPT ![t] = NoWalk]
          /\ later' = [later EXCEPT ![t] = Tail(todo[t])]
          /\ todo' = [todo EXCEPT ![t] = <<>>]
          /\ Goto(t, "leaveLoad")
          /\ UNCHANGED thr
       \/ /\ ~Flushes(t, b) /\ b # walk[t].end
          /\ todo' = [todo EXCEPT ![t] = Tail(todo[t])]
          /\ Goto(t, "travRead")
          /\ UNCHANGED <<op, walk, outer, thr, later>>
       \/ /\ ~Flushes(t, b) /\ b = walk[t].end
          /\ Return(t)
          /\ todo' = [todo EXCEPT ![t] = TodoAfterReturn(t, Tail(todo[t]))]
    /\ UNCHANGED <<head, next, client, held, callerLocals, last, retireLocals>>

-----------------------------------------------------------------------------
(* trim: acknowledge what was retired so far without leaving the slot.     *)

TrimNothing(t) ==
    /\ pc[t] = "idle" /\ t \in active
    /\ head[vec[t]].ptr = smr[t]
    /\ grace' = Released(t)
    /\ UNCHANGED <<shared, active, status, history, pc, op, callerLocals, last,
                   walkLocals, list, retireLocals>>

TrimBegin(t, th) ==
    LET link == head[vec[t]].ptr IN
    /\ pc[t] = "idle" /\ t \in active
    /\ link # smr[t]
    /\ smr' = [smr EXCEPT ![t] = link]
    /\ walk' = [walk EXCEPT ![t] = [curr |-> NULL, nxt |-> NULL, end |-> smr[t]]]
    /\ thr' = [thr EXCEPT ![t] = th]
    /\ op' = [op EXCEPT ![t] = "trim"]
    /\ Goto(t, "trimRead")
    /\ grace' = Released(t)
    /\ todo' = [todo EXCEPT ![t] = held[t]]
    /\ held' = [held EXCEPT ![t] = <<>>]
    /\ UNCHANGED <<shared, active, status, later, vec, last, outer, list,
                   retireLocals>>

\* link = node->next, where the traversal starts.
TrimRead(t) ==
    /\ pc[t] = "trimRead"
    /\ walk' = [walk EXCEPT ![t] = [curr |-> NULL, nxt |-> next[smr[t]][vec[t]],
                                    end |-> walk[t].end]]
    /\ Goto(t, "travRead")
    /\ UNCHANGED <<shared, client, history, op, callerLocals, last, outer, thr, list,
                   retireLocals>>

\* Mutant of Reenter: the client goes on with the handle it had.
ReenterKeepsHandle(t) ==
    LET s == vec[t] IN
    /\ pc[t] = "reenter"
    /\ head' = [head EXCEPT ![s] = [refs |-> AddW(head[s].refs, 1),
                                    ptr |-> head[s].ptr]]
    /\ active' = active \union {t}
    /\ Goto(t, "idle")
    /\ UNCHANGED <<next, refs, status, grace, history, op, callerLocals, last,
                   walkLocals, list, retireLocals>>

\* Leave was called by traverse: enter the slot again.
Reenter(t) ==
    /\ pc[t] = "reenter"
    /\ EnterSlot(t, vec[t])
    /\ Goto(t, "idle")
    /\ UNCHANGED <<next, refs, status, grace, history, op, last, walkLocals, list,
                   retireLocals>>

-----------------------------------------------------------------------------
(* retire: insert the batch in every slot in use, in slot order.           *)

\* retire of the last node of a batch: the batch is linked up, refs = 0.
Retire(t, b) ==
    /\ pc[t] = "idle" /\ status[b] = "live"
    /\ t \in active \/ RetireOutside
    /\ status' = [status EXCEPT ![b] = "retired"]
    /\ grace' = [grace EXCEPT ![b] = active]
    /\ refs' = [refs EXCEPT ![b] = 0]
    /\ batch' = [batch EXCEPT ![t] = b]
    /\ op' = [op EXCEPT ![t] = "retire"]
    /\ Goto(t, "retireLoad")
    /\ UNCHANGED <<head, next, active, history, callerLocals, last, walkLocals, list,
                   slot, countLocals, covers>>

\* The bottom of the loop over the slots, d being do_adjs.
NextSlot(t, d) ==
    \/ /\ slot[t] + 1 < NumSlots
       /\ slot' = [slot EXCEPT ![t] = slot[t] + 1]
       /\ Goto(t, "retireLoad")
    \/ /\ slot[t] + 1 >= NumSlots
       /\ slot' = slot
       /\ Goto(t, IF d THEN "retireFinish" ELSE "free")

\* Mutant of PassBy: the share of a slot that is passed by is forgotten.
PassByAddsNothing(t) ==
    /\ doAdjs' = [doAdjs EXCEPT ![t] = TRUE]
    /\ skipped' = [skipped EXCEPT ![t] = skipped[t] \union {slot[t]}]
    /\ last' = [last EXCEPT ![t] = Empty]
    /\ NextSlot(t, TRUE)
    /\ UNCHANGED adjs

\* A slot that nobody is in will not contribute to the counter: retire does.
PassBy(t) ==
    /\ adjs' = [adjs EXCEPT ![t] = AddW(adjs[t], Addend)]
    /\ doAdjs' = [doAdjs EXCEPT ![t] = TRUE]
    /\ skipped' = [skipped EXCEPT ![t] = skipped[t] \union {slot[t]}]
    /\ last' = [last EXCEPT ![t] = Empty]
    /\ NextSlot(t, TRUE)

\* With w the head word just loaded.
TrySlot(t, w) ==
    \/ w.refs = 0 /\ PassBy(t)
    \/ /\ w.refs # 0
       /\ last' = [last EXCEPT ![t] = w]
       /\ Goto(t, "retireCas")
       /\ UNCHANGED <<slot, countLocals>>

RetireLoad(t) ==
    /\ pc[t] = "retireLoad"
    /\ TrySlot(t, head[slot[t]])
    /\ UNCHANGED <<shared, client, history, op, callerLocals, walkLocals, list, batch,
                   covers>>

\* The CAS that makes batch[t] the head.  The old head is now owed by every
\* thread in the slot.
Insert(t) ==
    LET s == slot[t]
        b == batch[t]
        prev == last[t].ptr
    IN  /\ pc[t] = "retireCas"
        /\ head[s] = last[t]
        /\ head' = [head EXCEPT ![s] = [refs |-> last[t].refs, ptr |-> b]]
        /\ next' = [next EXCEPT ![b] = [next[b] EXCEPT ![s] = prev]]
        /\ \/ /\ prev = NULL
              /\ Goto(t, "retireNext")
              /\ UNCHANGED <<held, covers>>
           \/ /\ prev # NULL
              /\ Goto(t, "retireAdjust")
              /\ held' = [u \in Threads |-> IF u \in Inside(s) THEN <<prev>> \o held[u]
                                            ELSE held[u]]
              /\ covers' = [covers EXCEPT ![t] = Inside(s)]
        /\ UNCHANGED <<refs, client, todo, later, op, callerLocals, last, walkLocals,
                       list, batch, slot, countLocals>>

InsertFails(t) ==
    /\ pc[t] = "retireCas"
    /\ head[slot[t]] # last[t]
    /\ TrySlot(t, head[slot[t]])
    /\ UNCHANGED <<shared, client, history, op, callerLocals, walkLocals, list, batch,
                   covers>>

\* Mutant of RetireAdjust: the threads inside the slot are not counted.
RetireAdjustsNoThreads(t) ==
    /\ pc[t] = "retireAdjust"
    /\ AdjustRefs(t, last[t].ptr, Addend)
    /\ Goto(t, "retireNext")
    /\ covers' = [covers EXCEPT ![t] = {}]
    /\ UNCHANGED <<head, next, client, history, op, callerLocals, last, walkLocals,
                   batch, slot, countLocals>>

\* The slot is finished with its old head, but for the threads it owes.
RetireAdjust(t) ==
    /\ pc[t] = "retireAdjust"
    /\ AdjustRefs(t, last[t].ptr, AddW(Addend, last[t].refs))
    /\ Goto(t, "retireNext")
    /\ covers' = [covers EXCEPT ![t] = {}]
    /\ UNCHANGED <<head, next, client, history, op, callerLocals, last, walkLocals,
                   batch, slot, countLocals>>

\* curr = node->batch_next, read from the node that was just published.
RetireNext(t) ==
    /\ pc[t] = "retireNext"
    /\ NextSlot(t, doAdjs[t])
    /\ last' = [last EXCEPT ![t] = Empty]
    /\ UNCHANGED <<shared, client, history, op, callerLocals, walkLocals, list, batch,
                   countLocals, covers>>

\* The locals of retire are gone.
RetireReset(t) ==
    /\ batch' = [batch EXCEPT ![t] = NULL]
    /\ slot' = [slot EXCEPT ![t] = 0]
    /\ adjs' = [adjs EXCEPT ![t] = 0]
    /\ doAdjs' = [doAdjs EXCEPT ![t] = FALSE]
    /\ skipped' = [skipped EXCEPT ![t] = {}]
    /\ UNCHANGED covers

RetireFinish(t) ==
    /\ pc[t] = "retireFinish"
    /\ AdjustRefs(t, batch[t], adjs[t])
    /\ Goto(t, "free")
    /\ RetireReset(t)
    /\ UNCHANGED <<head, next, client, history, op, callerLocals, last, walkLocals>>

-----------------------------------------------------------------------------
(* free: give the collected batches back to the allocator.  (What the nodes *)
(* of freed memory hold is forgotten: no call reads it, TouchesOnlyRetired. *)

Free(t, b) ==
    /\ pc[t] = "free" /\ b \in list[t]
    /\ list' = [list EXCEPT ![t] = list[t] \ {b}]
    /\ status' = [status EXCEPT ![b] = "freed"]
    /\ next' = [next EXCEPT ![b] = [s \in Slots |-> NULL]]
    /\ UNCHANGED <<head, refs, active, grace, history, pc, op, callerLocals, last,
                   walkLocals, retireLocals>>

\* The call returns; its locals are gone, and after leave so are the slot
\* and the handle.
EndCall(t) ==
    LET stays == t \in active \/ op[t] = "trimLeft" IN
    /\ pc[t] = "free" /\ list[t] = {}
    /\ Goto(t, IF op[t] = "trimLeft" THEN "reenter" ELSE "idle")
    /\ op' = [op EXCEPT ![t] = "none"]
    /\ last' = [last EXCEPT ![t] = Empty]
    /\ walk' = [walk EXCEPT ![t] = NoWalk]
    /\ thr' = [thr EXCEPT ![t] = 0]
    /\ RetireReset(t)
    /\ vec' = [vec EXCEPT ![t] = IF stays THEN vec[t] ELSE 0]
    /\ smr' = [smr EXCEPT ![t] = IF stays THEN smr[t] ELSE NULL]
    /\ UNCHANGED <<shared, client, history, outer, list>>

\* The allocator hands freed memory out again.
Alloc(b) ==
    /\ status[b] = "freed"
    /\ status' = [status EXCEPT ![b] = "live"]
    /\ UNCHANGED <<shared, active, grace, history, pc, op, callerLocals, last,
                   walkLocals, list, retireLocals>>

-----------------------------------------------------------------------------
\* What the client starts, and what goes on by itself.
Trim(t) == TrimNothing(t) \/ \E th \in TrimThresholds : TrimBegin(t, th)

Call(t) ==
    \/ \E s \in Slots : Enter(t, s)
    \/ Leave(t) \/ Trim(t)
    \/ \E b \in Batches : Retire(t, b)

Step(t) ==
    \/ NestedLeave(t) \/ LeaveRead(t) \/ LeaveCas(t) \/ LeaveCasFails(t)
    \/ LeaveClear(t) \/ LeaveClearFails(t) \/ LeaveAdjust(t)
    \/ TravRead(t) \/ TravDrop(t) \/ TrimRead(t) \/ Reenter(t)
    \/ RetireLoad(t) \/ Insert(t) \/ InsertFails(t) \/ RetireAdjust(t)
    \/ RetireNext(t) \/ RetireFinish(t) \/ EndCall(t)
    \/ \E b \in Batches : Free(t, b)

Next ==
    \/ \E t \in Threads : Call(t) \/ Step(t)
    \/ \E b \in Batches : Alloc(b)

Spec == Init /\ [][Next]_vars
-----------------------------------------------------------------------------
(* Safety.                                                                 *)

\* t will still decrement the counter of b.
Owes(t, b) == InSeq(b, held[t]) \/ InSeq(b, todo[t]) \/ InSeq(b, later[t])
Owers(b) == {t \in Threads : Owes(t, b)}

Listed(b) == \E t \in Threads : b \in list[t]

\* The batches whose memory the next access of t reads or writes.
Target(t) ==
    CASE pc[t] \in {"leaveRead", "leaveAdjust", "retireAdjust"} -> {last[t].ptr}
      [] pc[t] = "trimRead" -> {smr[t]}
      [] pc[t] = "travRead" -> {walk[t].nxt} \ {NULL}
      [] pc[t] = "travDrop" -> {walk[t].curr}
      [] pc[t] \in {"retireNext", "retireFinish"} -> {batch[t]}
      [] OTHER -> {}

\* No call dereferences the null pointer or a batch whose memory was, or is
\* about to be, given back: not the head's node that leave reads after it
\* loaded the head, not the nodes traverse walks over, not the counter that
\* is adjusted after a CAS has taken the old head out, and not the retired
\* batch itself once its nodes are published.  It follows that a counter
\* reaches 0 once per retirement: no batch is freed twice.
TouchesOnlyRetired ==
    \A t \in Threads : \A b \in Target(t) :
        b \in Batches /\ status[b] = "retired" /\ ~Listed(b)

\* A batch on a free list has outlived every thread that was inside when
\* it was retired, is owed by nobody and is the head of no slot.
FreesAreSafe ==
    \A t \in Threads : \A b \in list[t] :
        /\ status[b] = "retired" /\ refs[b] = 0
        /\ grace[b] = {}
        /\ Owers(b) = {}
        /\ \A s \in Slots : head[s].ptr # b

\* The slots that the retirement run by t has not come to.
Ahead(t) ==
    CASE pc[t] \in {"retireLoad", "retireCas"} -> slot[t] .. NumSlots - 1
      [] pc[t] \in {"retireAdjust", "retireNext"} -> slot[t] + 1 .. NumSlots - 1
      [] OTHER -> {}

\* The contribution of slot s to the counter of b is with t: b was the head
\* of s and t is about to add it, or t retires b and has not been at s, or
\* has passed it by and adds that at the end.
Adjusts(t, b, s) ==
    /\ last[t].ptr = b
    /\ \/ pc[t] = "leaveAdjust" /\ vec[t] = s
       \/ pc[t] = "retireAdjust" /\ slot[t] = s
Keeps(t, b, s) ==
    \/ Adjusts(t, b, s)
    \/ batch[t] = b /\ s \in Ahead(t) \union skipped[t]

\* The slots that have not contributed to the counter of b, and the others.
Open(b) == {s \in Slots : head[s].ptr = b \/ \E t \in Threads : Keeps(t, b, s)}
Settled(b) == Slots \ Open(b)

\* The threads, each with the slot, whose reference to b was taken when
\* another batch became the head of the slot, and is not in the counter yet.
Uncounted(b) == {e \in Slots \X Threads : \E t \in Threads :
    /\ pc[t] = "retireAdjust" /\ last[t].ptr = b
    /\ slot[t] = e[1] /\ e[2] \in covers[t]}

\* What a counter stands for: a share for every slot that is finished with b
\* and one for every thread that still owes b a decrement, as far as it has
\* been counted.
Balance(b) ==
    Share * Cardinality(Settled(b)) + Cardinality(Owers(b)) - Cardinality(Uncounted(b))

\* The counting argument of Hyaline: modulo 2^w, the counter of a batch that
\* waits to be freed is its balance.
RefsAccountedFor ==
    \A b \in Batches : status[b] = "retired" /\ ~Listed(b) =>
        refs[b] - Balance(b) \in {0 - Mod, 0, Mod}

\* The count in a slot's head is the number of threads in it, and a slot
\* nobody is in keeps a batch only while a thread is about to clear it.
SlotsAgree ==
    \A s \in Slots :
        /\ head[s].refs = Cardinality(Inside(s))
        /\ head[s].refs = 0 /\ head[s].ptr # NULL =>
             \E t \in Threads : /\ pc[t] = "leaveClear" /\ vec[t] = s
                                /\ last[t].ptr = head[s].ptr

\* A thread that is out, or is about to re-enter after a flush, has given back
\* every reference it was counted for.
AllPaid ==
    \A t \in Threads : t \notin active /\ pc[t] \in {"idle", "free", "reenter"} =>
        \A b \in Batches : ~Owes(t, b)

\* Nothing leaks: with every thread out, the slots are empty and everything
\* that was retired has been freed.
QuietIsClean ==
    (active = {} /\ \A t \in Threads : pc[t] = "idle") =>
        /\ head = [s \in Slots |-> Empty]
        /\ \A b \in Batches : status[b] # "retired"

(* The client sees nothing but SafeReclaim. *)
Abstract == INSTANCE SafeReclaim
ImplementsSafeReclaim == Abstract!Spec

-----------------------------------------------------------------------------
(* The inductive invariant behind these properties.                        *)

LeaveLabels == {"leaveRead", "leaveCas", "leaveClear", "leaveAdjust"}
RetireLabels ==
    {"retireLoad", "retireCas", "retireAdjust", "retireNext", "retireFinish"}

\* Where a call can be, and what it holds there.
ControlOK(t) ==
    /\ pc[t] \in {"idle", "reenter"} <=> op[t] = "none"
    /\ pc[t] \in LeaveLabels => op[t] \in {"leave", "nested"}
    /\ pc[t] = "leaveLoad" => op[t] = "nested"
    /\ pc[t] = "trimRead" => op[t] = "trim"
    /\ op[t] = "leave" => pc[t] \in LeaveLabels \union {"travRead", "travDrop", "free"}
    /\ op[t] = "nested" =>
         pc[t] \in LeaveLabels \union {"leaveLoad", "travRead", "travDrop"}
    /\ op[t] = "trim" => pc[t] \in {"trimRead", "travRead", "travDrop", "free"}
    /\ op[t] = "trimLeft" => pc[t] \in {"travRead", "travDrop", "free"}
    /\ op[t] = "retire" => pc[t] \in RetireLabels \union {"free"}
    /\ op[t] = "trim" \/ pc[t] = "leaveLoad" => t \in active
    /\ op[t] \in {"leave", "trimLeft"} \/ pc[t] = "reenter" => t \notin active
    /\ op[t] = "nested" /\ pc[t] # "leaveLoad" => t \notin active
    /\ pc[t] \in {"leaveClear", "leaveAdjust", "retireAdjust"} => last[t].ptr # NULL
    /\ pc[t] \in {"idle", "reenter"} => list[t] = {}
    /\ ~In(t) => held[t] = <<>>
    /\ pc[t] \notin {"trimRead", "travRead", "travDrop", "leaveClear", "leaveAdjust"} =>
         todo[t] = <<>>
    /\ op[t] # "nested" => later[t] = <<>>

\* A retirement has a batch, and its adjs are the shares of the slots that it
\* has passed by.
RetireOK(t) ==
    /\ pc[t] \in RetireLabels => op[t] = "retire" /\ batch[t] # NULL
    /\ op[t] # "retire" => batch[t] = NULL /\ slot[t] = 0
    /\ pc[t] \notin RetireLabels => skipped[t] = {}
    /\ pc[t] = "retireFinish" => skipped[t] # {}
    /\ pc[t] \in RetireLabels \ {"retireFinish"} => skipped[t] \subseteq 0 .. slot[t] - 1
    /\ doAdjs[t] <=> skipped[t] # {}
    /\ adjs[t] = LET n == Cardinality(skipped[t]) IN
                 IF n = NumSlots THEN 0 ELSE Share * n
    /\ pc[t] = "retireCas" => last[t].refs # 0
    /\ pc[t] = "retireAdjust" => last[t].refs = Cardinality(covers[t])

\* The pointers a thread goes by lead through what it owes, in that order.
\* While it is in its slot that is what lies between the head and its handle.
HeldOK(t) ==
    LET s == vec[t]
        h == head[s].ptr
    IN  In(t) =>
          IF h = smr[t] THEN held[t] = <<>>
          ELSE /\ h # NULL /\ ~InSeq(h, held[t])
               /\ Chain(next, s, held[t], next[h][s], smr[t])

\* The head that leave has loaded is the head still, or owed by now.
LeavesOK(t) ==
    LET s == vec[t]
        p == last[t].ptr
    IN  /\ pc[t] \in {"leaveRead", "leaveCas"} =>
             p = head[s].ptr \/ InSeq(p, held[t]) \/ (p = NULL /\ smr[t] = NULL)
        /\ pc[t] = "leaveRead" => p # smr[t]
        /\ pc[t] = "leaveCas" /\ p # smr[t] => walk[t].nxt = next[p][s]
        /\ pc[t] \in {"leaveClear", "leaveAdjust"} =>
             IF p = smr[t] THEN todo[t] = <<>>
             ELSE Chain(next, s, todo[t], walk[t].nxt, smr[t])

WalksOK(t) ==
    LET s == vec[t] IN
    /\ pc[t] = "trimRead" =>
         /\ smr[t] # NULL
         /\ Chain(next, s, todo[t], next[smr[t]][s], walk[t].end)
    /\ pc[t] = "travRead" => Chain(next, s, todo[t], walk[t].nxt, walk[t].end)
    /\ pc[t] = "travDrop" =>
         /\ todo[t] # <<>>
         /\ Chain(next, s, todo[t], walk[t].curr, walk[t].end)
         /\ walk[t].nxt = next[walk[t].curr][s]
    /\ op[t] = "nested" =>
         IF outer[t].curr = outer[t].end THEN later[t] = <<>>
         ELSE Chain(next, s, later[t], outer[t].nxt, outer[t].end)

\* A thread owes a batch at most one decrement, and not the head of its slot.
OnceOK(t) ==
    /\ Distinct(held[t]) /\ Distinct(todo[t]) /\ Distinct(later[t])
    /\ Disjoint(held[t], todo[t])
    /\ Disjoint(held[t], later[t])
    /\ Disjoint(todo[t], later[t])
    /\ \A b \in Batches : Owes(t, b) => head[vec[t]].ptr # b

ThreadOK(t) ==
    /\ ControlOK(t) /\ RetireOK(t)
    /\ HeldOK(t) /\ LeavesOK(t) /\ WalksOK(t) /\ OnceOK(t)
ThreadInv == \A t \in Threads : ThreadOK(t)

\* The contribution of a slot to a counter is in one place.
KeepInv ==
    \A b \in Batches : \A s \in Slots :
        /\ \A t, u \in Threads : Keeps(t, b, s) /\ Keeps(u, b, s) => t = u
        /\ head[s].ptr = b => \A t \in Threads : ~Keeps(t, b, s)

\* What a thread owes was counted by its slot, or is about to be.
OweInv ==
    \A t \in Threads : \A b \in Batches : Owes(t, b) =>
        vec[t] \in Settled(b) \/ <<vec[t], t>> \in Uncounted(b)

\* A batch that waits to be freed has a slot or a thread that still has to
\* give something back, a batch that does not wait is forgotten by all.
RefsInv ==
    \A b \in Batches :
        /\ status[b] # "retired" \/ Listed(b) => Open(b) = {} /\ Owers(b) = {}
        /\ Listed(b) => status[b] = "retired" /\ refs[b] = 0
        /\ \A t, u \in Threads : b \in list[t] \cap list[u] => t = u
        /\ status[b] = "retired" /\ ~Listed(b) => Open(b) # {} \/ Owers(b) # {}

\* A thread a batch has to outlive is inside, and its slot has the batch in
\* its list or the retirement is still to come to it.
GraceInv ==
    \A b \in Batches : \A u \in grace[b] :
        /\ u \in active
        /\ \/ InSeq(b, held[u])
           \/ head[vec[u]].ptr = b
           \/ \E t \in Threads : batch[t] = b /\ vec[u] \in Ahead(t)

\* A thread that is inside while it retires is one of them.
RetirerInv ==
    ~RetireOutside => \A t \in Threads : pc[t] \in RetireLabels \ {"retireFinish"} =>
        t \in grace[batch[t]]

IInv == /\ TypeOK /\ SlotsAgree /\ ThreadInv /\ KeepInv /\ OweInv /\ RefsInv
        /\ RefsAccountedFor /\ GraceInv /\ RetirerInv

-----------------------------------------------------------------------------
(* Liveness: the scheduler runs every thread that is in the middle of a    *)
(* call, and threads that are inside leave.                                *)
Fairness == \A t \in Threads : WF_vars(Step(t)) /\ WF_vars(Leave(t))
FairSpec == Spec /\ Fairness

Begins == \E t \in Threads :
    \/ \E s \in Slots : Enter(t, s)
    \/ Trim(t)
    \/ \E b \in Batches : Retire(t, b)

\* If from some point on nobody enters, trims or retires, every call returns
\* and everything that was retired is freed: no retry loop runs for ever and
\* no batch is left to a thread that does not come.
EverythingReclaimed ==
    <>[][~Begins]_vars =>
        <>[](/\ \A t \in Threads : pc[t] = "idle"
             /\ \A b \in Batches : status[b] # "retired")
=============================================================================
