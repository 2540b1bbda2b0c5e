-------------------------------- MODULE Robust --------------------------------
(***************************************************************************)
(* What Hyaline-S and Hyaline-1S have in common: bits/lfbsmr_common.h, the *)
(* protected read that both define alike, and the structure of a client,   *)
(* one atomic access of the code per step.                                 *)
(*                                                                         *)
(* A global epoch counts allocations.  Every batch carries the smallest    *)
(* birth epoch of its nodes, every slot the epoch its threads last read a  *)
(* pointer in; a batch does not go into a slot whose threads read nothing  *)
(* since it was born, so a thread that stalls holds back only the batches  *)
(* of its time.                                                            *)
(*                                                                         *)
(* Abstractions: those of module Hyaline.  In addition, the client's       *)
(* structure is one cell `root', and batch b stands for the one node of    *)
(* its nodes that the client links there; another node of the batch gives  *)
(* it its second birth epoch.  Epochs are numbers up to MaxEpoch: within   *)
(* the bound the signed difference of EPOCH_CMP is that of the numbers.    *)
(* The memory order is sequential.                                         *)
(***************************************************************************)
EXTENDS Words, Chains, FiniteSets

CONSTANTS
    Threads,
    NumSlots,
    MaxEpoch,         \* bound: the global epoch goes no further
    TrimThresholds    \* the thresholds the client passes to trim

Slots == 0 .. NumSlots - 1

VARIABLES
    \* the shared words
    global,     \* hdr->global
    access,     \* access[s]: hdr->vector[s].access
    head,       \* head[s]: hdr->vector[s].head
    next,       \* next[b][s]: next of b's node in slot s
    refs,       \* refs[b]: the counter in b's last node
    birth,      \* birth[b]: birth_epoch of the node that the client links
    \* the client's structure
    root, status,
    \* the locals of the threads
    loc

memory == <<next, refs, birth>>
epochs == <<global, access>>
structure == <<root, status>>

Epoch == 0 .. MaxEpoch

\* The locals of a call of traverse.
Walk == [curr : Ptr, nxt : Ptr, end : Ptr, counter : Nat]
NoWalk == [curr |-> NULL, nxt |-> NULL, end |-> NULL, counter |-> 0]

\* What the client keeps between calls, and the locals of the calls.
Locals(Word2, Labels) == [
    inside : BOOLEAN, holds : SUBSET Batches, vec : Slots, smr : Ptr,
    pc : Labels,      \* the next atomic access
    op : {"none", "enter", "leave", "trim", "nested", "trimLeft", "deref", "retire"},
    walk : Walk,      \* the current call of traverse
    outer : Walk,     \* trim's call of traverse while it runs the nested leave
    thr : Nat,        \* trim's *threshold
    list : SUBSET Batches,                        \* batches to free
    value : Ptr, acc : Epoch, glob : Epoch,       \* deref
    batch : Ptr, min : Epoch, slot : Slots,       \* retire: first, epoch, i
    last : Word2, adjs : Word, doAdjs : BOOLEAN,
    into : SUBSET Slots]        \* history: the slots this retire inserted into

\* A thread between two calls.
Between(word) == [
    inside |-> FALSE, holds |-> {}, vec |-> 0, smr |-> NULL, pc |-> "idle",
    op |-> "none", walk |-> NoWalk, outer |-> NoWalk, thr |-> 0, list |-> {},
    value |-> NULL, acc |-> 0, glob |-> 0, batch |-> NULL, min |-> 0, slot |-> 0,
    last |-> word, adjs |-> 0, doAdjs |-> FALSE, into |-> {}]

Goes(t, l) == loc' = [loc EXCEPT ![t] = l]
At(t, label) == loc[t].pc = label

\* The counter of b changes by v; 0 sends the batch to the local free list.
Adjust(b, v) == refs' = [refs EXCEPT ![b] = AddW(@, v)]
Collected(list, b, v) == IF refs[b] = NegW(v) THEN list \union {b} ELSE list

-----------------------------------------------------------------------------
(* deref: read a pointer, and tell the slot the epoch it was read in.      *)

\* access = load of the slot's access epoch.
Deref(t) ==
    /\ At(t, "idle") /\ loc[t].inside
    /\ Goes(t, [loc[t] EXCEPT !.op = "deref", !.pc = "derefLoad",
                              !.acc = access[loc[t].vec]])
    /\ UNCHANGED <<epochs, memory, structure>>

DerefLoad(t) ==
    /\ At(t, "derefLoad")
    /\ Goes(t, [loc[t] EXCEPT !.value = root, !.pc = "derefEpoch"])
    /\ UNCHANGED <<epochs, memory, structure>>

DerefEpoch(t) ==
    LET l == loc[t] IN
    /\ At(t, "derefEpoch")
    /\ Goes(t, IF l.acc = global
               THEN [l EXCEPT !.op = "none", !.pc = "idle", !.value = NULL,
                              !.acc = 0, !.glob = 0,
                              !.holds = @ \union ({l.value} \ {NULL})]
               ELSE [l EXCEPT !.glob = global, !.pc = "derefAccess"])
    /\ UNCHANGED <<epochs, memory, structure>>

-----------------------------------------------------------------------------
(* traverse: give back one reference to every batch down to the handle,    *)
(* and count them for the acknowledgement.                                 *)

\* The walk is over: of its locals only the count is used again.  (Here and
\* below a local is reset when it is not used again: fewer states, the same
\* behaviour.)
ToAck(l) == [l EXCEPT !.pc = "ack", !.walk = [NoWalk EXCEPT !.counter = l.walk.counter]]

\* traverse or __leave returns: to the caller's free, or to the traverse of
\* trim with *threshold = 0, whose walk may have been over.
Return(l) ==
    IF l.op = "nested"
    THEN [l EXCEPT !.op = "trimLeft", !.thr = 0, !.walk = l.outer, !.outer = NoWalk,
                   !.pc = IF l.outer.curr = l.outer.end THEN "ack" ELSE "travRead"]
    ELSE [l EXCEPT !.walk = NoWalk, !.pc = "free"]

\* Mutant of TravRead: the round that finds the end of the list is not counted.
TravReadCountsNodes(t) ==
    LET l == loc[t] IN
    /\ At(t, "travRead")
    /\ Goes(t, IF l.walk.nxt = NULL
               THEN ToAck(l)
               ELSE [l EXCEPT !.walk.counter = @ + 1, !.walk.curr = l.walk.nxt,
                              !.walk.nxt = next[l.walk.nxt][l.vec], !.pc = "travDrop"])
    /\ UNCHANGED <<epochs, memory, structure>>

TravRead(t) ==
    LET l == [loc[t] EXCEPT !.walk.counter = @ + 1,
                            !.walk.curr = loc[t].walk.nxt]
    IN  /\ At(t, "travRead")
        /\ Goes(t, IF l.walk.curr = NULL
                   THEN ToAck(l)
                   ELSE [l EXCEPT !.walk.nxt = next[l.walk.curr][l.vec],
                                  !.pc = "travDrop"])
        /\ UNCHANGED <<epochs, memory, structure>>

\* fetch_sub of the counter; when trim has collected threshold batches it
\* leaves before it goes on.
TravDrop(t) ==
    LET b == loc[t].walk.curr
        l == [loc[t] EXCEPT !.list = Collected(@, b, MinusOne)]
    IN  /\ At(t, "travDrop")
        /\ Adjust(b, MinusOne)
        /\ Goes(t, CASE l.op = "trim" /\ l.thr > 0 /\ b \in l.list
                          /\ Cardinality(l.list) >= l.thr ->
                          [l EXCEPT !.op = "nested", !.outer = l.walk,
                                    !.walk = NoWalk, !.pc = "leaveLoad"]
                     [] OTHER ->
                          IF b = l.walk.end THEN ToAck(l)
                          ELSE [l EXCEPT !.pc = "travRead"])
        /\ UNCHANGED <<epochs, next, birth, structure>>

-----------------------------------------------------------------------------
(* trim: acknowledge what was retired so far without leaving the slot.     *)

\* The client gives up its pointers.  link = the head's pointer.
Trim(t, th) ==
    LET l == [loc[t] EXCEPT !.holds = {}]
        link == head[l.vec].ptr
    IN  /\ At(t, "idle") /\ l.inside
        /\ Goes(t, IF link = l.smr THEN l
                   ELSE [l EXCEPT !.op = "trim", !.thr = th, !.pc = "trimRead",
                                  !.smr = link, !.walk.end = l.smr])
        /\ UNCHANGED <<epochs, memory, structure>>

\* link = node->next, where the traversal starts.
TrimRead(t) ==
    /\ At(t, "trimRead")
    /\ Goes(t, [loc[t] EXCEPT !.walk.nxt = next[loc[t].smr][loc[t].vec],
                              !.pc = "travRead"])
    /\ UNCHANGED <<epochs, memory, structure>>

-----------------------------------------------------------------------------
(* The client's structure, and retire up to the slots.                     *)

\* min_epoch of a batch whose nodes were born in the epochs x and then y.
MinEpoch(x, y) == IF x > y THEN y ELSE x

\* init_node: every freq-th allocation of a thread moves the epoch on.
Alloc(b) ==
    /\ status[b] = "freed"
    /\ \/ global' = global
       \/ global < MaxEpoch /\ global' = global + 1
    /\ birth' = [birth EXCEPT ![b] = global']
    /\ status' = [status EXCEPT ![b] = "new"]
    /\ UNCHANGED <<access, next, refs, root, loc>>

Link(b) ==
    /\ status[b] = "new" /\ root = NULL
    /\ root' = b
    /\ status' = [status EXCEPT ![b] = "linked"]
    /\ UNCHANGED <<epochs, memory, loc>>

\* t unlinks what the root points to and retires it; e is the epoch of the
\* node that was first in the batch.  first and pc are set, refs = 0.
Retire(t, e) ==
    /\ At(t, "idle") /\ loc[t].inside
    /\ root # NULL
    /\ root' = NULL
    /\ status' = [status EXCEPT ![root] = "retired"]
    /\ refs' = [refs EXCEPT ![root] = 0]
    /\ Goes(t, [loc[t] EXCEPT !.op = "retire", !.batch = root,
                              !.min = MinEpoch(e, birth[root]),
                              !.pc = "retireAccess"])
    /\ UNCHANGED <<epochs, next, birth>>

-----------------------------------------------------------------------------
(* free: give the collected batches back to the allocator.                 *)

Free(t, b) ==
    /\ At(t, "free") /\ b \in loc[t].list
    /\ Goes(t, [loc[t] EXCEPT !.list = @ \ {b}])
    /\ status' = [status EXCEPT ![b] = "freed"]
    /\ next' = [next EXCEPT ![b] = [s \in Slots |-> NULL]]
    /\ birth' = [birth EXCEPT ![b] = 0]
    /\ UNCHANGED <<epochs, refs, root>>

\* The call returns; its locals are gone.
EndCall(t, word) ==
    LET l == loc[t]
        idle == [Between(word) EXCEPT !.inside = l.inside, !.holds = l.holds,
                                      !.vec = l.vec, !.smr = l.smr]
    IN  /\ At(t, "free") /\ l.list = {}
        /\ Goes(t, IF l.op = "trimLeft" THEN [idle EXCEPT !.pc = "reenter"]
                   ELSE IF l.inside THEN idle ELSE [idle EXCEPT !.smr = NULL])
        /\ UNCHANGED <<epochs, memory, structure>>

-----------------------------------------------------------------------------
\* The steps that touch neither a head nor an acknowledgement counter.
CommonStep(t, word) ==
    \/ DerefLoad(t) \/ DerefEpoch(t) \/ TravRead(t) \/ TravDrop(t) \/ TrimRead(t)
    \/ EndCall(t, word) \/ \E b \in Batches : Free(t, b)

Structure == \E b \in Batches : Alloc(b) \/ Link(b)
=============================================================================
