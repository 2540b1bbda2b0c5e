---------------------------- MODULE SafePointers ----------------------------
(***************************************************************************)
(* What the robust schemes promise to a client that reads the pointers of  *)
(* its structure through them (enter / deref / leave / retire of           *)
(* hyaline/lfbsmr.h and lfbsmro.h, start_op / read / end_op / retire of    *)
(* benchmark/src/trackers/BaseTracker.hpp):                                *)
(*                                                                         *)
(*   the memory a pointer that was read refers to is not freed before the  *)
(*   thread that read it has given it up: by leave, by trim, or by reading *)
(*   another one into the same hazard slot.                                *)
(*                                                                         *)
(* Unlike under SafeReclaim, a batch need not outlive a thread that is     *)
(* inside but has no pointer to it.                                        *)
(***************************************************************************)
CONSTANTS
    Threads,     \* the threads that use the structure
    Batches      \* names of the batches; a freed name may be used again

VARIABLES
    status,      \* status[b]: "freed", "new", "linked" or "retired"
    holds        \* holds[t]: the batches t has pointers to

vars == <<status, holds>>

Init ==
    /\ status = [b \in Batches |-> "freed"]
    /\ holds = [t \in Threads |-> {}]

Becomes(b, from, to) ==
    /\ status[b] = from
    /\ status' = [status EXCEPT ![b] = to]

Alloc(b) == Becomes(b, "freed", "new") /\ UNCHANGED holds

\* A new batch is made reachable, and later unreachable and retired.
Link(b) == Becomes(b, "new", "linked") /\ UNCHANGED holds
Retire(b) == Becomes(b, "linked", "retired") /\ UNCHANGED holds

\* A read returns a pointer; the batch may have been retired meanwhile.
Read(t, b) ==
    /\ status[b] \in {"linked", "retired"}
    /\ holds' = [holds EXCEPT ![t] = @ \union {b}]
    /\ UNCHANGED status

\* Some of the pointers are given up, or all of them.
Release(t) ==
    /\ \E kept \in SUBSET holds[t] : holds' = [holds EXCEPT ![t] = kept]
    /\ UNCHANGED status

Free(b) ==
    /\ \A t \in Threads : b \notin holds[t]
    /\ Becomes(b, "retired", "freed")
    /\ UNCHANGED holds

Next ==
    \/ \E b \in Batches : Alloc(b) \/ Link(b) \/ Retire(b) \/ Free(b)
    \/ \E t \in Threads : Release(t) \/ \E b \in Batches : Read(t, b)

Spec == Init /\ [][Next]_vars
=============================================================================
