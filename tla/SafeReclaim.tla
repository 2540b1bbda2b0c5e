----------------------------- MODULE SafeReclaim -----------------------------
(***************************************************************************)
(* What every scheme of this repository that defers reclamation without    *)
(* tracking single pointers promises to its client (the enter / leave /    *)
(* retire interface of hyaline/lfsmr.h, lfsmro.h, and start_op / end_op /  *)
(* retire of benchmark/src/trackers/BaseTracker.hpp):                      *)
(*                                                                         *)
(*   a batch of nodes that was retired while a thread was inside is not    *)
(*   freed before that thread has left (or has declared, by trim, that it  *)
(*   holds no reference any more).                                         *)
(*                                                                         *)
(* A batch is "live" until it is retired; its nodes are unlinked by then,  *)
(* so a thread that enters later cannot reach them.  Freed memory may be   *)
(* allocated again and become a live batch.                                *)
(***************************************************************************)
CONSTANTS
    Threads,     \* the threads that use the structure
    Batches      \* names of the batches; a freed name may be used again

VARIABLES
    active,      \* the threads that are inside, between enter and leave
    status,      \* status[b]: "live", "retired" or "freed"
    grace        \* grace[b]: the threads that b still has to outlive

vars == <<active, status, grace>>

TypeOK ==
    /\ active \subseteq Threads
    /\ status \in [Batches -> {"live", "retired", "freed"}]
    /\ grace \in [Batches -> SUBSET Threads]

Init ==
    /\ active = {}
    /\ status = [b \in Batches |-> "live"]
    /\ grace = [b \in Batches |-> {}]

\* What remains of the grace periods once t holds no reference.
Released(t) == [b \in Batches |-> grace[b] \ {t}]

Enter(t) ==
    /\ t \notin active
    /\ active' = active \union {t}
    /\ UNCHANGED <<status, grace>>

Leave(t) ==
    /\ t \in active
    /\ active' = active \ {t}
    /\ grace' = Released(t)
    /\ UNCHANGED status

\* The client gives up its references and goes on with an operation.
Trim(t) ==
    /\ t \in active
    /\ grace' = Released(t)
    /\ UNCHANGED <<active, status>>

Retire(b) ==
    /\ status[b] = "live"
    /\ status' = [status EXCEPT ![b] = "retired"]
    /\ grace' = [grace EXCEPT ![b] = active]
    /\ UNCHANGED active

Free(b) ==
    /\ status[b] = "retired"
    /\ grace[b] = {}
    /\ status' = [status EXCEPT ![b] = "freed"]
    /\ UNCHANGED <<active, grace>>

Alloc(b) ==
    /\ status[b] = "freed"
    /\ status' = [status EXCEPT ![b] = "live"]
    /\ UNCHANGED <<active, grace>>

Next ==
    \/ \E t \in Threads : Enter(t) \/ Leave(t) \/ Trim(t)
    \/ \E b \in Batches : Retire(b) \/ Free(b) \/ Alloc(b)

Spec == Init /\ [][Next]_vars
=============================================================================
