----------------------------- MODULE HyalineSlots -----------------------------
(***************************************************************************)
(* The slots, lists and counters of Hyaline as the robust scheme uses them *)
(* (bits/lfbsmr_cas2.h): the steps of module Hyaline, and three that only  *)
(* the robust scheme takes.  It is what Hyaline and Hyaline-S share.       *)
(***************************************************************************)
EXTENDS Hyaline

\* A batch that need not outlive the threads that are inside: they have no
\* pointer to it.
RetireUnseen(t, b) ==
    /\ pc[t] = "idle" /\ status[b] = "live"
    /\ status' = [status EXCEPT ![b] = "retired"]
    /\ refs' = [refs EXCEPT ![b] = 0]
    /\ batch' = [batch EXCEPT ![t] = b]
    /\ op' = [op EXCEPT ![t] = "retire"]
    /\ Goto(t, "retireLoad")
    /\ UNCHANGED <<head, next, active, grace, history, callerLocals, last, walkLocals,
                   list, slot, countLocals, covers>>

\* A slot is passed by whoever is in it: its epoch is before the batch's.
PassByEpoch(t) ==
    /\ pc[t] = "retireLoad"
    /\ PassBy(t)
    /\ UNCHANGED <<shared, client, history, op, callerLocals, walkLocals, list, batch,
                   covers>>

\* After a flush the thread is out: it may enter another slot.
EndFlushed(t) ==
    /\ pc[t] = "free" /\ list[t] = {} /\ op[t] = "trimLeft"
    /\ Goto(t, "idle")
    /\ op' = [op EXCEPT ![t] = "none"]
    /\ last' = [last EXCEPT ![t] = Empty]
    /\ walk' = [walk EXCEPT ![t] = NoWalk]
    /\ thr' = [thr EXCEPT ![t] = 0]
    /\ RetireReset(t)
    /\ vec' = [vec EXCEPT ![t] = 0]
    /\ smr' = [smr EXCEPT ![t] = NULL]
    /\ UNCHANGED <<shared, client, history, outer, list>>

-----------------------------------------------------------------------------
AnyRetire(t, b) == Retire(t, b) \/ RetireUnseen(t, b)
AnyLoad(t) == RetireLoad(t) \/ PassByEpoch(t)
AnyEnd(t) == EndCall(t) \/ EndFlushed(t)

AnyCall(t) == Call(t) \/ \E b \in Batches : RetireUnseen(t, b)
AnyStep(t) == Step(t) \/ PassByEpoch(t) \/ EndFlushed(t)

AnyNext ==
    \/ \E t \in Threads : AnyCall(t) \/ AnyStep(t)
    \/ \E b \in Batches : Alloc(b)

\* A batch starts in use or, as memory that was never allocated, free.
AnyInit == Blank /\ status \in [Batches -> {"live", "freed"}]
AnySpec == AnyInit /\ [][AnyNext]_vars

\* The part of IInv that does not depend on what the client was promised.
CoreInv ==
    /\ TypeOK /\ SlotsAgree /\ ThreadInv /\ KeepInv /\ OweInv /\ RefsInv
    /\ RefsAccountedFor
=============================================================================
