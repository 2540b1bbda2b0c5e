------------------------------ MODULE Trackers ------------------------------
(***************************************************************************)
(* The schemes the benchmark compares Hyaline with, trackers/*.hpp: RCU    *)
(* and QSBR (RCUTracker.hpp), 2GEIBR (RangeTrackerNew.hpp), hazard eras    *)
(* (HETracker.hpp) and hazard pointers (HazardTracker.hpp).                *)
(*                                                                         *)
(* All of them publish reservations, append what they retire to a list of  *)
(* the thread's own, and now and then copy every reservation, one by one,  *)
(* and free what none of the copies conflicts with.  A step is one access  *)
(* to an epoch, a reservation or the client's structure, which is one      *)
(* cell, root.                                                             *)
(***************************************************************************)
EXTENDS Naturals

CONSTANTS
    NumThreads,   \* task_num
    Objects,      \* names of the objects; a freed one may be used again
    NULL,
    Schemes,      \* a subset of SchemeNames
    Ticks         \* bound: how often the epoch moves on

SchemeNames == {"RCU", "QSBR", "2GEIBR", "HE", "Hazard"}

ASSUME TrackersAssumption ==
    /\ NumThreads \in Nat \ {0} /\ Ticks \in Nat
    /\ NULL \notin Objects /\ Schemes \subseteq SchemeNames

VARIABLES
    scheme,
    epoch,
    entry,        \* entry[t][i]: reservations; 2GEIBR: lower is 1, upper is 2
    root,         \* the client's structure: the object it points to
    status,       \* status[b]: "freed", "new", "linked" or "retired"
    birth,        \* birth_epoch
    retireEpoch,  \* retire_epoch
    retired,      \* retired[t]: the list of t
    loc           \* loc[t]: where t is, and its local variables

vars == <<scheme, epoch, entry, root, status, birth, retireEpoch, retired, loc>>

object == <<status, birth, retireEpoch, retired>>

Threads == 0 .. NumThreads - 1
Index == {1, 2}
Ptr == Objects \union {NULL}

\* The constructors.
FirstEpoch == IF scheme = "HE" THEN 1 ELSE 0

MaxEpoch == FirstEpoch + Ticks
Infinity == MaxEpoch + 1     \* UINT64_MAX
Epoch == 0 .. Infinity

\* What a reservation holds that protects nothing.
None == CASE scheme = "HE" -> 0 [] scheme = "Hazard" -> NULL [] OTHER -> Infinity

\* A slot protects one pointer, or every pointer read between start and end.
PerSlot == scheme \in {"HE", "Hazard"}

\* read of the scheme publishes what it reads.
Publishes == scheme \in {"2GEIBR", "HE", "Hazard"}

NoHolds == [i \in Index |-> {}]
Locals(inside, holds, ended) ==
    [pc |-> "idle", inside |-> inside, ended |-> ended, holds |-> holds, i |-> 1,
     e |-> 0, ptr |-> NULL, next |-> 0, kept |-> {}]

\* Between two calls, with the locals of the call that returns forgotten.
Between(l) == Locals(l.inside, l.holds, l.ended)

At(t, label) == loc[t].pc = label
Goes(t, l) == loc' = [loc EXCEPT ![t] = l]
Publish(t, i, x) == entry' = [entry EXCEPT ![t][i] = x]

Init ==
    /\ scheme \in Schemes
    /\ epoch = FirstEpoch
    /\ entry = [t \in Threads |-> [i \in Index |-> None]]
    /\ root = NULL
    /\ status = [b \in Objects |-> "freed"]
    /\ birth = [b \in Objects |-> 0]
    /\ retireEpoch = [b \in Objects |-> 0]
    /\ retired = [t \in Threads |-> {}]
    /\ loc = [t \in Threads |-> Locals(FALSE, NoHolds, FALSE)]

-----------------------------------------------------------------------------
(* start_op *)

\* RCU and 2GEIBR load the epoch now and publish it later.
Start(t) ==
    /\ At(t, "idle") /\ ~loc[t].inside
    /\ Goes(t, IF scheme \in {"RCU", "2GEIBR"}
               THEN [loc[t] EXCEPT !.e = epoch, !.pc = "startStore"]
               ELSE [loc[t] EXCEPT !.inside = TRUE])
    /\ UNCHANGED <<scheme, epoch, entry, root, object>>

\* Mutant of StartStore: the upper end is published first.
StartUpperFirst(t) ==
    /\ At(t, "startStore")
    /\ Publish(t, IF scheme = "2GEIBR" THEN 3 - loc[t].i ELSE 1, loc[t].e)
    /\ Goes(t, IF scheme = "2GEIBR" /\ loc[t].i = 1 THEN [loc[t] EXCEPT !.i = 2]
               ELSE [Between(loc[t]) EXCEPT !.inside = TRUE])
    /\ UNCHANGED <<scheme, epoch, root, object>>

StartStore(t) ==
    /\ At(t, "startStore")
    /\ Publish(t, loc[t].i, loc[t].e)
    /\ Goes(t, IF scheme = "2GEIBR" /\ loc[t].i = 1 THEN [loc[t] EXCEPT !.i = 2]
               ELSE [Between(loc[t]) EXCEPT !.inside = TRUE])
    /\ UNCHANGED <<scheme, epoch, root, object>>

-----------------------------------------------------------------------------
(* end_op and clear_all: the thread is through with its pointers.          *)

End(t) ==
    /\ At(t, "idle") /\ loc[t].inside
    /\ Goes(t, [loc[t] EXCEPT !.holds = NoHolds, !.inside = FALSE,
                              !.e = IF scheme = "QSBR" THEN epoch ELSE 0,
                              !.i = IF scheme = "2GEIBR" THEN 2 ELSE 1,
                              !.pc = "endStore"])
    /\ UNCHANGED <<scheme, epoch, entry, root, object>>

\* Mutants of AfterEnd: the loop goes one too far; it stops at the first.
AfterEndTooFar(i) == IF scheme = "2GEIBR" THEN i - 1 ELSE IF PerSlot /\ i <= 2 THEN i + 1 ELSE 0
AfterEndNone(i) == 0

\* The reservation that is cleared after i, the lower after the upper; 0: none.
AfterEnd(i) ==
    CASE scheme = "2GEIBR" -> i - 1
      [] PerSlot /\ i < 2 -> i + 1
      [] OTHER -> 0

EndStore(t) ==
    /\ At(t, "endStore")
    /\ Publish(t, loc[t].i, IF scheme = "QSBR" THEN loc[t].e ELSE None)
    /\ Goes(t, IF AfterEnd(loc[t].i) # 0 THEN [loc[t] EXCEPT !.i = AfterEnd(@)]
               ELSE [Between(loc[t]) EXCEPT !.ended = (scheme = "QSBR")])
    /\ UNCHANGED <<scheme, epoch, root, object>>

-----------------------------------------------------------------------------
(* read *)

\* The pointer is the caller's, who may use it until it gives it up.
Returns(t, b) ==
    LET slot == IF PerSlot THEN loc[t].i ELSE 1
        new  == IF b = NULL THEN {} ELSE {b}
    IN  Goes(t, [Between(loc[t]) EXCEPT !.holds[slot] = @ \union new])

\* BaseTracker: a load.
ReadPlain(t) ==
    /\ At(t, "idle") /\ loc[t].inside /\ ~Publishes
    /\ Returns(t, root)
    /\ UNCHANGED <<scheme, epoch, entry, root, object>>

\* Into a slot, whose pointer is given up: the second one when the first is in
\* use.  prev_epoch is what is published.
Read(t, i) ==
    /\ At(t, "idle") /\ loc[t].inside /\ Publishes
    /\ IF PerSlot THEN i = 2 => loc[t].holds[1] # {} ELSE i = 2
    /\ Goes(t, [loc[t] EXCEPT !.i = i, !.pc = "readLoad",
                              !.holds[i] = IF PerSlot THEN {} ELSE @,
                              !.e = IF scheme = "Hazard" THEN 0 ELSE entry[t][i]])
    /\ UNCHANGED <<scheme, epoch, entry, root, object>>

ReadLoad(t) ==
    /\ At(t, "readLoad")
    /\ Goes(t, [loc[t] EXCEPT !.ptr = root,
                              !.pc = IF scheme = "Hazard" THEN "hazardStore" ELSE "readEpoch"])
    /\ UNCHANGED <<scheme, epoch, entry, root, object>>

\* 2GEIBR and HE: what was read is protected if the epoch was published before.
ReadEpoch(t) ==
    /\ At(t, "readEpoch")
    /\ IF epoch = loc[t].e THEN Returns(t, loc[t].ptr)
       ELSE Goes(t, [loc[t] EXCEPT !.e = epoch, !.pc = "readPublish"])
    /\ UNCHANGED <<scheme, epoch, entry, root, object>>

\* Mutant of ReadPublish: the pointer is not read again.
ReadPublishOnce(t) ==
    /\ At(t, "readPublish")
    /\ Publish(t, loc[t].i, loc[t].e)
    /\ Goes(t, [loc[t] EXCEPT !.pc = "readEpoch"])
    /\ UNCHANGED <<scheme, epoch, root, object>>

ReadPublish(t) ==
    /\ At(t, "readPublish")
    /\ Publish(t, loc[t].i, loc[t].e)
    /\ Goes(t, [loc[t] EXCEPT !.pc = "readLoad", !.ptr = NULL])
    /\ UNCHANGED <<scheme, epoch, root, object>>

\* Hazard pointers: publish the pointer, then see if it is still there.
HazardStore(t) ==
    /\ At(t, "hazardStore")
    /\ Publish(t, loc[t].i, loc[t].ptr)
    /\ Goes(t, [loc[t] EXCEPT !.pc = "hazardCheck"])
    /\ UNCHANGED <<scheme, epoch, root, object>>

HazardCheck(t) ==
    /\ At(t, "hazardCheck")
    /\ IF root = loc[t].ptr THEN Returns(t, root)
       ELSE Goes(t, [loc[t] EXCEPT !.pc = "readLoad", !.ptr = NULL])
    /\ UNCHANGED <<scheme, epoch, entry, root, object>>

-----------------------------------------------------------------------------
(* alloc, and the client's structure. *)

\* Every so many allocations the epoch moves on, before the birth is taken.
Tick ==
    /\ scheme # "Hazard" /\ epoch < MaxEpoch
    /\ epoch' = epoch + 1
    /\ UNCHANGED <<scheme, entry, root, object, loc>>

Alloc(b) ==
    /\ status[b] = "freed"
    /\ status' = [status EXCEPT ![b] = "new"]
    /\ birth' = [birth EXCEPT ![b] = IF scheme \in {"2GEIBR", "HE"} THEN epoch ELSE 0]
    /\ UNCHANGED <<scheme, epoch, entry, root, retireEpoch, retired, loc>>

Link(b) ==
    /\ status[b] = "new" /\ root = NULL
    /\ root' = b
    /\ status' = [status EXCEPT ![b] = "linked"]
    /\ UNCHANGED <<scheme, epoch, entry, birth, retireEpoch, retired, loc>>

Unlink(t) ==
    /\ At(t, "idle") /\ loc[t].inside /\ root # NULL
    /\ root' = NULL
    /\ status' = [status EXCEPT ![root] = "retired"]
    /\ Goes(t, [loc[t] EXCEPT !.ptr = root, !.pc = "retire"])
    /\ UNCHANGED <<scheme, epoch, entry, birth, retireEpoch, retired>>

-----------------------------------------------------------------------------
(* retire and empty *)

\* Every freq-th call empties the list.
Retire(t) ==
    /\ At(t, "retire")
    /\ retireEpoch' = [retireEpoch EXCEPT
                         ![loc[t].ptr] = IF scheme = "Hazard" THEN 0 ELSE epoch]
    /\ retired' = [retired EXCEPT ![t] = @ \union {loc[t].ptr}]
    /\ \E pc \in {"idle", "copy"} : Goes(t, [Between(loc[t]) EXCEPT !.pc = pc])
    /\ UNCHANGED <<scheme, epoch, entry, root, status, birth>>

\* Mutant of KeepsRCU: an epoch too early.
KeepsRCUBefore(r, b) == r < retireEpoch[b]

\* Whether the reservation r, with lower end lo under 2GEIBR, keeps b.
KeepsRCU(r, b) == r <= retireEpoch[b]
Keeps2GEIBR(lo, r, b) == r >= birth[b] /\ lo <= retireEpoch[b]
KeepsHE(r, b) == r \in birth[b] .. retireEpoch[b] /\ r # 0
KeepsHazard(r, b) == r = b

Keeps(lo, r, b) ==
    CASE scheme \in {"RCU", "QSBR"} -> KeepsRCU(r, b)
      [] scheme = "2GEIBR" -> Keeps2GEIBR(lo, r, b)
      [] scheme = "HE" -> KeepsHE(r, b)
      [] OTHER -> KeepsHazard(r, b)

\* Reservations are copied in the order of the threads, a thread's lower one
\* before its upper one.  Of a copy no more is kept here than the objects of
\* the list it conflicts with: the list is the thread's own.
Copy(t) ==
    LET u == loc[t].next
        i == loc[t].i
        more == i = 1 /\ Publishes
        lower == scheme = "2GEIBR" /\ i = 1
        keeps == IF lower THEN {} ELSE {b \in retired[t] : Keeps(loc[t].e, entry[u][i], b)}
    IN  /\ At(t, "copy")
        /\ Goes(t, [loc[t] EXCEPT
                      !.kept = @ \union keeps,
                      !.e = IF lower THEN entry[u][i] ELSE 0,
                      !.i = IF more THEN 2 ELSE 1,
                      !.next = IF more THEN @ ELSE (u + 1) % NumThreads,
                      !.pc = IF more \/ u + 1 < NumThreads THEN "copy" ELSE "sweep"])
        /\ UNCHANGED <<scheme, epoch, entry, root, object>>

Free(t, b) ==
    /\ At(t, "sweep") /\ b \in retired[t] \ loc[t].kept
    /\ status' = [status EXCEPT ![b] = "freed"]
    /\ retired' = [retired EXCEPT ![t] = @ \ {b}]
    /\ birth' = [birth EXCEPT ![b] = 0]
    /\ retireEpoch' = [retireEpoch EXCEPT ![b] = 0]
    /\ UNCHANGED <<scheme, epoch, entry, root, loc>>

EmptyEnd(t) ==
    /\ At(t, "sweep") /\ retired[t] = loc[t].kept
    /\ Goes(t, Between(loc[t]))
    /\ UNCHANGED <<scheme, epoch, entry, root, object>>

-----------------------------------------------------------------------------
Step(t) ==
    \/ Start(t) \/ StartStore(t) \/ End(t) \/ EndStore(t)
    \/ ReadPlain(t) \/ (\E i \in Index : Read(t, i))
    \/ ReadLoad(t) \/ ReadEpoch(t) \/ ReadPublish(t) \/ HazardStore(t) \/ HazardCheck(t)
    \/ Unlink(t) \/ Retire(t) \/ Copy(t) \/ (\E b \in Objects : Free(t, b)) \/ EmptyEnd(t)

Next ==
    \/ \E t \in Threads : Step(t)
    \/ Tick \/ \E b \in Objects : Alloc(b) \/ Link(b)

Spec == Init /\ [][Next]_vars

-----------------------------------------------------------------------------
Labels ==
    {"idle", "startStore", "endStore", "readLoad", "readEpoch", "readPublish",
     "hazardStore", "hazardCheck", "retire", "copy", "sweep"}

Reservation == IF scheme = "Hazard" THEN Ptr ELSE Epoch

Local ==
    [pc : Labels, inside : BOOLEAN, ended : BOOLEAN,
     holds : [Index -> SUBSET Objects], i : Index, e : Epoch, ptr : Ptr,
     next : Threads, kept : SUBSET Objects]

TypeOK ==
    /\ scheme \in Schemes
    /\ epoch \in FirstEpoch .. MaxEpoch
    /\ entry \in [Threads -> [Index -> Reservation]]
    /\ root \in Ptr
    /\ status \in [Objects -> {"freed", "new", "linked", "retired"}]
    /\ birth \in [Objects -> Epoch] /\ retireEpoch \in [Objects -> Epoch]
    /\ retired \in [Threads -> SUBSET Objects]
    /\ loc \in [Threads -> Local]

\* A thread between two operations holds nothing back: whatever it published in
\* one, end_op or clear_all took back (QSBR apart, which reserves between its
\* operations the epoch of the last one's end).
OutsideReservesNothing ==
    \A t \in Threads :
        At(t, "idle") /\ ~loc[t].inside /\ scheme # "QSBR" =>
            entry[t] = [i \in Index |-> None]

\* Under 2GEIBR the interval a thread publishes with two stores (start_op,
\* end_op, and read in between) is never inside out, not even between the
\* stores: a copy of such an interval would conflict with next to nothing, as
\* if the thread were idle.
IntervalsInOrder ==
    scheme = "2GEIBR" => \A t \in Threads : entry[t][1] <= entry[t][2]

\* The pointers the scheme answers for.  QSBR publishes nothing for a thread
\* before its first end_op: what the thread reads till then it has no claim to.
Holds(t) ==
    IF scheme = "QSBR" /\ ~loc[t].ended THEN {} ELSE UNION {loc[t].holds[i] : i \in Index}

Pointers == INSTANCE SafePointers WITH
    Batches <- Objects, holds <- [t \in Threads |-> Holds(t)]

\* Under each of the schemes an object that a thread read the pointer of is not
\* freed before the thread gives the pointer up, however start_op, read and the
\* copying of the reservations by another thread's empty interleave.
ImplementsSafePointers == Pointers!Spec

-----------------------------------------------------------------------------
(* The inductive invariant behind these properties.                        *)

ReadLabels == {"readLoad", "readEpoch", "readPublish", "hazardStore", "hazardCheck"}

\* Where a call can be, under which scheme, and with which locals.
ControlOK(t) ==
    LET l == loc[t] IN
    /\ l.pc \in {"startStore", "endStore"} => ~l.inside
    /\ l.pc \notin {"idle", "startStore", "endStore"} => l.inside
    /\ l.pc = "startStore" => scheme \in {"RCU", "2GEIBR"}
    /\ l.pc \in ReadLabels => Publishes
    /\ l.pc \in {"readEpoch", "readPublish"} => scheme \in {"2GEIBR", "HE"}
    /\ l.pc \in {"hazardStore", "hazardCheck"} => scheme = "Hazard"
    /\ l.pc = "idle" => l.i = 1
    /\ l.pc = "startStore" /\ scheme = "RCU" => l.i = 1
    /\ l.pc = "endStore" /\ scheme \in {"RCU", "QSBR"} => l.i = 1
    /\ l.pc \in ReadLabels => IF PerSlot THEN l.holds[l.i] = {} ELSE l.i = 2
    /\ l.pc = "copy" /\ ~Publishes => l.i = 1
    /\ ~l.inside => l.holds = NoHolds
    /\ ~PerSlot => l.holds[2] = {}
    /\ l.pc = "retire" => l.ptr # NULL

\* What a thread has published.
ReservesOK(t) ==
    LET l  == loc[t]
        lo == entry[t][1]
        up == entry[t][2]
    IN  /\ l.pc = "idle" /\ ~l.inside /\ scheme # "QSBR" => lo = None /\ up = None
        /\ ~Publishes => up = None
        /\ scheme = "RCU" /\ l.inside => lo <= epoch
        /\ scheme = "QSBR" /\ l.ended => lo <= epoch
        /\ scheme = "2GEIBR" => lo <= up /\ (l.inside => up <= epoch)
        /\ scheme = "HE" => lo <= epoch /\ up <= epoch
        /\ l.pc = "startStore" =>
             /\ l.e <= epoch /\ up = None
             /\ lo = IF l.i = 1 THEN None ELSE l.e
        /\ l.pc = "endStore" /\ scheme = "QSBR" => l.e <= epoch
        /\ l.pc = "endStore" /\ scheme = "2GEIBR" /\ l.i = 1 => up = None
        /\ l.pc = "endStore" /\ PerSlot /\ l.i = 2 => lo = None
        /\ l.pc \in {"readLoad", "readEpoch"} /\ scheme # "Hazard" => l.e = entry[t][l.i]
        /\ l.pc = "readPublish" => /\ entry[t][l.i] <= l.e /\ l.e <= epoch
        /\ l.pc = "hazardCheck" => entry[t][l.i] = l.ptr

ThreadInv == \A t \in Threads : ControlOK(t) /\ ReservesOK(t)

\* What is linked is the structure's; what is retired is in one list, or about
\* to be put there by one thread.
ObjectInv ==
    \A b \in Objects :
        /\ status[b] = "linked" <=> root = b
        /\ birth[b] <= epoch
        /\ \A t \in Threads : b \in retired[t] =>
             status[b] = "retired" /\ \A u \in Threads : b \in retired[u] => u = t
        /\ \A t \in Threads : At(t, "retire") /\ loc[t].ptr = b =>
             /\ status[b] = "retired"
             /\ \A u \in Threads : /\ b \notin retired[u]
                                   /\ At(u, "retire") /\ loc[u].ptr = b => u = t

\* What a thread may use under its reservation i, or will be able to use if it
\* finds that the epoch is the one it has published.
Pending(t) == At(t, "readEpoch") /\ loc[t].e = epoch /\ loc[t].ptr # NULL
Claims(t, i) ==
    (IF scheme = "QSBR" /\ ~loc[t].ended THEN {} ELSE loc[t].holds[i])
    \union (IF Pending(t) /\ i = (IF PerSlot THEN loc[t].i ELSE 1)
            THEN {loc[t].ptr} ELSE {})

\* The reservation that a scan compares with an object claimed under i.
Reserved(t, i) == entry[t][IF scheme = "2GEIBR" THEN 2 ELSE i]

\* What is claimed is not freed, and once it is in a list the reservation keeps
\* it there.
ClaimInv ==
    \A t \in Threads, i \in Index : \A b \in Claims(t, i) :
        /\ b \in Objects /\ status[b] \in {"linked", "retired"}
        /\ scheme \in {"2GEIBR", "HE"} => birth[b] <= Reserved(t, i)
        /\ scheme = "HE" => Reserved(t, i) # 0
        /\ scheme = "Hazard" => Reserved(t, i) = b
        /\ \A v \in Threads : b \in retired[v] => Keeps(entry[t][1], Reserved(t, i), b)

\* The scan of v has copied the reservation of t for what is claimed under i.
Passed(v, t, i) ==
    \/ At(v, "sweep")
    \/ At(v, "copy") /\ (t < loc[v].next \/ (PerSlot /\ t = loc[v].next /\ i < loc[v].i))

\* A scan keeps what is claimed by the threads it has passed, whatever they
\* have done since, and what it has copied of the next one does not lose it.
ScanInv ==
    \A v, t \in Threads, i \in Index : \A b \in retired[v] \cap Claims(t, i) :
        /\ Passed(v, t, i) => b \in loc[v].kept
        /\ scheme = "2GEIBR" /\ At(v, "copy") /\ loc[v].next = t /\ loc[v].i = 2 =>
             loc[v].e <= retireEpoch[b]

IInv == TypeOK /\ ThreadInv /\ ObjectInv /\ ClaimInv /\ ScanInv
=============================================================================
