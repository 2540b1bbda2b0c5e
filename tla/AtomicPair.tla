----------------------------- MODULE AtomicPair -----------------------------
(***************************************************************************)
(* What bits/lf.h promises of a word with a reference count and a pointer, *)
(* whatever the platform (__lfref_load, __lfref_link, __lfref_cmpxchgptr,  *)
(* __lfref_cmpxchgref, __lfref_fetch_add):                                 *)
(*                                                                         *)
(*   a compare-exchange that succeeds and a fetch-and-add replace the      *)
(*   whole pair in one instant, and report the pair they replaced;         *)
(*   a strong compare-exchange that fails has seen a half that differs     *)
(*   from what was expected;                                               *)
(*   any other pair that is reported may be torn, each of its halves read  *)
(*   at an instant of its own.                                             *)
(***************************************************************************)
EXTENDS Words

CONSTANTS Threads, Unread

VARIABLES
    tears,      \* whether a pair may be read in halves
    word,       \* the pair in memory
    stage,      \* stage[t]: "idle", "called", "took", "hit" or "miss"
    call,       \* call[t]: the operation t is in, with its arguments
    got         \* got[t]: the pair t reports, Unread where not read yet

vars == <<tears, word, stage, call, got>>

Nothing == [ref |-> Unread, ptr |-> Unread]
NoCall == [op |-> "none"]

Pair == [{"ref", "ptr"} -> Word]

Operations ==
    [op : {"load", "link"}] \union [op : {"add"}, arg : Word]
      \union [op : {"casref", "casptr"}, weak : BOOLEAN, want : Pair, new : Pair]

Init ==
    /\ tears \in BOOLEAN
    /\ word = [ref |-> 0, ptr |-> 0]
    /\ stage = [t \in Threads |-> "idle"]
    /\ call = [t \in Threads |-> NoCall]
    /\ got = [t \in Threads |-> Nothing]

Becomes(t, from, to) ==
    /\ stage[t] = from
    /\ stage' = [stage EXCEPT ![t] = to]

Call(t) ==
    /\ Becomes(t, "idle", "called")
    /\ \E c \in Operations : call' = [call EXCEPT ![t] = c]
    /\ UNCHANGED <<tears, word, got>>

\* Reads before the operation takes effect, as many as the platform needs.
ReadWord(t) ==
    /\ stage[t] = "called"
    /\ got' = [got EXCEPT ![t] = word]
    /\ UNCHANGED <<tears, word, stage, call>>

ReadHalf(t, h) ==
    /\ stage[t] = "called" /\ (tears \/ call[t].op = "link")
    /\ got' = [got EXCEPT ![t][h] = word[h]]
    /\ UNCHANGED <<tears, word, stage, call>>

\* The registers of a failed attempt are given up.
Forget(t) ==
    /\ stage[t] = "called"
    /\ got' = [got EXCEPT ![t] = Nothing]
    /\ UNCHANGED <<tears, word, stage, call>>

\* The instant at which an operation that writes takes effect.
TakeAdd(t) ==
    /\ call[t].op = "add"
    /\ word' = [word EXCEPT !.ref = AddW(@, call[t].arg)]

TakeCas(t) ==
    /\ call[t].op \in {"casref", "casptr"}
    /\ word = call[t].want
    /\ word' = call[t].new

Take(t) ==
    /\ Becomes(t, "called", "took")
    /\ TakeAdd(t) \/ TakeCas(t)
    /\ got' = [got EXCEPT ![t] = word]
    /\ UNCHANGED <<tears, call>>

Success(t) ==
    /\ \/ Becomes(t, "took", "hit")
       \/ /\ Becomes(t, "called", "hit")
          /\ \/ call[t].op = "load" /\ got[t].ref # Unread
             \/ call[t].op = "link"
          /\ got[t].ptr # Unread
    /\ UNCHANGED <<tears, word, call, got>>

Failure(t) ==
    /\ Becomes(t, "called", "miss")
    /\ call[t].op \in {"casref", "casptr"}
    /\ got[t].ref # Unread /\ got[t].ptr # Unread
    /\ call[t].weak \/ got[t] # call[t].want
    /\ UNCHANGED <<tears, word, call, got>>

Return(t) ==
    /\ Becomes(t, "hit", "idle") \/ Becomes(t, "miss", "idle")
    /\ call' = [call EXCEPT ![t] = NoCall]
    /\ got' = [got EXCEPT ![t] = Nothing]
    /\ UNCHANGED <<tears, word>>

Next == \E t \in Threads :
    \/ Call(t) \/ ReadWord(t) \/ (\E h \in {"ref", "ptr"} : ReadHalf(t, h))
    \/ Forget(t) \/ Take(t) \/ Success(t) \/ Failure(t) \/ Return(t)

Spec == Init /\ [][Next]_vars
=============================================================================
