------------------------------- MODULE Chains --------------------------------
(* The linked lists of batches that hang off the slots of hyaline.         *)
EXTENDS Integers, Sequences

CONSTANTS
    Batches,     \* names of the batches; a freed name may be used again
    NULL         \* the null pointer, no batch

Ptr == Batches \union {NULL}

InSeq(b, q) == \E i \in 1 .. Len(q) : q[i] = b

\* By the next pointers nx, q is the chain of nodes of slot s that starts at
\* p and stops at e, or, if e is the null pointer, at the end of the list.
Chain(nx, s, q, p, e) ==
    /\ q = <<>> => p = NULL /\ e = NULL
    /\ q # <<>> => /\ p = q[1]
                   /\ e = NULL => nx[q[Len(q)]][s] = NULL
                   /\ e # NULL => q[Len(q)] = e
    /\ \A i \in 1 .. Len(q) - 1 : q[i] # e /\ nx[q[i]][s] = q[i + 1]

Distinct(q) == \A i, j \in 1 .. Len(q) : q[i] = q[j] => i = j
Disjoint(p, q) == \A b \in Batches : ~(InSeq(b, p) /\ InSeq(b, q))
=============================================================================
