---------------------------- MODULE HyalineLemmas ----------------------------
(* Facts about the words and the chains that the proofs about the Hyaline  *)
(* modules rest on.                                                        *)
EXTENDS Words, Chains, SequenceTheorems, TLAPS

-----------------------------------------------------------------------------
(* Words.                                                                  *)

\* The sum and the negation of words are words.
LEMMA WordClosed ==
    ASSUME Mod \in Nat \ {0}, NEW x \in Word, NEW v \in Word
    PROVE  AddW(x, v) \in Word /\ NegW(v) \in Word /\ MinusOne \in Word
BY DEF Word, AddW, NegW, MinusOne

\* Subtracting 1 from the count of m references, n of which are not yet
\* added: fetch_sub returns 1 only for the last reference of a full count.
LEMMA DropOne ==
    ASSUME Mod \in Nat \ {0}, NEW m \in Nat, NEW n \in Nat, 0 < m, m < Mod, n < Mod
    PROVE  /\ AddW(m, MinusOne) = m - 1
           /\ m = NegW(MinusOne) <=> m = 1
           /\ m <= n => /\ AddW(NegW(n - m), MinusOne) = NegW(n - (m - 1))
                        /\ NegW(n - m) # NegW(MinusOne)
BY DEF AddW, NegW, MinusOne

\* Adding the n references that were not yet added leaves m, and the counter
\* was -n exactly when none of them is left.
LEMMA AddAll ==
    ASSUME Mod \in Nat \ {0}, NEW m \in Nat, NEW n \in Nat, m <= n, n < Mod
    PROVE  /\ AddW(NegW(n - m), n) = m
           /\ NegW(n - m) = NegW(n) <=> m = 0
BY DEF AddW, NegW

\* The share of n parts in m, and how the code computes it from m - 1, which
\* fits into the word.
LEMMA Division ==
    ASSUME NEW n \in Nat \ {0}, NEW m \in Nat \ {0}, m % n = 0
    PROVE  /\ m \div n \in Nat \ {0} /\ m = n * (m \div n)
           /\ (m - 1) \div n + 1 = m \div n
<1>1. m = n * (m \div n) + (m % n) /\ m \div n \in Int
  OBVIOUS
<1>2. m \div n # 0
  BY <1>1
<1>3. m \div n >= 0
  OBVIOUS
<1>4. (m - 1) \div n + 1 = m \div n
  <2> DEFINE q == m \div n
             r == (m - 1) \div n
             x == (m - 1) % n
  <2>1. m = n * q /\ q \in Nat /\ q # 0
    BY <1>1, <1>2, <1>3
  <2>2. m - 1 = n * r + x /\ r \in Int /\ x \in 0 .. n - 1
    OBVIOUS
  <2> HIDE DEF q, r, x
  <2>3. n * (q - r) = x + 1 /\ q - r \in Int
    BY <2>1, <2>2
  <2>4. q - r > 0
    BY <2>2, <2>3
  <2>5. q - r < 2
    <3>1. SUFFICES ASSUME q - r >= 2 PROVE FALSE
      BY <2>3
    <3>2. n * (q - r) >= n * 2
      BY <2>3, <3>1
    <3> QED
      BY <2>2, <2>3, <3>2
  <2>6. r + 1 = q
    BY <2>1, <2>2, <2>4, <2>5
  <2> QED
    BY <2>6 DEF q, r
<1> QED
  BY <1>1, <1>2, <1>3, <1>4

-----------------------------------------------------------------------------
(* Sequences.                                                              *)

\* The first element and the rest.
LEMMA TailFacts ==
    ASSUME NEW S, NEW q \in Seq(S), q # <<>>
    PROVE  /\ Len(q) \in Nat \ {0}
           /\ q[1] \in S
           /\ Tail(q) \in Seq(S)
           /\ Len(Tail(q)) = Len(q) - 1
           /\ \A i \in 1 .. Len(q) - 1 : Tail(q)[i] = q[i + 1]
           /\ Tail(q) = <<>> <=> Len(q) = 1
<1>1. Len(q) \in Nat \ {0}
  BY EmptySeq
<1>2. q[1] \in S
  BY <1>1, ElementOfSeq
<1>3. /\ Tail(q) \in Seq(S)
      /\ Len(Tail(q)) = Len(q) - 1
      /\ \A i \in 1 .. Len(Tail(q)) : Tail(q)[i] = q[i + 1]
  BY HeadTailProperties
<1>4. Tail(q) = <<>> <=> Len(Tail(q)) = 0
  BY <1>3, EmptySeq
<1> QED
  BY <1>1, <1>2, <1>3, <1>4

\* A new first element.
LEMMA ConsFacts ==
    ASSUME NEW S, NEW q \in Seq(S), NEW b \in S
    PROVE  /\ <<b>> \o q \in Seq(S)
           /\ <<b>> \o q # <<>>
           /\ Len(<<b>> \o q) = Len(q) + 1
           /\ Len(q) \in Nat
           /\ (<<b>> \o q)[1] = b
           /\ \A i \in 1 .. Len(q) : (<<b>> \o q)[i + 1] = q[i]
<1> DEFINE c == <<b>> \o q
<1>1. <<b>> \in Seq(S) /\ Len(<<b>>) = 1 /\ <<b>>[1] = b
  OBVIOUS
<1>2. /\ c \in Seq(S) /\ Len(c) = 1 + Len(q)
      /\ \A i \in 1 .. 1 + Len(q) : c[i] = IF i <= 1 THEN <<b>>[i] ELSE q[i - 1]
  BY <1>1, ConcatProperties
<1>3. Len(q) \in Nat
  BY LenProperties
<1>4. c # <<>>
  BY <1>2, <1>3, EmptySeq
<1> HIDE DEF c
<1>5. c[1] = b /\ \A i \in 1 .. Len(q) : c[i + 1] = q[i]
  BY <1>1, <1>2, <1>3
<1> QED
  BY <1>2, <1>3, <1>4, <1>5 DEF c

\* What is in the rest, when nothing is twice in the sequence.
LEMMA InTail ==
    ASSUME NEW S, NEW q \in Seq(S), q # <<>>, Distinct(q)
    PROVE  /\ Distinct(Tail(q))
           /\ ~InSeq(q[1], Tail(q))
           /\ InSeq(q[1], q)
           /\ \A b : InSeq(b, q) <=> b = q[1] \/ InSeq(b, Tail(q))
BY TailFacts DEF Distinct, InSeq

\* What is in a sequence with a new first element.
LEMMA InCons ==
    ASSUME NEW S, NEW q \in Seq(S), NEW b \in S
    PROVE  /\ \A c : InSeq(c, <<b>> \o q) <=> c = b \/ InSeq(c, q)
           /\ Distinct(q) /\ ~InSeq(b, q) => Distinct(<<b>> \o q)
<1> DEFINE n == <<b>> \o q
<1>1. /\ Len(n) = Len(q) + 1 /\ Len(q) \in Nat
      /\ n[1] = b
      /\ \A i \in 1 .. Len(q) : n[i + 1] = q[i]
  BY ConsFacts
<1> HIDE DEF n
<1>2. \A i \in 1 .. Len(n) : i = 1 \/ (i - 1 \in 1 .. Len(q) /\ n[i] = q[i - 1])
  BY <1>1
<1>3. ASSUME NEW c PROVE InSeq(c, n) <=> c = b \/ InSeq(c, q)
  <2>1. InSeq(c, n) => c = b \/ InSeq(c, q)
    BY <1>1, <1>2 DEF InSeq
  <2>2. c = b => InSeq(c, n)
    BY <1>1 DEF InSeq
  <2>3. InSeq(c, q) => InSeq(c, n)
    <3>1. SUFFICES ASSUME NEW i \in 1 .. Len(q), q[i] = c PROVE InSeq(c, n)
      BY DEF InSeq
    <3>2. i + 1 \in 1 .. Len(n) /\ n[i + 1] = c
      BY <1>1, <3>1
    <3> QED
      BY <3>2 DEF InSeq
  <2> QED
    BY <2>1, <2>2, <2>3
<1>4. ASSUME Distinct(q), ~InSeq(b, q) PROVE Distinct(n)
  <2>1. SUFFICES ASSUME NEW i \in 1 .. Len(n), NEW j \in 1 .. Len(n), n[i] = n[j]
                 PROVE  i = j
    BY DEF Distinct
  <2>2. CASE i = 1 \/ j = 1
    BY <1>1, <1>2, <1>4, <2>1, <2>2 DEF InSeq
  <2>3. CASE i # 1 /\ j # 1
    <3>1. /\ i - 1 \in 1 .. Len(q) /\ n[i] = q[i - 1]
          /\ j - 1 \in 1 .. Len(q) /\ n[j] = q[j - 1]
      BY <1>2, <2>3
    <3>2. i - 1 = j - 1
      BY <1>4, <2>1, <3>1 DEF Distinct
    <3> QED
      BY <1>1, <3>2
  <2> QED
    BY <2>2, <2>3
<1> QED
  BY <1>3, <1>4 DEF n

LEMMA InEmpty ==
    /\ \A b : ~InSeq(b, <<>>)
    /\ Distinct(<<>>)
    /\ \A q : Disjoint(<<>>, q) /\ Disjoint(q, <<>>)
BY DEF InSeq, Distinct, Disjoint

\* A sequence with one element.
LEMMA InSingle ==
    ASSUME NEW S, NEW b \in S
    PROVE  /\ <<b>> \in Seq(S) /\ <<b>> # <<>> /\ Len(<<b>>) = 1 /\ <<b>>[1] = b
           /\ \A c : InSeq(c, <<b>>) <=> c = b
           /\ Distinct(<<b>>)
<1>1. <<b>> \in Seq(S) /\ <<b>> # <<>> /\ Len(<<b>>) = 1 /\ <<b>>[1] = b
  OBVIOUS
<1> QED
  BY <1>1 DEF InSeq, Distinct

-----------------------------------------------------------------------------
(* Chains.                                                                 *)

\* One step along a chain: at its end the rest is empty, otherwise the rest is
\* the chain that starts at the next pointer.
LEMMA ChainTail ==
    ASSUME NEW nx, NEW s, NEW q \in Seq(Batches), NEW p, NEW e,
           Chain(nx, s, q, p, e), q # <<>>, NULL \notin Batches
    PROVE  /\ p = q[1] /\ p \in Batches
           /\ p = e => Tail(q) = <<>>
           /\ p # e => Chain(nx, s, Tail(q), nx[p][s], e)
<1> DEFINE r == Tail(q)
<1>1. /\ Len(q) \in Nat \ {0}
      /\ q[1] \in Batches
      /\ r \in Seq(Batches)
      /\ Len(r) = Len(q) - 1
      /\ \A i \in 1 .. Len(q) - 1 : r[i] = q[i + 1]
      /\ r = <<>> <=> Len(q) = 1
  BY TailFacts
<1> HIDE DEF r
<1>2. /\ p = q[1]
      /\ e = NULL => nx[q[Len(q)]][s] = NULL
      /\ e # NULL => q[Len(q)] = e
      /\ \A i \in 1 .. Len(q) - 1 : q[i] # e /\ nx[q[i]][s] = q[i + 1]
  BY DEF Chain
<1>3. p = e => r = <<>>
  <2>1. Len(q) # 1 => 1 \in 1 .. Len(q) - 1
    BY <1>1
  <2> QED
    BY <1>1, <1>2, <2>1
<1>4. ASSUME p # e PROVE Chain(nx, s, r, nx[p][s], e)
  <2>1. CASE Len(q) = 1
    BY <1>1, <1>2, <1>4, <2>1 DEF Chain
  <2>2. CASE Len(q) # 1
    <3>1. r # <<>> /\ r[1] = q[2] /\ nx[p][s] = q[2]
      BY <1>1, <1>2, <2>2
    <3>2. r[Len(r)] = q[Len(q)]
      BY <1>1, <2>2
    <3>3. ASSUME NEW i \in 1 .. Len(r) - 1
          PROVE  r[i] # e /\ nx[r[i]][s] = r[i + 1]
      <4>1. i \in 1 .. Len(q) - 1 /\ i + 1 \in 1 .. Len(q) - 1
        BY <1>1
      <4>2. r[i] = q[i + 1] /\ r[i + 1] = q[(i + 1) + 1]
        BY <1>1, <4>1
      <4> QED
        BY <1>2, <4>1, <4>2
    <3> QED
      BY <1>2, <3>1, <3>2, <3>3 DEF Chain
  <2> QED
    BY <2>1, <2>2
<1> QED
  BY <1>1, <1>2, <1>3, <1>4 DEF r

\* A chain only depends on the next pointers of its own nodes.
LEMMA ChainFrame ==
    ASSUME NEW nx, NEW ny, NEW s, NEW q \in Seq(Batches), NEW p, NEW e,
           Chain(nx, s, q, p, e),
           \A b : InSeq(b, q) => ny[b][s] = nx[b][s]
    PROVE  Chain(ny, s, q, p, e)
<1>1. Len(q) \in Nat /\ (q # <<>> => Len(q) \in 1 .. Len(q))
  BY EmptySeq, LenProperties
<1>2. \A i \in 1 .. Len(q) : ny[q[i]][s] = nx[q[i]][s]
  BY DEF InSeq
<1> QED
  BY <1>1, <1>2 DEF Chain

\* A new node in front of a chain.
LEMMA ChainCons ==
    ASSUME NEW nx, NEW s, NEW q \in Seq(Batches), NEW p, NEW e, NEW b \in Batches,
           NULL \notin Batches, Chain(nx, s, q, p, e), ~InSeq(b, q), nx[b][s] = p
    PROVE  Chain(nx, s, <<b>> \o q, b, e)
<1> DEFINE n == <<b>> \o q
<1>1. /\ n # <<>>
      /\ Len(n) = Len(q) + 1 /\ Len(q) \in Nat
      /\ n[1] = b
      /\ \A i \in 1 .. Len(q) : n[i + 1] = q[i]
  BY ConsFacts
<1>2. q # <<>> => Len(q) \in Nat \ {0}
  BY EmptySeq
<1>3. q = <<>> => Len(q) = 0
  OBVIOUS
<1> HIDE DEF n
<1>4. e # NULL => n[Len(n)] = e
  BY <1>1, <1>2 DEF Chain
<1>5. e = NULL => nx[n[Len(n)]][s] = NULL
  BY <1>1, <1>2, <1>3 DEF Chain
<1>6. ASSUME NEW i \in 1 .. Len(n) - 1
      PROVE  n[i] # e /\ nx[n[i]][s] = n[i + 1]
  <2>1. q # <<>> /\ i \in 1 .. Len(q) /\ n[i + 1] = q[i]
    BY <1>1, <1>3
  <2>2. CASE i = 1
    <3>1. n[i] = b /\ n[i + 1] = p
      BY <1>1, <2>1, <2>2 DEF Chain
    <3>2. b # e
      <4>1. e # NULL => InSeq(e, q)
        BY <1>2, <2>1 DEF Chain, InSeq
      <4> QED
        BY <4>1
    <3> QED
      BY <3>1, <3>2
  <2>3. CASE i # 1
    <3>1. i - 1 \in 1 .. Len(q) - 1 /\ n[i] = q[i - 1]
      BY <1>1, <2>1, <2>3
    <3> QED
      BY <2>1, <3>1 DEF Chain
  <2> QED
    BY <2>2, <2>3
<1> QED
  BY <1>1, <1>4, <1>5, <1>6 DEF Chain, n

\* The one node that trim keeps, and that later ends the next traversal.
LEMMA ChainSingle ==
    ASSUME NEW nx, NEW s, NEW b \in Batches, NULL \notin Batches
    PROVE  Chain(nx, s, <<b>>, b, b)
BY InSingle DEF Chain
=============================================================================
