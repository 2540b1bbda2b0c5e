---------------------------- MODULE MCDoubleWord ----------------------------
(* Instance of DoubleWord for TLC. *)
EXTENDS DoubleWord, TLC

Symmetry == Permutations(Threads)
=============================================================================
