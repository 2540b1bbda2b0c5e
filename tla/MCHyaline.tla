------------------------------ MODULE MCHyaline ------------------------------
(* Hyaline with small sets, for TLC. *)
EXTENDS Hyaline, TLC

Symmetry == Permutations(Threads) \union Permutations(Batches)
=============================================================================
