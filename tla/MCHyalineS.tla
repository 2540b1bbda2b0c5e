------------------------------ MODULE MCHyalineS -----------------------------
(* Hyaline-S with small sets, for TLC. *)
EXTENDS HyalineS, TLC

Symmetry == Permutations(Threads) \union Permutations(Batches)
=============================================================================
