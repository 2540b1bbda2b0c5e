------------------------------ MODULE MCHyaline1 -----------------------------
(* Hyaline-1 with small sets, for TLC. *)
EXTENDS Hyaline1, TLC

Symmetry == Permutations(Batches)
=============================================================================
