----------------------------- MODULE MCHyaline1S -----------------------------
(* Hyaline-1S with small sets, for TLC. *)
EXTENDS Hyaline1S, TLC

Symmetry == Permutations(Batches)
=============================================================================
