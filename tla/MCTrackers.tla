----------------------------- MODULE MCTrackers -----------------------------
(* Instance of Trackers for TLC. *)
EXTENDS Trackers, TLC

Symmetry == Permutations(Objects)
=============================================================================
