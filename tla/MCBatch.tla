------------------------------- MODULE MCBatch -------------------------------
(* Batches of nodes with small bounds, for TLC. *)
EXTENDS Batch, TLC
=============================================================================
