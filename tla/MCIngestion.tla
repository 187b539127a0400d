----------------------------- MODULE MCIngestion ----------------------------
(* Small instances of Ingestion for TLC. *)
EXTENDS Ingestion, TLC

Symmetry == Permutations(Requests)
=============================================================================
