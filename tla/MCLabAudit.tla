----------------------------- MODULE MCLabAudit -----------------------------
(* A small instance of LabAudit for TLC; uploads are interchangeable. *)
EXTENDS LabAudit, TLC

Symmetry == Permutations(Uploads)
=============================================================================
