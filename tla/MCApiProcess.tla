---------------------------- MODULE MCApiProcess ----------------------------
(* A small instance of ApiProcess for TLC. *)
EXTENDS ApiProcess
=============================================================================
