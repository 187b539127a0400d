---------------------------- MODULE MCOutboxClock ---------------------------
(* Small instances of OutboxClock for TLC. *)
EXTENDS OutboxClock, TLC

Symmetry == Permutations(Workers) \cup Permutations(Events)
=============================================================================
