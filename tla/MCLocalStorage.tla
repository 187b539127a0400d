--------------------------- MODULE MCLocalStorage ---------------------------
(* A small instance of LocalStorage for TLC.  Keys are interchangeable, and   *)
(* so are temporary names: the run checks no liveness.                        *)
EXTENDS LocalStorage, TLC

Symmetry == Permutations(Keys) \cup Permutations(Temps)
=============================================================================
