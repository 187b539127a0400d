------------------------------- MODULE MCUpload ------------------------------
(* A small instance of Upload for TLC.  The boundary overlaps itself, so a    *)
(* search that restarts at the wrong byte misses it.                          *)
EXTENDS Upload

MCBytes == {"a", "b"}
MCBoundary == <<"a", "b", "a">>
=============================================================================
