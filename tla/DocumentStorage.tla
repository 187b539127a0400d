--------------------------- MODULE DocumentStorage --------------------------
(***************************************************************************)
(* What the port DocumentStorage promises its caller: a key is empty until *)
(* one upload appears under it as a whole, and is never overwritten; a     *)
(* call that returns, or finds its key taken, leaves something there.      *)
(* Nothing is promised about a power cut but that no key shows half a file.*)
(***************************************************************************)
CONSTANTS Keys, Contents, Empty

VARIABLES objects, told

vars == <<objects, told>>

Answers == {"none", "stored", "exists", "failed"}

Init ==
  /\ objects = [k \in Keys |-> Empty]
  /\ told = [k \in Keys |-> "none"]

Appear(k) ==
  /\ objects[k] = Empty
  /\ \E c \in Contents : objects' = [objects EXCEPT ![k] = c]
  /\ UNCHANGED told

Tell(k) ==
  /\ \E answer \in Answers :
       /\ answer \in {"stored", "exists"} => objects[k] # Empty
       /\ told' = [told EXCEPT ![k] = answer]
  /\ UNCHANGED objects

PowerCut ==
  /\ \E lost \in SUBSET Keys :
       objects' = [k \in Keys |-> IF k \in lost THEN Empty ELSE objects[k]]
  /\ told' = [k \in Keys |-> "none"]

Next == PowerCut \/ \E k \in Keys : Appear(k) \/ Tell(k)

Spec == Init /\ [][Next]_vars
=============================================================================
