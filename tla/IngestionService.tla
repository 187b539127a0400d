-------------------------- MODULE IngestionService --------------------------
(***************************************************************************)
(* What POST /v1/documents promises: each request is answered at most      *)
(* once; its file appears under its key as a whole or not at all, and is   *)
(* registered after that; neither is undone.  A 202 is given with the      *)
(* registration, a refused request leaves nothing, ever, and after a 503   *)
(* or no answer at all either may still happen.                            *)
(***************************************************************************)
CONSTANTS Requests, Missing, Whole

VARIABLES answer, file, registered

vars == <<answer, file, registered>>

Refusals == {"400", "413", "415"}

\* The client has not been told how the request ended.
Undecided(r) == answer[r] \in {"none", "503"}

Init ==
  /\ answer = [r \in Requests |-> "none"]
  /\ file = [r \in Requests |-> Missing]
  /\ registered = [r \in Requests |-> FALSE]

\* The file is at fault, or the service is.
Refuse(r) ==
  /\ answer[r] = "none" /\ file[r] = Missing
  /\ \E code \in Refusals : answer' = [answer EXCEPT ![r] = code]
  /\ UNCHANGED <<file, registered>>

Fail(r) ==
  /\ answer[r] = "none"
  /\ answer' = [answer EXCEPT ![r] = "503"]
  /\ UNCHANGED <<file, registered>>

\* The whole file appears at once.
Store(r) ==
  /\ Undecided(r) /\ file[r] = Missing
  /\ file' = [file EXCEPT ![r] = Whole]
  /\ UNCHANGED <<answer, registered>>

\* Document and event are registered, and the client may be told so.
Register(r) ==
  /\ Undecided(r) /\ file[r] = Whole
  /\ registered' = [registered EXCEPT ![r] = TRUE]
  /\ \/ UNCHANGED answer
     \/ answer[r] = "none" /\ answer' = [answer EXCEPT ![r] = "202"]
  /\ UNCHANGED file

Next == \E r \in Requests : Refuse(r) \/ Fail(r) \/ Store(r) \/ Register(r)

Spec == Init /\ [][Next]_vars
=============================================================================
