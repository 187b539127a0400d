--------------------------- MODULE OutboxDelivery ---------------------------
(***************************************************************************)
(* What the transactional outbox promises about each event, without        *)
(* workers, transactions, locks or connections: an accepted event is       *)
(* delivered at least once, it is acknowledged (the document becomes       *)
(* PUBLISHED) only after the broker has a copy, it is parked when its      *)
(* attempts are exhausted, only an operator takes it out of there, and an  *)
(* acknowledged event is final.  Copies may exceed one: the delivery is    *)
(* at-least-once, and a late duplicate may arrive in any phase.            *)
(***************************************************************************)
EXTENDS Naturals

CONSTANT Events

VARIABLES
  phase,   \* [Events -> {"absent", "pending", "parked", "acknowledged"}]
  copies   \* [Events -> Nat], the messages the broker has taken for the event

vars == <<phase, copies>>

TypeOK ==
  /\ phase \in [Events -> {"absent", "pending", "parked", "acknowledged"}]
  /\ copies \in [Events -> Nat]

Init ==
  /\ phase = [e \in Events |-> "absent"]
  /\ copies = [e \in Events |-> 0]

Move(e, from, to) ==
  /\ phase[e] = from
  /\ phase' = [phase EXCEPT ![e] = to]
  /\ UNCHANGED copies

\* The ingestion transaction that registers document and event.
Accept(e) == Move(e, "absent", "pending")

\* The broker takes one more copy of an accepted event.
Deliver(e) ==
  /\ phase[e] # "absent"
  /\ copies' = [copies EXCEPT ![e] = @ + 1]
  /\ UNCHANGED phase

\* The last allowed attempt failed.
Park(e) == Move(e, "pending", "parked")

\* The operator gives the event a new round of attempts.
Requeue(e) == Move(e, "parked", "pending")

\* Only a delivered event may be acknowledged, and only from "pending".
Acknowledge(e) ==
  /\ copies[e] > 0
  /\ Move(e, "pending", "acknowledged")

Next ==
  \E e \in Events :
    Accept(e) \/ Deliver(e) \/ Park(e) \/ Requeue(e) \/ Acknowledge(e)

Spec == Init /\ [][Next]_vars

\* Every accepted event is eventually acknowledged or parked: it is never
\* silently forgotten.
Settles ==
  \A e \in Events :
    (phase[e] = "pending") ~> (phase[e] \in {"parked", "acknowledged"})
=============================================================================
