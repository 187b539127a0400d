------------------------------- MODULE Outbox -------------------------------
(***************************************************************************)
(* The transactional outbox on PostgreSQL: API ingestion transactions      *)
(* register documents with their event, any number of worker processes     *)
(* publish events to RabbitMQ under FOR UPDATE SKIP LOCKED, and operators  *)
(* requeue exhausted events.  Processes crash and restart, database        *)
(* sessions and broker connections are lost at any point, the broker may   *)
(* refuse a message or take one whose sender has gone, and a commit may be *)
(* applied although its caller sees an error.                              *)
(*                                                                         *)
(* An event stands for its outbox row, its document row and its message;   *)
(* Events are numbered in the (created_at, id) order list_pending sorts by *)
(* and may be registered in any order.                                     *)
(***************************************************************************)
EXTENDS Naturals

CONSTANTS
  Workers,       \* outbox worker processes
  Operators,     \* runs of the requeue command
  Events,        \* events, numbered in (created_at, id) order
  MaxAttempts,   \* settings.outbox_max_attempts, shared by both programs
  BatchSize,     \* settings.outbox_batch_size
  MaxFaults,     \* bound on the disturbances of one behaviour
  None           \* no lock owner, no event in hand

ASSUME EventsAssumption == Events \subseteq Nat
ASSUME SettingsAssumption ==
  MaxAttempts \in Nat \ {0} /\ BatchSize \in Nat \ {0} /\ MaxFaults \in Nat
ASSUME ActorsAssumption ==
  /\ Workers \cap Operators = {}
  /\ None \notin Workers \cup Operators
  /\ None \notin Events

VARIABLES
  (* committed database rows *)
  status,       \* documents.status, "absent" before the ingestion commit
  published,    \* outbox_events.published_at IS NOT NULL
  attempts,     \* outbox_events.attempts
  cooling,      \* next_attempt_at is in the future
  lock,         \* the transaction that holds the outbox row's lock
  (* worker processes *)
  wpc,          \* where the worker is in run() and process_batch()
  cur,          \* the event in the worker's hands
  left,         \* iterations left of the batch's for loop
  open,         \* the worker's connection and channel are open
  stopping,     \* stop_event is set
  (* requeue commands *)
  opc, target,
  (* the broker *)
  queue,        \* copies of the event the broker has taken
  stray,        \* messages still in flight whose sender gave up on them
  (* auxiliary: only guards' bounds and properties read these *)
  interrupted,  \* copies whose acknowledging commit was cut off
  faults

rows == <<status, published, attempts, cooling>>
workers == <<wpc, cur, left, open, stopping>>
operators == <<opc, target>>
broker == <<queue, stray, interrupted>>
vars == <<rows, lock, workers, operators, broker, faults>>

WorkerPC == {"stopped", "polling", "checking", "picking", "locked", "sent",
             "accepted", "confirmed", "failed", "backoff"}

\* The transaction that took the event with list_pending is still running.
Holding == {"locked", "sent", "accepted", "confirmed", "failed"}

\* The broker has the copy, the commit that records it is still to come.
Delivered == {"accepted", "confirmed"}

TypeOK ==
  /\ status \in [Events -> {"absent", "STORED", "PUBLISHED"}]
  /\ published \in [Events -> BOOLEAN]
  /\ attempts \in [Events -> 0..MaxAttempts]
  /\ cooling \in [Events -> BOOLEAN]
  /\ lock \in [Events -> Workers \cup Operators \cup {None}]
  /\ wpc \in [Workers -> WorkerPC]
  /\ cur \in [Workers -> Events \cup {None}]
  /\ left \in [Workers -> 0..BatchSize]
  /\ open \in [Workers -> BOOLEAN]
  /\ stopping \in [Workers -> BOOLEAN]
  /\ opc \in [Operators -> {"idle", "checked", "updated"}]
  /\ target \in [Operators -> Events \cup {None}]
  /\ queue \in [Events -> Nat]
  /\ stray \in [Events -> Nat]
  /\ interrupted \in [Events -> Nat]
  /\ faults \in 0..MaxFaults

Init ==
  /\ status = [e \in Events |-> "absent"]
  /\ published = [e \in Events |-> FALSE]
  /\ attempts = [e \in Events |-> 0]
  /\ cooling = [e \in Events |-> FALSE]
  /\ lock = [e \in Events |-> None]
  /\ wpc = [w \in Workers |-> "stopped"]
  /\ cur = [w \in Workers |-> None]
  /\ left = [w \in Workers |-> 0]
  /\ open = [w \in Workers |-> FALSE]
  /\ stopping = [w \in Workers |-> FALSE]
  /\ opc = [o \in Operators |-> "idle"]
  /\ target = [o \in Operators |-> None]
  /\ queue = [e \in Events |-> 0]
  /\ stray = [e \in Events |-> 0]
  /\ interrupted = [e \in Events |-> 0]
  /\ faults = 0

Release(a) == lock' = [e \in Events |-> IF lock[e] = a THEN None ELSE lock[e]]
Goto(w, pc) == wpc' = [wpc EXCEPT ![w] = pc]
Count(f, e) == f' = [f EXCEPT ![e] = @ + 1]
Disturb == faults < MaxFaults /\ faults' = faults + 1

\* The worker's transaction still owns the row it picked: its database session
\* has not been lost since.
Owns(w) == cur[w] # None /\ lock[cur[w]] = w

\* A broker connection: the topology is declared and confirms are turned on.
Connect(w) == open' = [open EXCEPT ![w] = TRUE]
CloseBroker(w) == open' = [open EXCEPT ![w] = FALSE]

\* Leaving the process: run's finally closes the broker, the open transaction
\* (if any) is rolled back, and nothing in memory survives.
Exit(w) ==
  /\ Goto(w, "stopped")
  /\ cur' = [cur EXCEPT ![w] = None]
  /\ left' = [left EXCEPT ![w] = 0]
  /\ CloseBroker(w)
  /\ stopping' = [stopping EXCEPT ![w] = FALSE]

\* Closing the unit of work and going on: the event is no longer in hand.
PutDown(w, pc, n) ==
  /\ Goto(w, pc)
  /\ cur' = [cur EXCEPT ![w] = None]
  /\ left' = [left EXCEPT ![w] = n]
  /\ UNCHANGED <<open, stopping>>

-----------------------------------------------------------------------------
(* Ingestion *)

\* The ingestion transaction inserts the document and its event together.
Register(e) ==
  /\ status[e] = "absent"
  /\ status' = [status EXCEPT ![e] = "STORED"]
  /\ UNCHANGED <<published, attempts, cooling, lock, workers, operators, broker,
                 faults>>

\* The clock passes next_attempt_at.
BackoffElapses(e) ==
  /\ cooling[e]
  /\ cooling' = [cooling EXCEPT ![e] = FALSE]
  /\ UNCHANGED <<status, published, attempts, lock, workers, operators, broker,
                 faults>>

-----------------------------------------------------------------------------
(* The worker: run() and process_batch() *)

\* main() connects to the broker, and run() is at the top of its loop.  When the
\* broker cannot be reached, main() ends before it has done anything.
StartWorker(w) ==
  /\ wpc[w] = "stopped"
  /\ Goto(w, "polling")
  /\ Connect(w)
  /\ UNCHANGED <<cur, left, stopping, rows, lock, operators, broker, faults>>

\* while not stop_event.is_set(): a set flag ends the process, else a batch.
Poll(w) ==
  /\ wpc[w] = "polling"
  /\ IF stopping[w]
     THEN Exit(w)
     ELSE /\ Goto(w, "checking")
          /\ left' = [left EXCEPT ![w] = BatchSize]
          /\ UNCHANGED <<cur, open, stopping>>
  /\ UNCHANGED <<rows, lock, operators, broker, faults>>

\* Mutant: the loop goes on without asking the channel.
CheckNothing(w) ==
  /\ wpc[w] = "checking"
  /\ Goto(w, "picking")
  /\ UNCHANGED <<cur, left, open, stopping, rows, lock, operators, broker, faults>>

\* The is_ready() call that starts an iteration; a closed channel is an error
\* that ends the process.
CheckReady(w) ==
  /\ wpc[w] = "checking"
  /\ IF open[w]
     THEN Goto(w, "picking") /\ UNCHANGED <<cur, left, open, stopping>>
     ELSE Exit(w)
  /\ UNCHANGED <<rows, lock, operators, broker, faults>>

\* Mutant: attempts <= max_attempts.
PendingAtLimit(e) ==
  status[e] # "absent" /\ ~published[e] /\ attempts[e] <= MaxAttempts /\ ~cooling[e]

\* The WHERE clause of list_pending.
Pending(e) ==
  /\ status[e] # "absent"
  /\ ~published[e]
  /\ attempts[e] < MaxAttempts
  /\ ~cooling[e]

\* ... FOR UPDATE SKIP LOCKED
Pickable(e) == Pending(e) /\ lock[e] = None

\* list_pending(limit=1, lock=True) returns the first such row, locked.
Pick(w) ==
  /\ wpc[w] = "picking"
  /\ \E e \in Events :
       /\ Pickable(e)
       /\ \A f \in Events : Pickable(f) => e <= f
       /\ lock' = [lock EXCEPT ![e] = w]
       /\ cur' = [cur EXCEPT ![w] = e]
  /\ Goto(w, "locked")
  /\ UNCHANGED <<left, open, stopping, rows, operators, broker, faults>>

\* if not events: break
PickNothing(w) ==
  /\ wpc[w] = "picking"
  /\ \A e \in Events : ~Pickable(e)
  /\ PutDown(w, "polling", 0)
  /\ UNCHANGED <<rows, lock, operators, broker, faults>>

\* Mutant: a channel without confirm_delivery(), basic_publish returns at once.
SendUnconfirmed(w) ==
  /\ wpc[w] = "locked"
  /\ Goto(w, IF open[w] THEN "confirmed" ELSE "failed")
  /\ UNCHANGED <<cur, left, open, stopping, rows, lock, operators, broker, faults>>

\* publish() looks at the channel again, then hands the message to pika and
\* waits for the broker's confirmation.
Send(w) ==
  /\ wpc[w] = "locked"
  /\ Goto(w, IF open[w] THEN "sent" ELSE "failed")
  /\ UNCHANGED <<cur, left, open, stopping, rows, lock, operators, broker, faults>>

\* The confirmation arrives: basic_publish returns.
Confirm(w) ==
  /\ wpc[w] = "accepted"
  /\ Goto(w, "confirmed")
  /\ UNCHANGED <<cur, left, open, stopping, rows, lock, operators, broker, faults>>

\* mark_published: event and document change in the same transaction.
MarkPublished(e) ==
  /\ published' = [published EXCEPT ![e] = TRUE]
  /\ attempts' = [attempts EXCEPT ![e] = @ + 1]
  /\ cooling' = [cooling EXCEPT ![e] = FALSE]
  /\ status' = [status EXCEPT ![e] = IF @ = "STORED" THEN "PUBLISHED" ELSE @]

\* Mutant: no commit() after mark_published; leaving the unit of work rolls back.
CommitForgotten(w) ==
  /\ wpc[w] = "confirmed"
  /\ Owns(w)
  /\ Release(w)
  /\ PutDown(w, IF left[w] > 1 THEN "checking" ELSE "polling", left[w] - 1)
  /\ UNCHANGED <<rows, operators, broker, faults>>

\* mark_published and a commit that succeeds; the for loop goes on.
CommitPublished(w) ==
  /\ wpc[w] = "confirmed"
  /\ Owns(w)
  /\ MarkPublished(cur[w])
  /\ Release(w)
  /\ PutDown(w, IF left[w] > 1 THEN "checking" ELSE "polling", left[w] - 1)
  /\ UNCHANGED <<operators, broker, faults>>

\* The commit is applied but its acknowledgement is lost: the caller sees an
\* error, which process_batch does not catch.
CommitPublishedUnseen(w) ==
  /\ wpc[w] = "confirmed"
  /\ Owns(w)
  /\ Disturb
  /\ MarkPublished(cur[w])
  /\ Release(w)
  /\ Exit(w)
  /\ UNCHANGED <<operators, broker>>

\* Mutant: record_failure schedules the retry but charges no attempt.
CountNoFailure(e) ==
  /\ cooling' = [cooling EXCEPT ![e] = TRUE]
  /\ UNCHANGED <<attempts, status, published>>

\* record_failure
CountFailure(e) ==
  /\ attempts' = [attempts EXCEPT ![e] = @ + 1]
  /\ cooling' = [cooling EXCEPT ![e] = TRUE]
  /\ UNCHANGED <<status, published>>

\* The exception handler of process_batch: record, commit, then look at the
\* channel; closed ends the process, open sleeps for the backoff.
RecordFailure(w) ==
  /\ wpc[w] = "failed"
  /\ Owns(w)
  /\ CountFailure(cur[w])
  /\ Release(w)
  /\ IF open[w] THEN PutDown(w, "backoff", 0) ELSE Exit(w)
  /\ UNCHANGED <<operators, broker, faults>>

RecordFailureUnseen(w) ==
  /\ wpc[w] = "failed"
  /\ Owns(w)
  /\ Disturb
  /\ CountFailure(cur[w])
  /\ Release(w)
  /\ Exit(w)
  /\ UNCHANGED <<operators, broker>>

\* The session was lost: mark_published or record_failure raises, nothing is
\* recorded, and the exception ends the process.
CommitFails(w) ==
  /\ wpc[w] \in {"confirmed", "failed"}
  /\ ~Owns(w)
  /\ Exit(w)
  /\ UNCHANGED <<rows, lock, operators, broker, faults>>

\* self._sleep(delay); break
Wake(w) ==
  /\ wpc[w] = "backoff"
  /\ PutDown(w, "polling", 0)
  /\ UNCHANGED <<rows, lock, operators, broker, faults>>

-----------------------------------------------------------------------------
(* The broker *)

\* The broker takes the message of a waiting publish call.  If the sender's
\* session is gone already, no commit will record this copy.
BrokerAccept(w) ==
  /\ wpc[w] = "sent"
  /\ Goto(w, "accepted")
  /\ Count(queue, cur[w])
  /\ IF Owns(w) THEN UNCHANGED interrupted ELSE Count(interrupted, cur[w])
  /\ UNCHANGED <<cur, left, open, stopping, stray, rows, lock, operators, faults>>

\* Mutant: published without mandatory, an unroutable message is confirmed.
BrokerDrops(w) ==
  /\ wpc[w] = "sent"
  /\ Goto(w, "confirmed")
  /\ UNCHANGED <<cur, left, open, stopping, rows, lock, operators, broker, faults>>

\* The broker refuses it (nack) or returns it as unroutable (mandatory).
BrokerRefuse(w) ==
  /\ wpc[w] = "sent"
  /\ Goto(w, "failed")
  /\ UNCHANGED <<cur, left, open, stopping, rows, lock, operators, broker, faults>>

\* A message whose sender has gone reaches the broker at last.
BrokerAcceptStray(e) ==
  /\ stray[e] > 0
  /\ stray' = [stray EXCEPT ![e] = @ - 1]
  /\ Count(queue, e)
  /\ UNCHANGED <<interrupted, rows, lock, workers, operators, faults>>

-----------------------------------------------------------------------------
(* Disturbances *)

\* What becomes of a message in flight when its sender goes away.
AbandonPublish(w) ==
  \/ /\ wpc[w] = "sent"                  \* it may still reach the broker ...
     /\ Count(stray, cur[w])
     /\ Count(interrupted, cur[w])
     /\ UNCHANGED queue
  \/ /\ wpc[w] \notin Delivered          \* ... or be lost with the connection
     /\ UNCHANGED broker
  \/ /\ wpc[w] \in Delivered
     /\ IF Owns(w) THEN Count(interrupted, cur[w]) ELSE UNCHANGED interrupted
     /\ UNCHANGED <<queue, stray>>

\* The broker connection or channel closes.  A publish call waiting for its
\* confirmation raises; elsewhere the worker finds out at its next is_ready().
ConnectionLost(w) ==
  /\ open[w]
  /\ Disturb
  /\ open' = [open EXCEPT ![w] = FALSE]
  /\ IF wpc[w] \in {"sent", "accepted"}
     THEN Goto(w, "failed") /\ AbandonPublish(w)
     ELSE UNCHANGED <<wpc, broker>>
  /\ UNCHANGED <<cur, left, stopping, rows, lock, operators>>

\* PostgreSQL drops the worker's session: the transaction is rolled back and
\* the row is unlocked while the worker goes on without knowing.
SessionLost(w) ==
  /\ wpc[w] \in Holding
  /\ Owns(w)
  /\ Disturb
  /\ Release(w)
  /\ IF wpc[w] \in Delivered THEN Count(interrupted, cur[w])
                             ELSE UNCHANGED interrupted
  /\ UNCHANGED <<queue, stray, rows, workers, operators>>

\* The worker process is killed.
Crash(w) ==
  /\ wpc[w] # "stopped"
  /\ Disturb
  /\ AbandonPublish(w)
  /\ Release(w)
  /\ Exit(w)
  /\ UNCHANGED <<rows, operators>>

\* SIGINT or SIGTERM sets stop_event.
RequestStop(w) ==
  /\ wpc[w] # "stopped"
  /\ ~stopping[w]
  /\ Disturb
  /\ stopping' = [stopping EXCEPT ![w] = TRUE]
  /\ UNCHANGED <<wpc, cur, left, open, rows, lock, operators, broker>>

-----------------------------------------------------------------------------
(* The requeue command *)

Exhausted(e) ==
  /\ status[e] # "absent"
  /\ ~published[e]
  /\ attempts[e] >= MaxAttempts

\* get() reads without locking; other rows are reported as not requeueable,
\* which changes nothing.
RequeueGet(o, e) ==
  /\ opc[o] = "idle"
  /\ Exhausted(e)
  /\ opc' = [opc EXCEPT ![o] = "checked"]
  /\ target' = [target EXCEPT ![o] = e]
  /\ UNCHANGED <<rows, lock, workers, broker, faults>>

Leave(o) ==
  /\ opc' = [opc EXCEPT ![o] = "idle"]
  /\ target' = [target EXCEPT ![o] = None]

\* Mutant: the UPDATE trusts the earlier read, WHERE id = event_id.
RequeueUpdateUnchecked(o) ==
  /\ opc[o] = "checked"
  /\ lock[target[o]] = None
  /\ lock' = [lock EXCEPT ![target[o]] = o]
  /\ opc' = [opc EXCEPT ![o] = "updated"]
  /\ UNCHANGED <<target, rows, workers, broker, faults>>

\* The conditional UPDATE of requeue_exhausted waits for the row's lock and
\* evaluates its WHERE clause again on the row it then finds; no row is the
\* "changed during requeue" error.  The new values are visible at the commit.
RequeueUpdate(o) ==
  /\ opc[o] = "checked"
  /\ lock[target[o]] = None
  /\ IF Exhausted(target[o])
     THEN /\ lock' = [lock EXCEPT ![target[o]] = o]
          /\ opc' = [opc EXCEPT ![o] = "updated"]
          /\ UNCHANGED target
     ELSE Leave(o) /\ UNCHANGED lock
  /\ UNCHANGED <<rows, workers, broker, faults>>

\* attempts = 0, next_attempt_at = NULL
RequeueCommit(o) ==
  /\ opc[o] = "updated"
  /\ attempts' = [attempts EXCEPT ![target[o]] = 0]
  /\ cooling' = [cooling EXCEPT ![target[o]] = FALSE]
  /\ Release(o)
  /\ Leave(o)
  /\ UNCHANGED <<status, published, workers, broker, faults>>

\* lock_timeout, a lost session, a failed commit or a killed command.
RequeueFails(o) ==
  /\ opc[o] \in {"checked", "updated"}
  /\ Release(o)
  /\ Leave(o)
  /\ UNCHANGED <<rows, workers, broker, faults>>

-----------------------------------------------------------------------------
WorkerStep(w) ==
  \/ Poll(w) \/ CheckReady(w) \/ Pick(w) \/ PickNothing(w)
  \/ Send(w) \/ Confirm(w) \/ CommitPublished(w)
  \/ RecordFailure(w) \/ CommitFails(w) \/ Wake(w)

BrokerAnswers(w) == BrokerAccept(w) \/ BrokerRefuse(w)

Disturbance(w) ==
  \/ CommitPublishedUnseen(w) \/ RecordFailureUnseen(w)
  \/ ConnectionLost(w) \/ SessionLost(w) \/ Crash(w) \/ RequestStop(w)

RequeueStep(o) ==
  \/ \E e \in Events : RequeueGet(o, e)
  \/ RequeueUpdate(o) \/ RequeueCommit(o) \/ RequeueFails(o)

EventStep(e) == Register(e) \/ BackoffElapses(e) \/ BrokerAcceptStray(e)

Next ==
  \/ \E e \in Events : EventStep(e)
  \/ \E w \in Workers :
       StartWorker(w) \/ WorkerStep(w) \/ BrokerAnswers(w) \/ Disturbance(w)
  \/ \E o \in Operators : RequeueStep(o)

Spec == Init /\ [][Next]_vars

\* A running worker keeps running, an exited one is restarted by its operator,
\* the broker answers every publication one way or the other, and time passes.
\* Nothing obliges operators to requeue, the broker to accept, or faults to
\* happen.
Fairness ==
  /\ \A w \in Workers : /\ WF_vars(WorkerStep(w))
                        /\ WF_vars(BrokerAnswers(w))
                        /\ WF_vars(StartWorker(w))
  /\ \A e \in Events : WF_vars(BackoffElapses(e))

FairSpec == Spec /\ Fairness

-----------------------------------------------------------------------------
(* Properties *)

\* A document is shown as PUBLISHED only when the broker has taken its event:
\* the worker marks the event after basic_publish was confirmed, never before.
PublishedOnlyIfConfirmed ==
  \A e \in Events : status[e] = "PUBLISHED" => queue[e] > 0

\* While a transaction owns a row, the row is what the owner read: a worker's
\* event stays unpublished and below its attempt limit until the worker commits
\* (so mark_published never returns early), and a row being requeued stays
\* exhausted and unpublished.
OwnedRowIsAsRead ==
  \A e \in Events :
    /\ lock[e] \in Workers =>
         /\ cur[lock[e]] = e /\ wpc[lock[e]] \in Holding
         /\ ~published[e] /\ attempts[e] < MaxAttempts
    /\ lock[e] \in Operators =>
         /\ target[lock[e]] = e /\ opc[lock[e]] = "updated"
         /\ Exhausted(e)

\* The event is published, or the owner of its row is about to commit that.
Acknowledged(e) ==
  published[e] \/ \E w \in Workers : lock[e] = w /\ wpc[w] \in Delivered

\* The copies of an event are its one acknowledged (or about to be
\* acknowledged) publication and those whose acknowledgement was cut off
\* between the broker's acceptance and the commit.
DuplicatesAreInterruptions ==
  \A e \in Events :
    queue[e] + stray[e] <= interrupted[e] + (IF Acknowledged(e) THEN 1 ELSE 0)

\* At-least-once is exactly-once while nothing fails, and each fault costs at
\* most one duplicate, whatever the workers, refusals, retries and requeues.
EachFaultCostsOneCopy == \A e \in Events : queue[e] <= 1 + faults

\* What the processes believe and what the rows, the locks and the broker hold
\* agree: an event in hand is a registered one, a confirmed one is in the
\* queue, only a running requeue owns a row as an operator, and document and
\* event are published together.  With TypeOK, OwnedRowIsAsRead and
\* DuplicatesAreInterruptions it is inductive.
ActorsAndRowsAgree ==
  /\ \A w \in Workers :
       /\ wpc[w] \in Holding => cur[w] \in Events /\ status[cur[w]] # "absent"
       /\ wpc[w] \notin Holding => cur[w] = None
       /\ wpc[w] \in Holding \cup {"checking", "picking"} => left[w] > 0
       /\ wpc[w] \in Delivered => queue[cur[w]] > 0
  /\ \A o \in Operators :
       /\ opc[o] # "idle" => target[o] \in Events
       /\ opc[o] = "updated" => lock[target[o]] = o
  /\ \A e \in Events :
       /\ published[e] <=> status[e] = "PUBLISHED"
       /\ published[e] => queue[e] > 0
       /\ stray[e] > 0 => status[e] # "absent"
       /\ status[e] = "absent" => attempts[e] = 0

\* A published event is never unpublished, retried or requeued by anybody: its
\* row never changes again.
PublishedIsFinal ==
  [][\A e \in Events :
       published[e] => /\ published'[e]
                       /\ status'[e] = status[e]
                       /\ attempts'[e] = attempts[e]
                       /\ cooling'[e] = cooling[e]]_vars

\* Attempts never go back except when an exhausted, unpublished event is given
\* a new round, however stale the requeue command's read was.
OnlyExhaustedIsRequeued ==
  [][\A e \in Events :
       attempts'[e] < attempts[e] => /\ attempts[e] = MaxAttempts
                                     /\ ~published[e]
                                     /\ attempts'[e] = 0]_vars

(* The abstract specification *)

Phase ==
  [e \in Events |->
     IF status[e] = "absent" THEN "absent"
     ELSE IF published[e] THEN "acknowledged"
     ELSE IF attempts[e] < MaxAttempts THEN "pending"
     ELSE "parked"]

Delivery == INSTANCE OutboxDelivery WITH phase <- Phase, copies <- queue

\* Workers, locks, retries and faults implement at-least-once delivery.
ImplementsDelivery == Delivery!Spec

\* An accepted event is eventually published or exhausted: no crash, lost
\* connection, backoff, other worker's lock or failing older event forgets it.
EveryEventSettles == Delivery!Settles

\* A worker told to stop, or whose channel is closed, ends its process (for the
\* operator to restart) instead of polling on and charging attempts to events
\* it cannot publish.
DoomedWorkerExits ==
  \A w \in Workers :
    (stopping[w] \/ (wpc[w] # "stopped" /\ ~open[w])) ~> (wpc[w] = "stopped")
=============================================================================
