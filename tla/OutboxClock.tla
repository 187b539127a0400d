----------------------------- MODULE OutboxClock ----------------------------
(***************************************************************************)
(* The times the outbox writes and compares, under one perfect clock.  The *)
(* API stamps a document and its event before their transaction commits; a *)
(* worker reads its clock before it asks the database for an event, and    *)
(* uses that one reading to select the event, to schedule its retry and to *)
(* date its publication.  Documents are read back with GET.                *)
(*                                                                         *)
(* Outbox abstracts all of this to a flag that a retry is not due; here    *)
(* rows have their times and processes may pause, or end, between any two  *)
(* steps.  The requeue command is left out: it starts an event afresh.     *)
(***************************************************************************)
EXTENDS Naturals

CONSTANTS
  Workers,
  Events,        \* events and their documents
  MaxAttempts,   \* settings.outbox_max_attempts
  Backoff,       \* settings.outbox_backoff_seconds
  MaxDelay,      \* the cap of the delay, 60 seconds in the code
  MaxTime,       \* bound on the clock
  None

ASSUME NumbersAssumption ==
  /\ MaxAttempts \in Nat \ {0} /\ Backoff \in Nat \ {0}
  /\ MaxDelay \in Nat /\ MaxTime \in Nat
ASSUME NoneAssumption ==
  None \notin Workers /\ None \notin Events /\ None \notin Nat

VARIABLES
  clock,
  visible,       \* the ingestion transaction is committed
  created,       \* created_at, and updated_at until the publication
  updated,       \* documents.updated_at
  published,     \* published_at
  attempts,
  nextAttempt,   \* next_attempt_at
  wpc,           \* where the worker is in process_batch()
  now,           \* its reading of the clock
  cur,           \* the event it has locked
  wake,          \* when its self._sleep(delay) ends
  (* auxiliary: what is known of an event's recorded failures *)
  firstTry,      \* the reading the first one used
  lastTry,       \* the reading the last one used
  failedAt,      \* when it was recorded,
  failedBy,      \* by which worker, or None when that process has ended
  waited         \* the delays of all of them together

rows == <<visible, created, updated, published, attempts, nextAttempt>>
failures == <<firstTry, lastTry, failedAt, failedBy, waited>>
vars == <<clock, rows, wpc, now, cur, wake, failures>>

Time == 0..MaxTime

\* delay = min(backoff_seconds * 2**attempts, 60.0)
Delay(n) == LET doubled == Backoff * 2^n
            IN  IF doubled < MaxDelay THEN doubled ELSE MaxDelay

TypeOK ==
  /\ clock \in Time
  /\ visible \in [Events -> BOOLEAN]
  /\ created \in [Events -> Time \cup {None}]
  /\ updated \in [Events -> Time \cup {None}]
  /\ published \in [Events -> Time \cup {None}]
  /\ attempts \in [Events -> 0..MaxAttempts]
  /\ nextAttempt \in [Events -> 0..(MaxTime + MaxDelay) \cup {None}]
  /\ wpc \in [Workers -> {"idle", "read", "locked", "sleeping"}]
  /\ now \in [Workers -> Time]
  /\ cur \in [Workers -> Events \cup {None}]
  /\ wake \in [Workers -> 0..(MaxTime + MaxDelay)]
  /\ firstTry \in [Events -> Time \cup {None}]
  /\ lastTry \in [Events -> Time \cup {None}]
  /\ failedAt \in [Events -> Time \cup {None}]
  /\ failedBy \in [Events -> Workers \cup {None}]
  /\ waited \in [Events -> Nat]

Init ==
  /\ clock = 0
  /\ visible = [e \in Events |-> FALSE]
  /\ created = [e \in Events |-> None]
  /\ updated = [e \in Events |-> None]
  /\ published = [e \in Events |-> None]
  /\ attempts = [e \in Events |-> 0]
  /\ nextAttempt = [e \in Events |-> None]
  /\ wpc = [w \in Workers |-> "idle"]
  /\ now = [w \in Workers |-> 0]
  /\ cur = [w \in Workers |-> None]
  /\ wake = [w \in Workers |-> 0]
  /\ firstTry = [e \in Events |-> None]
  /\ lastTry = [e \in Events |-> None]
  /\ failedAt = [e \in Events |-> None]
  /\ failedBy = [e \in Events |-> None]
  /\ waited = [e \in Events |-> 0]

Tick ==
  /\ clock < MaxTime
  /\ clock' = clock + 1
  /\ UNCHANGED <<rows, wpc, now, cur, wake, failures>>

\* occurred_at = self._clock(), for the document and its event
Stamp(e) ==
  /\ created[e] = None
  /\ created' = [created EXCEPT ![e] = clock]
  /\ updated' = [updated EXCEPT ![e] = clock]
  /\ UNCHANGED <<clock, visible, published, attempts, nextAttempt, wpc, now,
                 cur, wake, failures>>

\* the ingestion transaction
Register(e) ==
  /\ created[e] # None /\ ~visible[e]
  /\ visible' = [visible EXCEPT ![e] = TRUE]
  /\ UNCHANGED <<clock, created, updated, published, attempts, nextAttempt, wpc,
                 now, cur, wake, failures>>

\* now = self._clock()
ReadClock(w) ==
  /\ wpc[w] = "idle"
  /\ wpc' = [wpc EXCEPT ![w] = "read"]
  /\ now' = [now EXCEPT ![w] = clock]
  /\ UNCHANGED <<clock, rows, cur, wake, failures>>

\* The WHERE clause of list_pending(eligible_at=now).
Eligible(e, at) ==
  /\ visible[e] /\ published[e] = None /\ attempts[e] < MaxAttempts
  /\ nextAttempt[e] # None => nextAttempt[e] <= at

\* list_pending(limit=1, lock=True), oldest first and skipping locked rows.
Claim(w) ==
  LET candidates == {e \in Events : /\ Eligible(e, now[w])
                                    /\ \A v \in Workers : cur[v] # e}
  IN  /\ wpc[w] = "read"
      /\ IF candidates = {}
         THEN /\ wpc' = [wpc EXCEPT ![w] = "idle"]
              /\ UNCHANGED cur
         ELSE \E e \in candidates :
                /\ \A f \in candidates : created[e] <= created[f]
                /\ wpc' = [wpc EXCEPT ![w] = "locked"]
                /\ cur' = [cur EXCEPT ![w] = e]
      /\ UNCHANGED <<clock, rows, now, wake, failures>>

\* The publication is confirmed: mark_published(event.id, now) and commit.
Publish(w) ==
  /\ wpc[w] = "locked"
  /\ published' = [published EXCEPT ![cur[w]] = now[w]]
  /\ updated' = [updated EXCEPT ![cur[w]] = now[w]]
  /\ attempts' = [attempts EXCEPT ![cur[w]] = @ + 1]
  /\ nextAttempt' = [nextAttempt EXCEPT ![cur[w]] = None]
  /\ wpc' = [wpc EXCEPT ![w] = "idle"]
  /\ cur' = [cur EXCEPT ![w] = None]
  /\ UNCHANGED <<clock, visible, created, now, wake, failures>>

\* What is to be known of the failure worker w is recording.
Remember(w) ==
  /\ firstTry' = [firstTry EXCEPT ![cur[w]] = IF @ = None THEN now[w] ELSE @]
  /\ lastTry' = [lastTry EXCEPT ![cur[w]] = now[w]]
  /\ failedAt' = [failedAt EXCEPT ![cur[w]] = clock]
  /\ failedBy' = [failedBy EXCEPT ![cur[w]] = w]
  /\ waited' = [waited EXCEPT ![cur[w]] = @ + Delay(attempts[cur[w]])]

\* Mutant: the schedule forgets the delay, next_attempt_at = now.
FailUnscheduled(w) ==
  /\ wpc[w] = "locked"
  /\ nextAttempt' = [nextAttempt EXCEPT ![cur[w]] = now[w]]
  /\ wake' = [wake EXCEPT ![w] = clock + Delay(attempts[cur[w]])]
  /\ attempts' = [attempts EXCEPT ![cur[w]] = @ + 1]
  /\ wpc' = [wpc EXCEPT ![w] = "sleeping"]
  /\ cur' = [cur EXCEPT ![w] = None]
  /\ Remember(w)
  /\ UNCHANGED <<clock, visible, created, updated, published, now>>

\* The publication fails: record_failure(next_attempt_at = now + delay), commit,
\* self._sleep(delay).
Fail(w) ==
  /\ wpc[w] = "locked"
  /\ LET delay == Delay(attempts[cur[w]])
     IN  /\ nextAttempt' = [nextAttempt EXCEPT ![cur[w]] = now[w] + delay]
         /\ wake' = [wake EXCEPT ![w] = clock + delay]
  /\ attempts' = [attempts EXCEPT ![cur[w]] = @ + 1]
  /\ wpc' = [wpc EXCEPT ![w] = "sleeping"]
  /\ cur' = [cur EXCEPT ![w] = None]
  /\ Remember(w)
  /\ UNCHANGED <<clock, visible, created, updated, published, now>>

Wake(w) ==
  /\ wpc[w] = "sleeping" /\ wake[w] <= clock
  /\ wpc' = [wpc EXCEPT ![w] = "idle"]
  /\ UNCHANGED <<clock, rows, now, cur, wake, failures>>

\* The process ends, killed or by an error, and another is started in its place: an
\* open transaction leaves nothing, and nobody sleeps on.  A worker that finds its
\* channel closed when it has recorded a failure ends like this at once.
GiveUp(w) ==
  /\ wpc[w] # "idle"
  /\ wpc' = [wpc EXCEPT ![w] = "idle"]
  /\ cur' = [cur EXCEPT ![w] = None]
  /\ failedBy' = [e \in Events |-> IF failedBy[e] = w THEN None ELSE failedBy[e]]
  /\ UNCHANGED <<clock, rows, now, wake, firstTry, lastTry, failedAt, waited>>

Next ==
  \/ Tick
  \/ \E e \in Events : Stamp(e) \/ Register(e)
  \/ \E w \in Workers : \/ ReadClock(w) \/ Claim(w) \/ Publish(w) \/ Fail(w)
                        \/ Wake(w) \/ GiveUp(w)

Spec == Init /\ [][Next]_vars

-----------------------------------------------------------------------------
(* GET /v1/documents/{id} *)

\* Document.__post_init__ refuses a row whose updated_at precedes created_at.
Loads(e) == created[e] <= updated[e]

\* GetDocument.execute, with the database up.
GetAnswer(e) ==
  CASE ~visible[e] -> "404"
    [] visible[e] /\ Loads(e) -> "200"
    [] OTHER -> "503"

(* Properties *)

\* How soon a failed event is tried again.  The worker that failed leaves it alone
\* for the whole delay after it recorded the failure.  A worker beside it, or its
\* own process restarted, can be sooner: the delay counts from the reading the
\* failed attempt began with, so the time that attempt took is taken off.  Such
\* losses do not add up: after any number of slow attempts, an event has had all
\* of its delays since the reading its first attempt began with.
AttemptsAreSpaced ==
  [][\A w \in Workers, e \in Events :
       cur'[w] = e /\ cur[w] # e /\ attempts[e] > 0 =>
         LET due  == failedAt[e] + Delay(attempts[e] - 1)
             took == failedAt[e] - lastTry[e]
         IN  /\ failedBy[e] = w => clock >= due
             /\ clock + took >= due
             /\ clock >= firstTry[e] + waited[e]]_vars

\* docs/REQUIREMENTS.md, RF-007: an existing document is answered with 200.
ExistingDocumentIsFound == \A e \in Events : visible[e] => GetAnswer(e) = "200"
=============================================================================
