------------------------------- MODULE LabAudit ------------------------------
(***************************************************************************)
(* What a laboratory run leaves as evidence.  Locust records what clients  *)
(* were told; audit.py reads the database, the container and the queue one *)
(* after the other, and may drain the queue, while the API still finishes  *)
(* uploads and the workers still publish.  Audits may fail anywhere.       *)
(***************************************************************************)
EXTENDS Naturals, Sequences, FiniteSets

CONSTANTS
  Uploads,    \* the POSTs of the run; each has one document and one event
  Foreign,    \* messages that are not of this run
  MaxCopies,  \* bound on publications of one event
  MaxFaults,  \* bound on interrupted workers and audits
  MaxAudits,  \* bound on audits
  None

ASSUME MessagesAssumption == Uploads \cap Foreign = {} /\ None \notin Uploads \cup Foreign
ASSUME BoundsAssumption == MaxCopies \in Nat /\ MaxFaults \in Nat /\ MaxAudits \in Nat

VARIABLES
  posted,      \* uploads Locust has sent,
  accepted,    \* and those whose 202 it has recorded
  stored,      \* uploads whose blob is in the container
  rows,        \* uploads registered: a document and its event
  sent,        \* events the broker has confirmed and their worker not yet marked
  marked,      \* events with published_at
  queue,       \* the run's queue
  copies,      \* auxiliary: how often each message was put into the queue
  (* the audit that is running *)
  pc,          \* "idle", "database", "objects", "queue", "get", "check", "ack"
               \* or "report"
  drain,       \* --drain
  found,       \* the report so far
  hand,        \* the unacknowledged message, or None
  (* what audits have done *)
  acked,       \* auxiliary: how often each message was removed
  saved,       \* audit.json (FALSE) and audit-drained.json (TRUE), or None
  audits, faults

service == <<posted, accepted, stored, rows, sent, marked, copies>>
vars == <<service, queue, pc, drain, found, hand, acked, saved, audits, faults>>

Messages == Uploads \cup Foreign
Count(s, m) == Cardinality({i \in DOMAIN s : s[i] = m})
OneIf(condition) == IF condition THEN 1 ELSE 0

\* documents and published are what the SELECT returned, eventIds what was
\* drained; before and earlier are auxiliary: what clients had been told, and
\* what had been removed, when the audit began.
Report == [documents : SUBSET Uploads, published : SUBSET Uploads,
           eventIds : Seq(Uploads),
           before : SUBSET Uploads, earlier : [Messages -> Nat]]

TypeOK ==
  /\ accepted \subseteq posted /\ posted \subseteq Uploads
  /\ rows \subseteq stored /\ stored \subseteq Uploads
  /\ marked \subseteq rows /\ sent \subseteq rows
  /\ queue \in Seq(Messages)
  /\ copies \in [Messages -> 0..MaxCopies]
  /\ pc \in {"idle", "database", "objects", "queue", "get", "check", "ack", "report"}
  /\ drain \in BOOLEAN
  /\ pc # "idle" => found \in Report
  /\ hand \in Messages \cup {None}
  /\ hand # None <=> pc \in {"check", "ack"}
  /\ acked \in [Messages -> Nat]
  /\ DOMAIN saved = BOOLEAN
  /\ \A d \in BOOLEAN : saved[d] # None => saved[d] \in Report
  /\ audits \in 0..MaxAudits /\ faults \in 0..MaxFaults

Init ==
  /\ posted = {} /\ accepted = {}
  /\ stored = {} /\ rows = {} /\ sent = {} /\ marked = {}
  /\ queue = <<>>
  /\ copies = [m \in Messages |-> 0]
  /\ pc = "idle" /\ drain = FALSE /\ found = None /\ hand = None
  /\ acked = [m \in Messages |-> 0]
  /\ saved = [d \in BOOLEAN |-> None]
  /\ audits = 0 /\ faults = 0

Fault == faults < MaxFaults /\ faults' = faults + 1

auditing == <<pc, drain, found, hand, acked, saved, audits>>

-----------------------------------------------------------------------------
(* The load: IngestionUser.upload_and_read, and the API behind it *)

\* It stops posting at any time, when its run is over or it is stopped.
Post(u) ==
  /\ u \notin posted
  /\ posted' = posted \cup {u}
  /\ UNCHANGED <<accepted, stored, rows, sent, marked, copies, queue, auditing, faults>>

\* Mutant: the answer is given when the file is stored, before the commit.
AcceptEarly(u) ==
  /\ u \in stored \ accepted
  /\ accepted' = accepted \cup {u}
  /\ UNCHANGED <<posted, stored, rows, sent, marked, copies, queue, auditing, faults>>

\* A 202 that honours the contract is recorded with its document id.  After a
\* timeout, an error or the end of the load nothing is: the POST may go on.
Accept(u) ==
  /\ u \in rows \ accepted
  /\ accepted' = accepted \cup {u}
  /\ UNCHANGED <<posted, stored, rows, sent, marked, copies, queue, auditing, faults>>

Store(u) ==
  /\ u \in posted \ stored
  /\ stored' = stored \cup {u}
  /\ UNCHANGED <<posted, accepted, rows, sent, marked, copies, queue, auditing, faults>>

Register(u) ==
  /\ u \in stored \ rows
  /\ rows' = rows \cup {u}
  /\ UNCHANGED <<posted, accepted, stored, sent, marked, copies, queue, auditing, faults>>

-----------------------------------------------------------------------------
(* The workers, and others who publish *)

Enqueue(m) ==
  /\ copies[m] < MaxCopies
  /\ queue' = Append(queue, m)
  /\ copies' = [copies EXCEPT ![m] = @ + 1]

Publish(u) ==
  /\ u \in rows \ (marked \cup sent)
  /\ Enqueue(u)
  /\ sent' = sent \cup {u}
  /\ UNCHANGED <<posted, accepted, stored, rows, marked, auditing, faults>>

\* Somebody else publishes into the queue of the run.
PublishForeign(f) ==
  /\ copies[f] = 0
  /\ Enqueue(f)
  /\ UNCHANGED <<posted, accepted, stored, rows, sent, marked, auditing, faults>>

Mark(u) ==
  /\ u \in sent
  /\ sent' = sent \ {u}
  /\ marked' = marked \cup {u}
  /\ UNCHANGED <<posted, accepted, stored, rows, copies, queue, auditing, faults>>

\* The worker ends, or its commit fails, after the confirmation.
Interrupt(u) ==
  /\ u \in sent /\ Fault
  /\ sent' = sent \ {u}
  /\ UNCHANGED <<posted, accepted, stored, rows, marked, copies, queue, auditing>>

-----------------------------------------------------------------------------
(* audit() *)

Goto(where) == pc' = where

\* An operator, or the end of the run, starts the one audit at a time.
StartAudit(draining) ==
  /\ pc = "idle" /\ audits < MaxAudits
  /\ audits' = audits + 1
  /\ drain' = draining
  /\ found' = [documents |-> {}, published |-> {}, eventIds |-> <<>>,
               before |-> accepted, earlier |-> acked]
  /\ Goto("database")
  /\ UNCHANGED <<service, queue, hand, acked, saved, faults>>

\* One SELECT joins the run's documents with their events.
ReadDatabase ==
  /\ pc = "database"
  /\ found' = [found EXCEPT !.documents = rows, !.published = marked]
  /\ Goto("objects")
  /\ UNCHANGED <<service, queue, drain, hand, acked, saved, audits, faults>>

\* Every document's blob is read, and a missing one raises; then the container
\* is listed.
ReadObjects ==
  /\ pc = "objects"
  /\ found.documents \subseteq stored
  /\ Goto("queue")
  /\ UNCHANGED <<service, queue, drain, found, hand, acked, saved, audits, faults>>

\* queue_declare(passive=True)
CountQueue ==
  /\ pc = "queue"
  /\ Goto(IF drain THEN "get" ELSE "report")
  /\ UNCHANGED <<service, queue, drain, found, hand, acked, saved, audits, faults>>

\* basic_get(auto_ack=False)
Get ==
  /\ pc = "get"
  /\ IF queue = <<>>
     THEN Goto("report") /\ UNCHANGED <<queue, hand>>
     ELSE /\ hand' = Head(queue)
          /\ queue' = Tail(queue)
          /\ Goto("check")
  /\ UNCHANGED <<service, drain, found, acked, saved, audits, faults>>

Known == hand \in found.documents

\* Mutant: an id the report has already is not added again.
TakeOnce ==
  /\ pc = "check" /\ Known
  /\ found' = IF \E i \in DOMAIN found.eventIds : found.eventIds[i] = hand
              THEN found
              ELSE [found EXCEPT !.eventIds = Append(@, hand)]
  /\ Goto("ack")
  /\ UNCHANGED <<service, queue, drain, hand, acked, saved, audits, faults>>

Take ==
  /\ pc = "check" /\ Known
  /\ found' = [found EXCEPT !.eventIds = Append(@, hand)]
  /\ Goto("ack")
  /\ UNCHANGED <<service, queue, drain, hand, acked, saved, audits, faults>>

\* Without a report the audit ends; its message returns to where it was.
Abandon ==
  /\ queue' = IF hand = None THEN queue ELSE <<hand>> \o queue
  /\ hand' = None /\ found' = None
  /\ Goto("idle")
  /\ UNCHANGED <<service, drain, acked, saved, audits>>

\* Mutant: basic_nack(requeue=False).
RefuseForGood ==
  /\ pc = "check" /\ ~Known
  /\ hand' = None /\ found' = None
  /\ Goto("idle")
  /\ UNCHANGED <<service, queue, drain, acked, saved, audits, faults>>

\* basic_nack(requeue=True), raise: it is not of this run, or was registered
\* after the SELECT.
Refuse == pc = "check" /\ ~Known /\ Abandon /\ UNCHANGED faults

\* The broker has the acknowledgement.
Acknowledge ==
  /\ pc = "ack"
  /\ acked' = [acked EXCEPT ![hand] = @ + 1]
  /\ hand' = None
  /\ Goto("get")
  /\ UNCHANGED <<service, queue, drain, found, saved, audits, faults>>

\* A service is away, a connection breaks, the 300 seconds are over.
LoseAudit == pc # "idle" /\ Fault /\ Abandon

\* _save: an earlier report of the same kind is replaced.
SaveReport ==
  /\ pc = "report"
  /\ saved' = [saved EXCEPT ![drain] = found]
  /\ found' = None
  /\ Goto("idle")
  /\ UNCHANGED <<service, queue, drain, hand, acked, audits, faults>>

Next ==
  \/ \E u \in Uploads : Post(u) \/ Accept(u) \/ Store(u) \/ Register(u)
  \/ \E u \in Uploads : Publish(u) \/ Mark(u) \/ Interrupt(u)
  \/ \E f \in Foreign : PublishForeign(f)
  \/ \E draining \in BOOLEAN : StartAudit(draining)
  \/ ReadDatabase \/ ReadObjects \/ CountQueue \/ Get \/ Take \/ Refuse
  \/ Acknowledge \/ LoseAudit \/ SaveReport

Spec == Init /\ [][Next]_vars

-----------------------------------------------------------------------------
(* Properties *)

\* Every publication is in the queue, in the hand of a drain or was removed by
\* one, and a message of another run is never removed: no refused message, lost
\* connection or failing drain loses one or multiplies it.
NothingIsLost ==
  /\ \A m \in Messages : Count(queue, m) + OneIf(hand = m) + acked[m] = copies[m]
  /\ \A f \in Foreign : acked[f] = 0

\* When audit-drained.json is saved it accounts for every removal: what its drain
\* took and earlier drains had taken, failed ones too, is what was ever removed,
\* copy by copy (so duplicate_event_ids counts them all); and it or they had taken
\* whatever its SELECT saw as published, though workers publish while it reads.
PublishedIsAudited ==
  [][saved'[TRUE] # saved[TRUE] =>
       \A u \in Uploads :
         /\ saved'[TRUE].earlier[u] + Count(saved'[TRUE].eventIds, u) = acked[u]
         /\ u \in saved'[TRUE].published => acked[u] > 0]_vars

\* summarize(): what is accepted is read anew, audit.json may be old.
AcceptedWithoutDocument == accepted \ saved[FALSE].documents

\* accepted_without_persisted_document accuses no upload whose client had been
\* told before the audit began, so none at all once the load has ended.
AcceptedIsPersisted ==
  saved[FALSE] # None => AcceptedWithoutDocument \cap saved[FALSE].before = {}
=============================================================================
