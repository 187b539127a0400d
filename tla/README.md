# A TLA+ model of DocPipe Ingestion

DocPipe Ingestion accepts a PDF, PNG or JPEG file over HTTP, keeps the file in
an object store, registers the document together with a `document.received.v1`
event in a relational database, and publishes that event to RabbitMQ from an
outbox.  This directory models the parts whose correctness depends on the order
of steps of several processes, on failures between two steps, or on how data is
cut into pieces; it checks them with TLC on small instances and proves the most
important properties with TLAPS for every instance.

Paths below are relative to `src/docpipe_ingestion/` unless they name a
directory of the repository such as `docs/`.

## 1. Inventory

| Part | State it keeps | Operations | Talks to |
|---|---|---|---|
| API process: `api/app.py`, `api/routes/`, `api/dependencies.py` | lazily created engine, storage client and use cases | `POST /v1/documents`, `GET /v1/documents/{id}`, `/metrics`, `/health/*` | storage, database |
| Body limit: `api/body_limit.py` | bytes received, last bytes seen, boundary found | one call per ASGI message | the HTTP server, the form parser |
| File validation: `application/file_validation.py` | temporary file, header, digest, size | `validate`, one replay, `close` | the form's file, the storage |
| Ingestion: `application/ingest_document.py` | nothing across requests | `execute`: validate, store, register | storage, then database |
| Azure storage: `infrastructure/storage/azure_blob.py` | blobs, `_uploads/` markers, uncommitted blocks | `store`, `list_keys`, `list_incomplete` | Azure Blob service through an SDK that retries |
| Local storage: `infrastructure/storage/local.py` | files, `.upload-*.part` files | the same three | file system |
| Database: `infrastructure/database/` | `documents` and `outbox_events` rows, row locks | repositories inside a unit of work | PostgreSQL (SQLite for development) |
| Outbox worker: `application/publish_outbox.py`, `outbox_worker.py` | position in the batch loop, stop flag | `run`, `process_batch` | database, RabbitMQ |
| RabbitMQ adapter: `infrastructure/messaging/rabbitmq.py` | connection, channel, sticky `_closed` | `publish`, `is_ready`, `close` | the broker |
| Requeue command: `application/requeue_outbox_event.py`, `requeue_event.py` | nothing | read, conditional update | database |
| Reconciliation: `application/reconciliation.py`, `reconcile_storage.py` | nothing | two listings, one query, a report | storage, database |
| Document query: `application/get_document.py`, `domain/models.py` | nothing | load a row, validate it | database |
| Telemetry: `infrastructure/observability/tracing.py` | shutdown deadline, drain thread | `shutdown` from several places | span exporter |
| Lifespan: `api/app.py` | nothing of its own | closes the provider, then shuts telemetry down | both, the server, the interpreter |
| Readiness: `infrastructure/health.py` | nothing | two probes under one deadline | storage, database |
| Laboratory: `experiments/lab.py` | containers, Locust's client, `timeline.jsonl`, `phase.json` | `run`, `recover`, `stop` | Docker Compose, Locust, the audit |
| Evidence: `experiments/audit.py`, `locustfile.py`, `summarize.py`, `collect.py` | `outcomes.jsonl`, `audit.json`, `audit-drained.json`, `snapshot.json` | record, audit, drain, summarize | database, storage, queue |

**How they interact.**  A request passes the body limit and the form parser;
`IngestDocument` validates a private copy of the file, stores it, and only then
inserts document and event in one transaction.  No call connects the API to the
worker: they share the database.  Workers select the oldest eligible event with
`FOR UPDATE SKIP LOCKED`, publish it inside that transaction, wait for the
broker's confirmation and mark event and document in the same transaction.  An
event whose attempts are used up stays until an operator runs the requeue
command.  The reconciliation command compares storage and database while all
this goes on and reports what has no counterpart.

**What is hard, and what makes each part correct.**

- *Outbox.*  Any number of workers, restarts, lost sessions, lost connections,
  commits of unknown fate, operators.  A published event was taken by the
  broker; it is never changed again; copies are explained by faults; no event
  is forgotten; a worker that cannot publish leaves.
- *Ingestion.*  Three services without a common transaction, and an SDK that
  repeats calls whose answer was lost.  A `202` is durable; a registered
  document has its whole file; what failed requests leave behind can be found.
- *Reconciliation.*  Reads two moving systems one after the other.  It never
  accuses a registered document and misses nothing that was settled before.
- *Times.*  A clock is read before the row it is compared with.  Retries are
  backed off however long a process pauses; dates stay in order.
- *Streams.*  Bodies, reads, chunks and blocks are cut independently of each
  other.  The outcome depends on the bytes alone.
- *API process.*  First requests arrive together, constructors fail.  One of
  each resource, none half built, none unclosed.
- *Telemetry.*  Several callers, an exporter that may hang.  Everybody returns
  within one timeout, and a loss is reported.
- *End of the API process.*  `close()` may raise before `shutdown()` is called,
  and then only `atexit` is left.  The process ends all the same, and its spans
  are drained or reported.
- *Local storage.*  Uploads, killed writers, power cuts and a listing on one
  directory.  Under a key there is nothing or one whole file, for ever the same;
  what was abandoned is listed.
- *Laboratory.*  Any docker call may fail, time out or be interrupted, each of
  which a different handler takes.  Nothing is left running unexplained, an
  outage is undone or reported, and the audit does not count while the load runs.
- *Evidence.*  Four systems are read one after the other while they move, and a
  drain removes what it reads.  No message is lost or counted twice, and nobody
  is accused who did what the report asks for.

## 2. Modules

| Module | Models | Runs |
|---|---|---|
| `OutboxDelivery` | abstract: what the outbox promises about each event | refined in `outbox_one_event`, proved in `OutboxProofs` |
| `Outbox` | workers, broker, rows and locks, requeue commands | `outbox_one_event`, `outbox_liveness` |
| `OutboxProofs` | theorems about `Outbox` | |
| `IngestionService` | abstract: what the service promises the client of each request | refined in `ingestion_safety`, proved in `IngestionProofs` |
| `Ingestion` | POST requests, storage, transaction, reconciliation | `ingestion_safety`, `reconcile_in_flight` |
| `IngestionProofs` | theorems about `Ingestion` | |
| `OutboxClock` | times of rows and workers, `GET` | `outbox_clock_spacing`, `outbox_clock_read` |
| `OutboxClockProofs` | theorems about `OutboxClock` | |
| `BodyLimit` | `limited_receive` | in `upload` |
| `FileStream` | `ValidatedFileStream` and `_blocks` | in `upload` |
| `Upload` | one request: `BodyLimit` hands its file to `FileStream` | `upload` |
| `UploadProofs` | theorems about `Upload` and `BodyLimit` | |
| `ServiceProvider` | `ApplicationServiceProvider`, `/metrics` | in `api_process` |
| `TelemetryShutdown` | `_BoundedTracerProvider` | in `api_process` |
| `ApiProcess` | the lifespan, which ends the provider and telemetry, and the interpreter | `api_process` |
| `ApiProcessProofs` | theorems about `ServiceProvider`, `TelemetryShutdown` and, from these, `ApiProcess` | |
| `DocumentStorage` | abstract: what the storage port promises about each key | refined in `local_storage`, proved in `LocalStorageProofs` |
| `LocalStorage` | `LocalDocumentStorage`, its writers and its listing | `local_storage` |
| `LocalStorageProofs` | theorems about `LocalStorage` | |
| `Laboratory` | `experiments/lab.py`: one run and the operator's commands | `laboratory`, `laboratory_interrupt` |
| `LaboratoryProofs` | theorems about `Laboratory` | |
| `LabAudit` | what a run leaves as evidence: `audit.py` beside the service | `lab_audit` |
| `LabAuditProofs` | theorems about `LabAudit` | |

`MC<module>` gives the constants of a module their values for TLC and, where
identities do not matter, the symmetry set.  Operators introduced by a comment
"Mutant:" are wrong variants of the definition that follows them; no
specification uses them.  They exist to see that each property can fail.

### Outbox

One event stands for its outbox row, its document row and its message; events
are numbered in the `(created_at, id)` order of `list_pending`.

| Variables | Code |
|---|---|
| `status`, `published`, `attempts`, `cooling` | committed columns `documents.status`, `outbox_events.published_at`, `attempts`, and whether `next_attempt_at` lies ahead |
| `lock` | the transaction that holds the row lock |
| `wpc`, `cur`, `left` | where a worker is in `run`/`process_batch`, its event, iterations left |
| `open`, `stopping` | connection and channel are open; `stop_event` is set |
| `opc`, `target` | where a requeue command is, and its event |
| `queue`, `stray` | copies the broker has; messages in flight whose sender gave up |
| `interrupted`, `faults` | auxiliary: copies whose commit was cut off; the disturbances so far |

A transaction's writes appear at its commit, which is when other processes can
see them; until then the row lock keeps everyone else away, so write and commit
are one action (`CommitPublished`, `RecordFailure`, `RequeueCommit`).  The
`...Unseen` variants are commits that are applied although the caller sees an
error.  `SessionLost` releases the lock while the worker goes on; its later
statement fails (`CommitFails`).  `ConnectionLost` makes a waiting
`basic_publish` raise and leaves its message in doubt: lost, or still to come.
`RequeueUpdate` waits for the lock and evaluates the `WHERE` clause again on the
row it then finds, which is what PostgreSQL does under READ COMMITTED.

`cooling` ends at any time (`BackoffElapses`), for all workers at once: the
module does not know how long a backoff is.  `OutboxClock` does.

### Ingestion

A request is the sequence marker, blocks, block list, delete marker,
transaction.  Every Azure call may succeed, be refused, or get no answer; then
the SDK repeats it up to `RetryTotal` times, and the lost call stays in `late`
if it may still take effect, even after the client was answered
(`CallLost`, `LateCall`).  A refused repetition (the block list is already
there, the marker is already gone) is a storage error although the first try
worked (`CallRefused`).  `StatusOf` is the table of the exception handlers, from
the error a request ends with to its answer.  `ApiKilled` ends all requests of
the process.

The reconciliation reads listings key by key (`ReadKey`, `ReadMarker`) between
steps of uploads, computes its cutoff first and reads the database last
(`Report`); `EndReconcile` prints the report or abandons the command.

`IngestionService` is what a client may rely on: one answer, a file that appears
whole or not at all, a registration after it, nothing undone, and nothing ever
for a refused request.  The refinement maps `file` to `blob` and `registered` to
`row`; markers, retries, late calls and the reconciliation are steps it does not
see.

### OutboxClock

The same events under one perfect clock, with processes that pause between any
two steps.  `ReadClock` is a step of its own because the code reads the clock
before it asks the database; `Claim`, `Publish` and `Fail` use that reading.
A worker's process may end anywhere (`GiveUp`), in its sleep too, and be started
again.  Five auxiliary variables remember an event's failures in real time:
when the last one was recorded and by which process, the readings the first and
the last used, and the sum of the delays.
`Loads` is the check of `Document.__post_init__` that `updated_at` does not
precede `created_at`, and `GetAnswer` what `GET` then answers.

### BodyLimit, FileStream, Upload

`BodyLimit` runs the code's incremental search (message, kept tail, overlap)
and keeps the whole body beside it as the reference.  `FileStream` counts bytes:
each step hands on what it read in order, so lengths tell a correct file from a
wrong one.  A read returns any number of bytes up to what was asked for.
`Upload` extends both: a body that was received as a complete form (`Hand`)
determines the file that `FileStream` then reads, so its size is a size that the
body's limit lets through, and a refused body never reaches the use case.

### ServiceProvider, TelemetryShutdown, ApiProcess

Steps are the assignments another thread can see: `_engine` before
`_session_factory`, `_storage` before `_ingest_document`; a storage client
exists (`made`) before its container check has passed and `_storage` holds it.
`/metrics` reads without the lock. A thread of `TelemetryShutdown` waits on the
event with a timeout; the clock does not pass the end of a wait before the wait
has ended.

`ApiProcess` is both under one `stage`.  While it is `running` the provider
serves; the lifespan then closes it, and if `close()` raises leaves without its
call of `shutdown()` (`CloseProvider`).  Any other thread may shut telemetry
down too (`OtherShutdown`).  Before it ends, the interpreter joins those threads
and calls what is still registered with `atexit` (`AtExitCallback`); the drain's
thread is a daemon and is not waited for (`End`).

### LocalStorage, DocumentStorage

`DocumentStorage` has one promise: a key is given one content at most, and the
caller is told of no more than what is there.  `LocalStorage` has the directory:
each call of `store()` goes through check, `mkstemp`, write, `fsync`, second
check and `os.replace`; a file's `data` is `"written"` until it is synced and
torn by a power cut until then.  Failures run the code's two `unlink`s, which
may fail; a killed writer runs neither.  `list_incomplete` reads the directory's
entries (`LookAt`) and then their age (`Stat`), while uploads go on: an entry
that was renamed in between ends the command with an error.  The refinement maps
a key to what a reader of its name gets (`Object`), so a torn file under a key
would be a step that `DocumentStorage` does not have.

### Laboratory

`pc` is the statement of `execute()` the controller is at and `frame` the `try`
it is in.  Every docker call may return an error (`RuntimeError`), run into its
timeout (`TimeoutExpired`, which no `except RuntimeError` takes) or be cut by
Ctrl+C or SIGTERM (`KeyboardInterrupt`, which no `except Exception` takes).
`Raises` is the one place that says which handler then runs.  `created` and
`running` are the project's containers; `load` is the client process of
`docker compose up locust`, which lives on its own and starts its container
whenever it likes.  `lost` records what a fault made a handler give up, so that
the properties can say that nothing else was given up.

### LabAudit

The service around an audit is reduced to what an audit can tell apart: an
upload is posted, stored, registered, published, marked and answered, in the
orders the service allows, and workers may be interrupted between the
confirmation and the commit.  `audit()` is one step per system it reads; the
drain is `basic_get`, look up, append, `basic_ack`, each a step, and may end
anywhere (`LoseAudit`) or refuse a message (`Refuse`), which puts the message in
its hand back.  Reports keep, as auxiliary fields, what clients had been told
and what had been removed when the audit began.  One audit runs at a time, which
the commands of the laboratory leave to their operator.

## 3. What the runs show

| Run | Instance | Shows |
|---|---|---|
| `outbox_one_event` | 2 workers, 2 operators, 1 event, 2 attempts, 2 faults | `PublishedOnlyIfConfirmed`, `OwnedRowIsAsRead`, `ActorsAndRowsAgree`, `DuplicatesAreInterruptions`, `PublishedIsFinal`, `OnlyExhaustedIsRequeued`; the outbox implements `OutboxDelivery`; a worker without channel, or told to stop, exits |
| `outbox_liveness` | 2 workers, 2 events, batches of 2, 1 fault, no requeue | every event is published or exhausted, also behind a failing older one; a fault costs at most one copy when workers choose between events |
| `ingestion_safety` | 2 requests of 2 blocks, 1 retry, 2 faults, reconciliation | `AcknowledgedIsDurable`, `RegisteredIsWhole`, `RefusedLeavesNothing`, `LeftoversAreReported`, `RegisteredIsNoOrphan`; requests implement `IngestionService` |
| `reconcile_in_flight` | 1 request, no fault | **fails**: see below |
| `outbox_clock_spacing` | 2 workers, 1 event, 3 attempts, capped delay, 6 ticks | how soon a failed event is tried again: never before its delay by the process that failed it, by others at most the failed attempt's own time too soon, and these losses do not add up |
| `outbox_clock_read` | 1 worker, 1 event, 1 tick | **fails**: see below |
| `upload` | every body of up to 8 bytes over 2 letters in messages of up to 3; files up to 5 around a limit of 4, chunks of 2, blocks of 1, 2, 3 | the flag says exactly whether the boundary was received; verdicts are justified; the file's decision depends on the file, the blocks are the file, and every file is decided on |
| `api_process` | 2 uploads, 1 query, 1 scrape, 2 failing constructors; 3 callers of `shutdown`, timeout 2 | complete services, nothing unclosed but clients whose container was refused, no request left behind; one deadline, one report; spans settled at the end, and an end |
| `local_storage` | 2 keys, 2 temporary names, 1 power cut | the adapter implements `DocumentStorage`; a listing that succeeds misses nothing abandoned |
| `laboratory` | 6 scenarios, 2 load steps, 2 faults anywhere, 1 command afterwards | the audit begins after the load; what is left running is explained by the evidence; outages are undone or reported; the recovery has a fresh worker; every run ends |
| `laboratory_interrupt` | 1 scenario, 1 interrupt | **fails**: see below |
| `lab_audit` | 2 uploads, 1 foreign message, 2 copies, 1 fault, 2 audits | messages are conserved; a drained report is saved with every removed copy and all that was published; nobody accepted before the audit is accused |

**Three disagreements.**

1. `outbox_clock_read`.  `process_batch` reads its clock
   (`application/publish_outbox.py:76`) before `list_pending`, and uses the
   reading as `published_at` and `updated_at`.  If the API stamps and commits a
   document between the two, the worker finds the event and, one confirmation
   later, writes an `updated_at` that precedes `created_at`.  From then on
   `Document.__post_init__` (`domain/models.py:111`) rejects the row and
   `GET /v1/documents/{id}` answers `503` for a document that exists;
   `docs/REQUIREMENTS.md:122` promises `200`.  The clocks are perfect in this
   run; a worker host whose clock is behind widens the window.
2. `reconcile_in_flight`.  A key without a row is reported as an orphan, without
   any age limit (`application/reconciliation.py:41`), so an upload between its
   block list and its commit is reported although its transaction has not
   failed, and is registered afterwards.  `docs/DESIGN.md:84-85` describes
   orphans as files whose transaction failed, and the docstring at
   `application/reconciliation.py:21` as files that need an operator's action.
   An operator who deletes from the report has to look at the age of each blob.

3. `laboratory_interrupt`.  The cleanup of `execute()` stands in a `finally`
   whose handler is `except Exception` (`experiments/lab.py:955`), and an
   interrupt is none.  If Ctrl+C or SIGTERM arrives while `_stop_locust`, `_logs`
   or `_stop_all` runs, for example because the operator presses it a second
   time or at the very end of a complete run, the controller ends with its
   containers running and no event in the timeline.  `docs/EXPERIMENTS.md:221`
   says that it stops them.  `stop RUN_ID` still does.

**Things the model makes visible that are not errors.**  A client may be told
`503` for an upload that is complete: the commit was applied unseen (then it is
registered too), or a repetition of an applied call was refused (then its file
is an orphan).  While the storage is away, each upload creates a client whose
container check fails and forgets it without `close()`
(`infrastructure/composition.py:15-16`); `NothingEscapesClose` says that nothing
else escapes.  `EveryEventSettles` does not promise publication; and an
operator who requeues an older failing event for ever, with no pause, can keep
the batch loop busy with it, so that younger events wait: `outbox_liveness`
therefore has no operator.  In the laboratory a docker call that fails while a
container is looked up counts as "absent" (`experiments/lab.py:863`), and a log
collection that times out skips the stop (`experiments/lab.py:877`);
`LeftRunningIsExplained` names both.  `RestoredOrReported` begins with the event
`service_stopped`: a stop that took effect and was interrupted before its event
is not owed a restore.  A second drain of one run replaces the
report of the first (`experiments/lab.py:846`): it accounts for all events only
together with what was removed before, which is why `PublishedIsAudited` has the
term `earlier`; a drain that fails half way keeps no list of what it took, and
only the term remembers it.  The backoff of a retry counts from the reading the
failed attempt began with (`application/publish_outbox.py:76`, `:115`), not from
its failure.  If the attempt took longer than the delay, because the broker let
it wait or the process paused, another worker can try the event again at once.
The worker that failed cannot, since it sleeps the whole delay, so with the one
worker of `docker-compose.yml` the distance is lost only when that worker ends
and is started again.  `AttemptsAreSpaced` states this loss and its limit.

### Bounds

- *Two workers* are enough for every race over one row: one holds it or lost it,
  the other takes it.  A third adds no new pair of positions for one row.
- *Two attempts* give each event one failure that is retried and one that
  exhausts it; `attempts = MaxAttempts - 1` and `MaxAttempts` both occur.
- *Two faults* let a fault hit the recovery from another: a lost session and
  then a killed worker, an unseen commit and then a lost connection.
- *Two events* are the least for head-of-line effects, and batches of two make
  the loop go on within a batch.
- *Two requests* with two blocks give a first and a last block, and a listing
  that passes one key before and one after a change.
- `MaxTime` and the file lengths are bounds on data; they are chosen so that the
  delay is capped within the run, the limit is reached and passed by one, and
  chunks both contain several blocks and are contained in one.

- *Two keys and two temporary names* let a key be tried again after a failure
  and two uploads compete with the listing; one power cut hits any position.
- *Two faults* of a laboratory run let the second hit the handler of the first,
  and the third kind of trouble, a killed controller, needs none.  The scenarios
  are one per branch of the code: `azurite` and `api` differ from `worker` and
  `rabbitmq` in no guard but `_restore`'s, `smoke` is `progressive` with one step.
- *Two audits* make a second drain find what a first one has left, and a report
  without drain be older than one with; *two copies* are an event and its repeat.

Deadlock is checked for `Outbox` and `Ingestion`.  The other modules stop when
their work is done: the clock's bound, a stored file, an ended process, a run
and its commands, a directory whose keys are taken.

### Fairness

- `Outbox`: a running worker takes its next step; the broker answers a waiting
  publication one way or the other (pika's heartbeat and blocked-connection
  timeouts end a call that hears nothing); time passes, so backoffs end; a
  stopped worker is started again, which is the operator's duty
  (`docker-compose.yml` sets `restart: 'no'`, `docs/DESIGN.md` describes the
  restart).  No fairness makes a broker accept, an operator requeue or a fault
  happen.  `WorkerStep` is one action per worker: a worker is sequential, and at
  each position at most one of its steps is enabled.
- `Upload` (`UploadFairSpec`): a request's thread goes on reading and writing.
  Nothing obliges a client to send its body, so the promise begins with the file
  that was handed over.
- `ApiProcess` (`ProcessFairSpec`): a request's thread runs, the lock is granted
  to a thread that waits for it, callers of `shutdown()` run, time passes, and
  the lifespan, the server and the interpreter go on.  Nobody is obliged to stop
  the server, and `Drained` is not fair: the exporter may hang for ever.
- `Laboratory`: the controller takes its next step, since each of its waits has
  a deadline.  Neither Locust nor a container is obliged to do anything.

## 4. What is proved

`OutboxProofs` proves, for any sets of workers, operators and events and any
values of `MaxAttempts`, `BatchSize` and `MaxFaults`:

| Theorem | States |
|---|---|
| `TypeCorrect` | `Spec => []TypeOK` |
| `PublishedIsConfirmed` | `Spec => []PublishedOnlyIfConfirmed` |
| `OwnershipIsStable` | `Spec => []OwnedRowIsAsRead` |
| `ProcessesAgree` | `Spec => []ActorsAndRowsAgree` |
| `DuplicatesAreExplained` | `Spec => []DuplicatesAreInterruptions` |
| `FaultsBoundCopies` | `Spec => []EachFaultCostsOneCopy` |
| `PublishedEventsAreFinal` | `Spec => PublishedIsFinal` |
| `RequeueIsConditional` | `Spec => OnlyExhaustedIsRequeued` |
| `DoomedWorkersRunOut` | a worker to be stopped, or without a channel, only gets nearer to its end |
| `Refinement` | `Spec => ImplementsDelivery` |

Assumptions are those of `Outbox`: events are natural numbers, attempts and batch
sizes are positive, workers, operators and `None` are different things.

**Argument.**  `IndInv` is the conjunction `TypeOK`, `OwnedRowIsAsRead`,
`ActorsAndRowsAgree`, `DuplicatesAreInterruptions`.  None is inductive alone.
That a published event was confirmed needs to know that a worker past the
confirmation holds an event with a copy in the queue; that attempts stay within
their type needs to know that a locked row has attempts left; that the row is
what its owner read needs to know that no other process writes a locked row,
that is, how positions of processes and locks belong together; and the bound on
copies has to follow a copy from the broker's acceptance to the commit or to
the fault that cuts it off.  There is one lemma per conjunct (`TypeStep`,
`OwnStep`, `AgreeStep`, `DupStep`), each with one step per action.

`FaultsBoundCopies` needs to know that every interrupted copy has a fault of its
own.  A lost session is a fault long before the copy it may cost: the worker
goes on and may publish.  `CostInv` therefore counts, with `Cardinality`, the
workers that still hold an event they no longer own (`Orphans`): interrupted
copies and orphans together never exceed the faults.  A step keeps that account
in one of three ways (`AccountKeeps`, `AccountOrphans`, `AccountAccepts`).

The action properties and the refinement use one more invariant,
`PublishedIsCold`: a published event has no retry scheduled.  For the refinement
`Phase` maps the rows of an event to its abstract phase, and every action is
shown to be a step of one event or a stuttering step (`StepsAreDeliverySteps`);
`PhaseFollowsRows` says that actions which leave the rows alone leave the phases
alone.

`DoomedWorkersRunOut` is the part of `DoomedWorkerExits` that needs no fairness.
`BatchLeft` counts what a worker that was told to stop has before it, the rest of
its batch, and `LoopLeft` what one without a channel has, one round of the loop
from whatever place it lost it at.  Every step that moves such a worker makes
its count smaller, and the flag or the closed channel stays until the process
has ended.  The only two steps that could lengthen its way are guarded: a new
batch asks for the flag, and a batch's next event for the channel.

`IngestionProofs` proves, for any set of requests and any numbers of blocks,
retries and faults (assumption: a file has at least one block):

| Theorem | States |
|---|---|
| `TypeCorrect` | `Spec => []TypeOK` |
| `AcknowledgedUploadsAreDurable` | `Spec => []AcknowledgedIsDurable` |
| `RegisteredDocumentsAreWhole` | `Spec => []RegisteredIsWhole` |
| `BlobsAreWhole` | `Spec => []NoPartialBlob` |
| `RefusalsLeaveNothing` | `Spec => []RefusedLeavesNothing` |
| `ReportsAreComplete` | `Spec => []LeftoversAreReported` |
| `ReportsAreSound` | `Spec => RegisteredIsNoOrphan` |
| `RequestsAreBounded` | what moves a request uses up one of its tries |
| `Refinement` | `Spec => ImplementsService` |

**Argument.**  `CallsAndStoresAgree` says what a request's position, and every
call of it that may still arrive, say of the stores: a block list is only sent
complete, a transaction only when the blob is there, and neither is undone.
That a call "may still arrive" is the point: a late block list or transaction
of an answered request must find what its sender knew still true.
`RefusalsAreClean` adds that a request which has not begun, or was refused, has
touched nothing, which holds because an answer is a request's last step and no
failed call is answered with a refusal.
`ListingsAreFaithful` follows the reconciliation's sets: what it read is still
so at the end, because a blob never disappears and a settled request changes no
more (`SettledStays`).  These invariants were first checked by TLC on the
instance of `ingestion_safety`.
For the refinement, `EffectsAreSteps` shows once, for calls in time and late
ones alike, that an effect is a step of `IngestionService`; the other lemmas
treat the answers.
`TriesLeft` is a request's variant: the calls it may still begin, each worth one
more than the SDK's retries of the one before it (`CallsOutweighRetries`).  Late
calls, other requests and the reconciliation leave it alone.


`UploadProofs`, for any set of bytes, boundary, chunks and limits:

| Theorem | States |
|---|---|
| `BodyTypes` | `BodySpec => []BodyTypeOK` |
| `BoundaryIsSeen` | `BodySpec => []ClosedIffReceived` |
| `BodyVerdict` | `BodySpec => []VerdictIsJustified` |
| `FileDecision` | `UploadSpec => []DecisionDependsOnFile` |
| `FileTypes` | `UploadSpec => []FileTypeOK` |
| `FileIsStoredWhole` | `UploadSpec => []StoredIsTheFile` |
| `FilesAreBounded` | a step on a file brings it to a later stage or leaves less to read |
| `UploadImplementsBodyLimit` | `UploadSpec => BodySpec` |

**Argument.**  `BodyInv` says that the kept tail is the end of the body received
so far, as long as the overlap or as the body (`IsTail`).  The heart is a lemma
about sequences, `BoundaryIsNotMissed`: a boundary that lies in body and message
but not in the body alone ends in the message, so it begins within the last
`Len(Boundary) - 1` bytes of the body, which are the tail.  `TailIsKept` is the
slice that keeps it.  `FileInv` relates the bytes read and the verdict to the
file's size, whatever lengths the reads return.  `BlocksInv` relates the blocks
to what has been replayed: those staged are full, the buffer is shorter than a
block, and together they are what was read.  A chunk is cut by `DivisionByBlock`,
division with remainder; the flush adds the one block that may be short.
`Stage` and `Left` are a file's variant: an empty read ends a stage, and any other
one leaves less of it.

`ApiProcessProofs`, for any sets of uploads, queries and scrapes, any set of
callers of `shutdown()` and any timeout:

| Theorem | States |
|---|---|
| `ProviderTypes` | `Spec => []TypeOK` |
| `ServedAreComplete` | `Spec => []ServedIsComplete` |
| `ProviderClosesAll` | `Spec => []NothingEscapesClose` |
| `RequestsGetOn` | a step that serves brings one request nearer to its answer |
| `TelemetryTypes` | `TelemetrySpec => []TelemetryTypeOK` |
| `TelemetryDeadlineIsShared` | `TelemetrySpec => []DeadlineIsShared` |
| `TelemetryLossIsReported` | `TelemetrySpec => []LossIsReportedOnce` |
| `ProcessImplementsProvider` | `ProcessSpec => Spec` of `ServiceProvider` |
| `ProcessImplementsTelemetry` | `ProcessSpec => TelemetrySpec` |
| `ProcessServes` | `ProcessSpec => [](ServedIsComplete /\ NothingEscapesClose)` |
| `ProcessSettlesSpans` | `ProcessSpec => []SpansAreSettled` |

**Argument.**  `ProviderInv` adds to the types that a thread inside the critical
section holds the lock (`Exclusive`), what each attribute that is set says of
those before it (`Built`), and where every live engine and client is held
(`Accounted`): by an attribute, by the thread that is constructing it, or among
the refused.  `Distance` is a request's variant; with the fact that the owner of
the lock is inside it, nobody can keep the others waiting by going round.
`TelemetryInv` is that there is at most one first caller and that deadline and
drain are its work (`OneFirst`), that every wait ends at the one deadline
(`OneDeadline`), and that only the first caller warns (`WarnedByFirst`).
Each step of the process is a step or a stutter of each part, so the parts'
theorems carry over.  `SettledInv` follows the first caller to the process's
end: until telemetry is shut down the `atexit` callback is registered, and the
interpreter joins the callers before it ends.

`LocalStorageProofs`, for any keys, names and contents:

| Theorem | States |
|---|---|
| `LocalTypes` | `Spec => []TypeOK` |
| `LocalAbandonedIsListed` | `Spec => []AbandonedIsListed` |
| `LocalImplementsPort` | `Spec => ImplementsPort` |

**Argument.**  `LocalInv` has four parts besides the types.  `Owned`: a temporary
file belongs to one call at most and is never the file under a key.  `Whole`:
what stands under a key, or is about to be renamed to it, was written and
synced.  `Kept`: what a listing owes its reader (`due`) stays an old temporary
file that no running call will touch.  `Found`: that debt is always in the report
so far, among the entries to come, or in the entry whose age is being asked for.
For the refinement, `PortStore` and `PortPowerCut` map the steps; `Whole` makes a
power cut lose a name, never a part of a file.

`LabAuditProofs`, for any sets of events and foreign messages and any bounds:

| Theorem | States |
|---|---|
| `AuditTypes` | `Spec => []TypeOK` |
| `AuditLosesNothing` | `Spec => []NothingIsLost` |
| `DrainedReportIsSound` | `Spec => PublishedIsAudited` |
| `SummaryIsSound` | `Spec => []AcceptedIsPersisted` |

**Argument.**  The queue is a sequence, and `Count` the number of positions of a
message in it; `CountAppend`, `CountPrepend` and `CountTail` say what enqueueing,
requeueing and `basic_get` do to it.  Conservation then reads: every copy of a
message is in the queue, in a drain's hand, or was acknowledged by one.  A drain
ends on an empty queue with an empty hand, so every event its `SELECT` saw as
published was acknowledged, by it or by an earlier drain.  `Evidence` follows what each report
has read back to what clients had been told when the audit began, and keeps what
it has taken equal, copy by copy, to what has been removed since; the step that
saves the report finds both.

`OutboxClockProofs`, for any workers and events, any backoff, cap and clock:

| Theorem | States |
|---|---|
| `ClockTypes` | `Spec => []TypeOK` |
| `RetriesAreSpaced` | `Spec => AttemptsAreSpaced` |

**Argument.**  An attempt is only made on an event that is due, so what has to be
known is what the row's `next_attempt_at` means.  `Scheduled` says it: of an
unpublished event that has failed, the reading its last failure used plus the
delay of the attempts before it, and never earlier than the first reading plus
all delays.  The second half is inductive because a reading that claims an event
is not before the event's schedule, so each delay is added to one that already
holds the others.  A worker may pause for any time between claiming an event and
recording its failure; that the row still is what it claimed then is `Locked`
and `Alone`.  `Asleep` is about the process that failed: it sleeps until the
delay after its failure is over, and having woken it stays late, whatever other
event it fails next; only its end (`GiveUp`) frees it from that.
The delay doubles, and that a power of two
is a number is counted from the subsets of a finite set (`PowerOfTwo`), since
the prover knows nothing of exponentiation and its induction is out of reach.

`LaboratoryProofs`, for every scenario, any number of load steps, faults of any
kind and commands afterwards:

| Theorem | States |
|---|---|
| `LaboratoryTypes` | `Spec => []TypeOK` |
| `LoadEndsFirst` | `Spec => []LoadEndsBeforeAudit` |
| `LeftoversAreExplained` | `Spec => []LeftRunningIsExplained` |
| `OutageIsUndone` | `Spec => []RestoredOrReported` |
| `RecoveryMeasuresANewWorker` | `Spec => []RecoveryHasAFreshWorker` |
| `RunsAreBounded` | every statement of the controller makes `Remaining` smaller |

**Argument.**  A fault may hit any statement, and which handler follows depends on
the `try` it stands in: `Placed` gives every statement its frame, `Flows` the
scenarios that reach it.  `ClientIsHeld` follows the client of Locust: while it
may still add documents, the frame that will wait for it holds its handle, and
where no frame does there is no client, above all not at the audit.
`OutageKnown` follows a stopped service to the handler that restores it;
`Created` is why the restore finds it; for an outage of the worker it also needs
that database and broker stay up, since a worker without them ends.  `CleanedUp`
is what the last statement of the cleanup finds.  `LaboratoryInv`, their
conjunction with the properties, was first checked by TLC over all nine
scenarios with two faults.  `Remaining` is a variant: no handler leads back to a
statement before it, and each load step that begins is one less to come.

**Model-checked only.**

- Liveness: `EveryEventSettles`, `DoomedWorkerExits`, `EveryFileIsDecided`,
  `EveryRequestEnds`, `ProcessEnds`, `RunEnds`.  They rest on fairness and
  `ENABLED`, which the proof system does not support.  What it can show of them
  is shown: `DoomedWorkersRunOut`, `RequestsAreBounded`, `FilesAreBounded`,
  `RequestsGetOn` and `RunsAreBounded` say that none of these can go on for ever
  by taking steps; that none stands still is left to the runs.
- The three runs that fail: a counterexample needs no proof.

## 5. Not modelled

- *Calls that never return.*  Every call to a database, the storage or Docker is
  assumed to return or to fail in the end, as their configured timeouts have it.
  The interpreter of the API joins its executor's threads, so that a probe of the
  readiness check that never returned would keep `ProcessEnds` from holding.
- *Readiness*, *worker monitoring*, *outbox statistics*: stateless or read-only.
  The stale readiness flag during a backoff, and gauges that are set by two
  scrapes at once, are listed among the hazards.
- *SQLite mode*: no concurrent writers and no `SKIP LOCKED`; the deployed system
  uses PostgreSQL.
- *Two writers of one key*: a key is a fresh UUID, so `LocalStorage` has one call
  of `store()` per key at a time.
- *`500` for an unforeseen exception*: `StatusOf` counts it as `503`, a failure of
  the service and not of the file; no property tells the two apart.
- *File structure* (PDF, PNG, JPEG parsing), *payload schema*, *names*: one bit
  each where a decision depends on them.
- *Malformed requests, unknown routes*: answered before a use case runs.
- *Experiments*, beyond `Laboratory` and `LabAudit`: the thresholds of the
  measurement's guards (one bit), latencies and phases of records, the samples of
  the collector, recording of images and versions.
- *Settings, logging, metric definitions, HTTP schemas, migrations, CI*: no state
  that another component depends on.

## 6. Plan

Done, in this order: `OutboxDelivery`, `Outbox`, `OutboxProofs`; `Ingestion`,
`IngestionProofs`; `OutboxClock`; `BodyLimit`, `FileStream`, `Upload`,
`UploadProofs`; `ServiceProvider`, `TelemetryShutdown`, `ApiProcess` and their
proofs; `DocumentStorage`, `LocalStorage`, `LocalStorageProofs`; `Laboratory`;
`LabAudit`, `LabAuditProofs`; `IngestionService` and its refinement; the account
of faults in `OutboxProofs`; `LaboratoryProofs`, `OutboxClockProofs`, the blocks
in `UploadProofs`, and the variants of workers, requests, files and runs.

What would come next:

1. `Pipeline`: `IngestionService` and `OutboxDelivery` composed at the
   registration, so that a message in the broker implies a whole, registered
   file.  Both parts are proved to implement their abstract side.
2. The worker's life beyond its loop: the monitoring thread, the stale readiness
   flag, and the time between a signal and the exit, of which
   `DoomedWorkersRunOut` bounds the steps.
3. Variants for a writer of `LocalStorage`, the drain of `LabAudit` and the
   callers of `TelemetryShutdown`.

