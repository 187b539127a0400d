------------------------------ MODULE Ingestion -----------------------------
(***************************************************************************)
(* POST /v1/documents from the validated file to the answer, and the       *)
(* reconciliation command that runs beside it.  A request uploads a marker,*)
(* stages its blocks, commits the block list and deletes the marker, each  *)
(* an Azure SDK call that retries on its own, and then registers document  *)
(* and event in one PostgreSQL transaction.  A call without a response may *)
(* have vanished or may still take effect, at once or long after its       *)
(* sender gave up, and the API process may be killed.                      *)
(*                                                                         *)
(* Document, storage key, upload attempt and event of a request carry      *)
(* fresh UUIDs, so one request identifies them all.                        *)
(***************************************************************************)
EXTENDS Naturals

CONSTANTS
  Requests,     \* POST requests
  BlockCount,   \* blocks a file is uploaded in
  RetryTotal,   \* settings.blob_retry_total, the SDK's own retries
  MaxFaults     \* bound on failed calls and crashes of one behaviour

ASSUME CountsAssumption ==
  BlockCount \in Nat \ {0} /\ RetryTotal \in Nat /\ MaxFaults \in Nat

VARIABLES
  pc,        \* where the request is
  answer,    \* the HTTP status given to the client
  retries,   \* SDK retries left in the current Azure call
  sent,      \* length of block_ids
  late,      \* calls given up on that may still take effect
  blob,      \* blocks of the committed blob, 0 when there is none
  marker,    \* the _uploads/ marker, "old" once past the incomplete-file age
  row,       \* document and outbox event are registered
  faults,
  (* the reconciliation command *)
  rpc,        \* where execute() is
  unread,     \* keys the running listing has not come to
  aged,       \* the markers older than the cutoff when it was computed
  keys,       \* stored_keys
  orphans, incomplete,   \* the report
  (* auxiliary: what was true when the command started *)
  settledBefore, rowsBefore

stores == <<blob, marker, row>>
requests == <<pc, answer, retries, sent>>
reconcile == <<rpc, unread, aged, keys, orphans, incomplete, settledBefore,
               rowsBefore>>
vars == <<requests, late, stores, faults, reconcile>>

AzureCalls == {"marking", "staging", "committing", "unmarking"}
Calls == AzureCalls \cup {"persisting"}
Ended(r) == pc[r] \in {"answered", "killed"}

\* Mutant: one handler answers every IngestionError as the client's fault.
StatusOfAny ==
  [InvalidFileMetadata |-> "400", EmptyFile |-> "400", FileTooLarge |-> "413",
   UnsupportedFileType |-> "415", InvalidFileStructure |-> "400",
   Storage |-> "400", MetadataPersistence |-> "400", MetadataQuery |-> "400"]

\* The exception handlers: the answer to each error a POST can end with.
StatusOf ==
  [InvalidFileMetadata |-> "400", EmptyFile |-> "400", FileTooLarge |-> "413",
   UnsupportedFileType |-> "415", InvalidFileStructure |-> "400",
   Storage |-> "503", MetadataPersistence |-> "503", MetadataQuery |-> "503"]

\* The errors that say the file is at fault, and the answers they are given.
FileErrors == {"InvalidFileMetadata", "EmptyFile", "FileTooLarge",
               "UnsupportedFileType", "InvalidFileStructure"}
Refusals == {"400", "413", "415"}

\* What a failure of the call is raised as.
ErrorOf(call) == IF call \in AzureCalls THEN "Storage" ELSE "MetadataPersistence"

\* The request has ended and nothing of it is still on its way.
Settled(r) == Ended(r) /\ late[r] = {}

TypeOK ==
  /\ pc \in [Requests -> Calls \cup {"waiting", "answered", "killed"}]
  /\ answer \in [Requests -> Refusals \cup {"none", "202", "503"}]
  /\ retries \in [Requests -> 0..RetryTotal]
  /\ sent \in [Requests -> 0..BlockCount]
  /\ late \in [Requests -> SUBSET Calls]
  /\ blob \in [Requests -> 0..BlockCount]
  /\ marker \in [Requests -> {"none", "fresh", "old"}]
  /\ row \in [Requests -> BOOLEAN]
  /\ faults \in 0..MaxFaults
  /\ rpc \in {"idle", "keys", "markers", "rows", "reported"}
  /\ unread \in SUBSET Requests /\ aged \in SUBSET Requests
  /\ keys \in SUBSET Requests /\ orphans \in SUBSET Requests
  /\ incomplete \in SUBSET Requests
  /\ settledBefore \in SUBSET Requests /\ rowsBefore \in SUBSET Requests

Init ==
  /\ pc = [r \in Requests |-> "waiting"]
  /\ answer = [r \in Requests |-> "none"]
  /\ retries = [r \in Requests |-> 0]
  /\ sent = [r \in Requests |-> 0]
  /\ late = [r \in Requests |-> {}]
  /\ blob = [r \in Requests |-> 0]
  /\ marker = [r \in Requests |-> "none"]
  /\ row = [r \in Requests |-> FALSE]
  /\ faults = 0
  /\ rpc = "idle"
  /\ unread = {} /\ aged = {} /\ keys = {} /\ orphans = {} /\ incomplete = {}
  /\ settledBefore = {} /\ rowsBefore = {}

Disturb == faults < MaxFaults /\ faults' = faults + 1

Answer(r, code) ==
  /\ pc' = [pc EXCEPT ![r] = "answered"]
  /\ answer' = [answer EXCEPT ![r] = code]

-----------------------------------------------------------------------------
(* The request up to the storage *)

\* sanitize_original_name or validate() refuses the file.
Reject(r) ==
  /\ pc[r] = "waiting"
  /\ \E error \in FileErrors : Answer(r, StatusOf[error])
  /\ UNCHANGED <<retries, sent, late, stores, faults, reconcile>>

\* The request's services cannot be created; nothing is written yet.
ServicesUnavailable(r) ==
  /\ pc[r] = "waiting"
  /\ Disturb
  /\ \E error \in {"Storage", "MetadataQuery"} : Answer(r, StatusOf[error])
  /\ UNCHANGED <<retries, sent, late, stores, reconcile>>

\* A fresh Azure call gets the SDK's full number of retries.
Enter(r, call) ==
  /\ pc' = [pc EXCEPT ![r] = call]
  /\ retries' = [retries EXCEPT ![r] = IF call \in AzureCalls THEN RetryTotal
                                                              ELSE 0]

\* The file is valid; store() begins.
Begin(r) ==
  /\ pc[r] = "waiting"
  /\ Enter(r, "marking")
  /\ UNCHANGED <<answer, sent, late, stores, faults, reconcile>>

-----------------------------------------------------------------------------
(* Calls to the storage and the database *)

\* What the service accepts: overwrite=False and if_none_match='*' refuse an
\* existing object, and a missing marker cannot be deleted.  Staging a block
\* again under its ID and a fresh transaction are always accepted.
Possible(r, call) ==
  /\ call = "marking"    => marker[r] = "none"
  /\ call = "committing" => blob[r] = 0
  /\ call = "unmarking"  => marker[r] # "none"

\* Mutant: a staged block is visible before the block list is committed.
ApplyVisibly(r, call) ==
  /\ marker' = [marker EXCEPT ![r] = IF call = "marking" THEN "fresh"
                                     ELSE IF call = "unmarking" THEN "none"
                                     ELSE @]
  /\ blob' = [blob EXCEPT ![r] =
                IF call \in {"staging", "committing"} THEN sent[r] ELSE @]
  /\ row' = [row EXCEPT ![r] = @ \/ call = "persisting"]

\* What the call does.  A staged block is not visible; committing the list
\* shows the blocks sent; the transaction writes document and event.
Apply(r, call) ==
  /\ marker' = [marker EXCEPT ![r] = IF call = "marking" THEN "fresh"
                                     ELSE IF call = "unmarking" THEN "none"
                                     ELSE @]
  /\ blob' = [blob EXCEPT ![r] = IF call = "committing" THEN sent[r] ELSE @]
  /\ row' = [row EXCEPT ![r] = @ \/ call = "persisting"]

\* Mutant: document and event are persisted before the file is stored.
AdvanceRowsFirst(r) ==
  \/ /\ pc[r] = "marking"
     /\ Enter(r, "persisting")
     /\ UNCHANGED <<sent, answer>>
  \/ /\ pc[r] = "persisting"
     /\ Answer(r, "202")
     /\ UNCHANGED <<sent, retries>>

\* The call returned: one block after the other, then the next kind of call,
\* and after the transaction's commit the 202.
Advance(r) ==
  \/ /\ pc[r] = "staging"
     /\ sent' = [sent EXCEPT ![r] = @ + 1]
     /\ Enter(r, IF sent'[r] < BlockCount THEN "staging" ELSE "committing")
     /\ UNCHANGED answer
  \/ \E step \in {<<"marking", "staging">>, <<"committing", "unmarking">>,
                  <<"unmarking", "persisting">>} :
       /\ pc[r] = step[1]
       /\ Enter(r, step[2])
       /\ UNCHANGED <<sent, answer>>
  \/ /\ pc[r] = "persisting"
     /\ Answer(r, "202")
     /\ UNCHANGED <<sent, retries>>

CallSucceeds(r) ==
  /\ pc[r] \in Calls
  /\ Possible(r, pc[r])
  /\ Apply(r, pc[r])
  /\ Advance(r)
  /\ UNCHANGED <<late, faults, reconcile>>

\* A refused repetition (object exists, marker not found) is a storage error,
\* although an earlier try of the same call took effect.
CallRefused(r) ==
  /\ pc[r] \in Calls
  /\ ~Possible(r, pc[r])
  /\ Answer(r, StatusOf[ErrorOf(pc[r])])
  /\ UNCHANGED <<retries, sent, late, stores, faults, reconcile>>

\* No response.  The SDK repeats an Azure call until its retries are used up;
\* then, and after a failed commit at once, the client gets the error.  The lost
\* call may have vanished or may yet take effect.
CallLost(r) ==
  /\ pc[r] \in Calls
  /\ Disturb
  /\ IF retries[r] > 0
     THEN /\ retries' = [retries EXCEPT ![r] = @ - 1]
          /\ UNCHANGED <<pc, answer>>
     ELSE Answer(r, StatusOf[ErrorOf(pc[r])]) /\ UNCHANGED retries
  /\ \E delayed \in {{}, {pc[r]}} : late' = [late EXCEPT ![r] = @ \cup delayed]
  /\ UNCHANGED <<sent, stores, reconcile>>

\* A lost call arrives: before its repetition, after it, or after the answer.
LateCall(r) ==
  \E call \in late[r] :
    /\ late' = [late EXCEPT ![r] = @ \ {call}]
    /\ IF Possible(r, call) THEN Apply(r, call) ELSE UNCHANGED stores
    /\ UNCHANGED <<requests, faults, reconcile>>

\* The API process is killed with every request it was serving, each perhaps
\* with a call on its way.
ApiKilled ==
  /\ \E r \in Requests : pc[r] \in Calls
  /\ Disturb
  /\ pc' = [r \in Requests |-> IF pc[r] \in Calls THEN "killed" ELSE pc[r]]
  /\ \E sending \in SUBSET {r \in Requests : pc[r] \in Calls} :
       late' = [r \in Requests |->
                  IF r \in sending THEN late[r] \cup {pc[r]} ELSE late[r]]
  /\ UNCHANGED <<answer, retries, sent, stores, reconcile>>

\* A marker left behind passes the incomplete-file age.
MarkerAges(r) ==
  /\ marker[r] = "fresh"
  /\ marker' = [marker EXCEPT ![r] = "old"]
  /\ UNCHANGED <<requests, late, blob, row, faults, reconcile>>

-----------------------------------------------------------------------------
(* ReconcileStorage.execute *)

Registered == {r \in Requests : row[r]}

\* The cutoff is computed, then list_keys begins.
ReconcileStart ==
  /\ rpc = "idle"
  /\ rpc' = "keys"
  /\ unread' = Requests
  /\ aged' = {r \in Requests : marker[r] = "old"}
  /\ settledBefore' = {r \in Requests : Settled(r)}
  /\ rowsBefore' = Registered
  /\ UNCHANGED <<keys, orphans, incomplete, requests, late, stores, faults>>

\* A listing is read page by page while uploads go on.
ReadKey(r) ==
  /\ rpc = "keys" /\ r \in unread
  /\ unread' = unread \ {r}
  /\ keys' = keys \cup {k \in {r} : blob[k] # 0}
  /\ UNCHANGED <<rpc, aged, orphans, incomplete, settledBefore, rowsBefore,
                 requests, late, stores, faults>>

\* list_incomplete begins when list_keys has returned.
StartMarkers ==
  /\ rpc = "keys" /\ unread = {}
  /\ rpc' = "markers"
  /\ unread' = Requests
  /\ UNCHANGED <<aged, keys, orphans, incomplete, settledBefore, rowsBefore,
                 requests, late, stores, faults>>

\* Mutant: the age comparison is reversed.
ReadYoungMarker(r) ==
  /\ rpc = "markers" /\ r \in unread
  /\ unread' = unread \ {r}
  /\ incomplete' = incomplete \cup {k \in {r} \ aged : marker[k] # "none"}
  /\ UNCHANGED <<rpc, aged, keys, orphans, settledBefore, rowsBefore, requests,
                 late, stores, faults>>

ReadMarker(r) ==
  /\ rpc = "markers" /\ r \in unread
  /\ unread' = unread \ {r}
  /\ incomplete' = incomplete \cup {k \in {r} \cap aged : marker[k] # "none"}
  /\ UNCHANGED <<rpc, aged, keys, orphans, settledBefore, rowsBefore, requests,
                 late, stores, faults>>

EndMarkers ==
  /\ rpc = "markers" /\ unread = {}
  /\ rpc' = "rows"
  /\ UNCHANGED <<unread, aged, keys, orphans, incomplete, settledBefore,
                 rowsBefore, requests, late, stores, faults>>

\* Mutant: the database was read before the storage was listed.
RegisteredBefore == rowsBefore

\* list_storage_keys
RegisteredKeys == Registered

\* The database is read last, in one snapshot, and the report is returned.
Report ==
  /\ rpc = "rows"
  /\ rpc' = "reported"
  /\ orphans' = keys \ RegisteredKeys
  /\ UNCHANGED <<unread, aged, keys, incomplete, settledBefore, rowsBefore,
                 requests, late, stores, faults>>

\* The report is printed, or an error ended the command; the next one starts
\* from nothing.
EndReconcile ==
  /\ rpc # "idle"
  /\ rpc' = "idle"
  /\ unread' = {} /\ aged' = {} /\ keys' = {} /\ orphans' = {} /\ incomplete' = {}
  /\ settledBefore' = {} /\ rowsBefore' = {}
  /\ UNCHANGED <<requests, late, stores, faults>>

-----------------------------------------------------------------------------
RequestStep(r) ==
  \/ Reject(r) \/ ServicesUnavailable(r) \/ Begin(r)
  \/ CallSucceeds(r) \/ CallRefused(r) \/ CallLost(r) \/ LateCall(r)
  \/ MarkerAges(r)

ReconcileStep ==
  \/ ReconcileStart \/ StartMarkers \/ EndMarkers \/ Report \/ EndReconcile
  \/ \E r \in Requests : ReadKey(r) \/ ReadMarker(r)

Next == (\E r \in Requests : RequestStep(r)) \/ ApiKilled \/ ReconcileStep

Spec == Init /\ [][Next]_vars

-----------------------------------------------------------------------------
(* Properties *)

\* A 202 is durable: file complete in the storage, document and event in the
\* database, whatever was retried, lost or delayed on the way.
AcknowledgedIsDurable ==
  \A r \in Requests : answer[r] = "202" => row[r] /\ blob[r] = BlockCount

\* A registered document has all of its file, even when its client was told 503
\* or never got an answer.
RegisteredIsWhole == \A r \in Requests : row[r] => blob[r] = BlockCount

\* A partly uploaded file is never visible under its storage key.
NoPartialBlob == \A r \in Requests : blob[r] \in {0, BlockCount}

\* A client told that the file is at fault may correct it and send it again:
\* nothing of the refused one is stored, registered or still on its way, which
\* no 503 promises.
RefusedLeavesNothing ==
  \A r \in Requests : answer[r] \in Refusals =>
    blob[r] = 0 /\ marker[r] = "none" /\ ~row[r] /\ late[r] = {}

\* Nothing is left behind unseen: what a request that was over before the
\* reconciliation began left without a row is in the report, its blob as an
\* orphan and its aged marker as an incomplete upload.
LeftoversAreReported ==
  rpc = "reported" =>
    \A r \in settledBefore :
      /\ blob[r] # 0 /\ ~row[r] => r \in orphans
      /\ r \in aged => r \in incomplete

\* The report never accuses a document whose registration was committed before
\* the report was made, however uploads and listings interleave.
RegisteredIsNoOrphan ==
  [][rpc' = "reported" /\ rpc # "reported" =>
       \A r \in orphans' : ~row[r] /\ blob[r] # 0]_vars

\* To its clients the service is the abstract one: an answer is given once and
\* never changes, file and registration appear whole, in this order and for
\* good, and nothing appears for a refused request, however late a call.
Service == INSTANCE IngestionService
             WITH file <- blob, registered <- row, Missing <- 0, Whole <- BlockCount

ImplementsService == Service!Spec

\* docs/DESIGN.md calls a file an orphan when its transaction failed: then no
\* reported orphan would ever be registered.  An upload between its block list
\* and its commit is reported too, and is registered afterwards.
OrphansStayUnregistered == \A r \in orphans : ~row[r]
=============================================================================
