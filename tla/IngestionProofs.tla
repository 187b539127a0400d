--------------------------- MODULE IngestionProofs --------------------------
(***************************************************************************)
(* Proofs about Ingestion for every set of requests, number of blocks,     *)
(* retries and faults: type correctness, that what is acknowledged or      *)
(* registered is whole, that the reconciliation neither accuses a          *)
(* registered document nor misses what was left behind, that no request    *)
(* goes on for ever, and that requests implement IngestionService.         *)
(*                                                                         *)
(* A request's step and the reconciliation's are independent but for the   *)
(* three stores, so the invariant has a part for each: CallsAndStoresAgree *)
(* and RefusalsAreClean about a request, its calls on their way and the    *)
(* stores, and ListingsAreFaithful about what the command has read so far. *)
(***************************************************************************)
EXTENDS Ingestion, TLAPS

\* What a request's position, and each call of it still on its way, say of the
\* stores.  The block list is only ever sent complete, the transaction only
\* after it, and neither can be undone.
CallsAndStoresAgree ==
  \A r \in Requests :
    /\ pc[r] \in {"waiting", "marking"} => sent[r] = 0
    /\ pc[r] = "staging" => sent[r] < BlockCount
    /\ pc[r] = "committing" \/ "committing" \in late[r] => sent[r] = BlockCount
    /\ pc[r] \in {"unmarking", "persisting"} \/ "persisting" \in late[r]
         => blob[r] = BlockCount
    /\ blob[r] \in {0, BlockCount}
    /\ row[r] => blob[r] = BlockCount
    /\ answer[r] = "202" => row[r]

\* A request that has not begun, and one whose file was refused, has touched
\* nothing; an answer is the request's last step.
RefusalsAreClean ==
  \A r \in Requests :
    /\ answer[r] # "none" => pc[r] = "answered"
    /\ pc[r] = "waiting" \/ answer[r] \in Refusals =>
         blob[r] = 0 /\ marker[r] = "none" /\ ~row[r] /\ late[r] = {}

\* What the command has read.  A key it has is the key of a blob; of a request
\* that was settled when it began it has read, or will read, blob and marker.
ListingsAreFaithful ==
  /\ \A r \in keys : blob[r] # 0
  /\ rpc = "idle" => settledBefore = {}
  /\ \A r \in settledBefore :
       /\ Settled(r)
       /\ r \in aged => marker[r] = "old"
       /\ blob[r] # 0 /\ (rpc = "keys" => r \notin unread) => r \in keys
       /\ r \in aged /\ rpc # "keys" /\ (rpc = "markers" => r \notin unread)
            => r \in incomplete
       /\ rpc = "reported" /\ blob[r] # 0 /\ ~row[r] => r \in orphans

IndInv ==
  TypeOK /\ CallsAndStoresAgree /\ RefusalsAreClean /\ ListingsAreFaithful

-----------------------------------------------------------------------------
(* The parts of a step *)

\* Errors are answered with the statuses of the API: 4xx when the file is at
\* fault, 503 otherwise.
LEMMA Statuses ==
  /\ \A error \in FileErrors : StatusOf[error] \in Refusals
  /\ StatusOf["Storage"] = "503" /\ StatusOf["MetadataQuery"] = "503"
  /\ \A call \in Calls : StatusOf[ErrorOf(call)] = "503"
  BY DEF FileErrors, StatusOf, Refusals, ErrorOf

\* A call that takes effect keeps the stores typed and, if it was possible and
\* sent at its place, leaves a blob that is missing or whole.
LEMMA ApplyKeepsStores ==
  ASSUME TypeOK, CallsAndStoresAgree,
         NEW r \in Requests, NEW call \in Calls,
         Possible(r, call), Apply(r, call),
         call = "committing" => sent[r] = BlockCount
  PROVE  /\ blob' \in [Requests -> 0..BlockCount]
         /\ marker' \in [Requests -> {"none", "fresh", "old"}]
         /\ row' \in [Requests -> BOOLEAN]
         /\ call # "committing" => blob' = blob
         /\ call = "committing" => blob'[r] = BlockCount
         /\ row'[r] = (row[r] \/ call = "persisting")
<1>1. marker' \in [Requests -> {"none", "fresh", "old"}]
  BY DEF TypeOK, Apply
<1>2. blob' \in [Requests -> 0..BlockCount]
  BY CountsAssumption DEF TypeOK, Apply
<1>3. row' \in [Requests -> BOOLEAN]
  BY DEF TypeOK, Apply
<1>4. call = "committing" => blob[r] = 0 /\ blob'[r] = BlockCount
  BY DEF TypeOK, Apply, Possible
<1>5. call # "committing" => blob' = blob
  BY DEF TypeOK, Apply
<1> QED
  BY <1>1, <1>2, <1>3, <1>4, <1>5 DEF TypeOK, Apply

\* It concerns its own request alone, and what is stored stays as it is.
LEMMA ApplyIsLocal ==
  ASSUME TypeOK, NEW r \in Requests, NEW call \in Calls,
         Possible(r, call), Apply(r, call), NEW q \in Requests
  PROVE  /\ blob[q] # 0 => blob'[q] = blob[q]
         /\ q # r => /\ blob'[q] = blob[q]
                     /\ marker'[q] = marker[q]
                     /\ row'[q] = row[q]
  BY DEF TypeOK, Apply, Possible

\* A call that returned moves the request on, typed.
LEMMA AdvanceTyped ==
  ASSUME TypeOK, CallsAndStoresAgree, NEW r \in Requests, Advance(r)
  PROVE  /\ pc' \in [Requests -> Calls \cup {"waiting", "answered", "killed"}]
         /\ answer' \in [Requests -> Refusals \cup {"none", "202", "503"}]
         /\ retries' \in [Requests -> 0..RetryTotal]
         /\ sent' \in [Requests -> 0..BlockCount]
  BY CountsAssumption
  DEF TypeOK, CallsAndStoresAgree, Advance, Enter, Answer, Calls, AzureCalls

\* The types of what requests and services change, and of what the command does.
ServiceTyped ==
  /\ pc \in [Requests -> Calls \cup {"waiting", "answered", "killed"}]
  /\ answer \in [Requests -> Refusals \cup {"none", "202", "503"}]
  /\ retries \in [Requests -> 0..RetryTotal]
  /\ sent \in [Requests -> 0..BlockCount]
  /\ late \in [Requests -> SUBSET Calls]
  /\ blob \in [Requests -> 0..BlockCount]
  /\ marker \in [Requests -> {"none", "fresh", "old"}]
  /\ row \in [Requests -> BOOLEAN]
  /\ faults \in 0..MaxFaults

CommandTyped ==
  /\ rpc \in {"idle", "keys", "markers", "rows", "reported"}
  /\ unread \in SUBSET Requests /\ aged \in SUBSET Requests
  /\ keys \in SUBSET Requests /\ orphans \in SUBSET Requests
  /\ incomplete \in SUBSET Requests
  /\ settledBefore \in SUBSET Requests /\ rowsBefore \in SUBSET Requests

service == <<requests, late, stores, faults>>

\* The steps of requests leave the command's variables alone ...
LEMMA RequestsLeaveTheCommand ==
  ASSUME (\E r \in Requests : RequestStep(r)) \/ ApiKilled
  PROVE  UNCHANGED reconcile
  BY DEF RequestStep, Reject, ServicesUnavailable, Begin, CallSucceeds,
         CallRefused, CallLost, LateCall, MarkerAges, ApiKilled

\* ... and the command only reads what requests and services change.
LEMMA CommandLeavesTheService ==
  ASSUME ReconcileStep
  PROVE  UNCHANGED service
  BY DEF ReconcileStep, ReconcileStart, StartMarkers, EndMarkers, Report,
         EndReconcile, ReadKey, ReadMarker, service

-----------------------------------------------------------------------------
(* Types *)

\* Every step of a request or a service keeps the types.
LEMMA RequestTypes ==
  ASSUME TypeOK, CallsAndStoresAgree, NEW r \in Requests, RequestStep(r)
  PROVE  ServiceTyped'
<1> USE CountsAssumption
<1>1. CASE Reject(r)
  BY <1>1, Statuses DEF Reject, Answer, TypeOK, ServiceTyped, stores, Calls
<1>2. CASE ServicesUnavailable(r)
  BY <1>2, Statuses
  DEF ServicesUnavailable, Disturb, Answer, TypeOK, ServiceTyped, stores
<1>3. CASE Begin(r)
  BY <1>3 DEF Begin, Enter, TypeOK, ServiceTyped, stores, Calls, AzureCalls
<1>4. CASE CallSucceeds(r)
  <2>1. pc[r] = "committing" => sent[r] = BlockCount
    BY DEF CallsAndStoresAgree
  <2> QED
    BY <1>4, <2>1, ApplyKeepsStores, AdvanceTyped
    DEF CallSucceeds, TypeOK, ServiceTyped
<1>5. CASE CallRefused(r)
  BY <1>5, Statuses DEF CallRefused, Answer, TypeOK, ServiceTyped, stores
<1>6. CASE CallLost(r)
  <2>1. pc' \in [Requests -> Calls \cup {"waiting", "answered", "killed"}]
    BY <1>6 DEF CallLost, Answer, TypeOK
  <2>2. answer' \in [Requests -> Refusals \cup {"none", "202", "503"}]
    BY <1>6, Statuses DEF CallLost, Answer, TypeOK
  <2>3. retries' \in [Requests -> 0..RetryTotal]
    BY <1>6 DEF CallLost, TypeOK
  <2>4. late' \in [Requests -> SUBSET Calls]
    BY <1>6 DEF CallLost, TypeOK
  <2> QED
    BY <1>6, <2>1, <2>2, <2>3, <2>4
    DEF CallLost, Disturb, TypeOK, ServiceTyped, stores
<1>7. CASE LateCall(r)
  <2> PICK call \in late[r] :
        /\ late' = [late EXCEPT ![r] = @ \ {call}]
        /\ IF Possible(r, call) THEN Apply(r, call) ELSE UNCHANGED stores
        /\ UNCHANGED <<requests, faults, reconcile>>
    BY <1>7 DEF LateCall
  <2>1. call \in Calls /\ (call = "committing" => sent[r] = BlockCount)
    BY DEF TypeOK, CallsAndStoresAgree
  <2>2. late' \in [Requests -> SUBSET Calls]
    BY DEF TypeOK
  <2>3. CASE Possible(r, call)
    BY <2>1, <2>2, <2>3, ApplyKeepsStores DEF TypeOK, ServiceTyped, requests
  <2>4. CASE ~Possible(r, call)
    BY <2>2, <2>4 DEF TypeOK, ServiceTyped, requests, stores
  <2> QED
    BY <2>3, <2>4
<1>8. CASE MarkerAges(r)
  BY <1>8 DEF MarkerAges, TypeOK, ServiceTyped, requests
<1> QED
  BY <1>1, <1>2, <1>3, <1>4, <1>5, <1>6, <1>7, <1>8 DEF RequestStep

\* Every step keeps every type.
LEMMA TypeStep ==
  ASSUME TypeOK, CallsAndStoresAgree, [Next]_vars
  PROVE  TypeOK'
<1> USE CountsAssumption
<1>1. CASE \E r \in Requests : RequestStep(r)
  <2>1. ServiceTyped'
    BY <1>1, RequestTypes
  <2>2. UNCHANGED reconcile
    BY <1>1, RequestsLeaveTheCommand
  <2> QED
    BY <2>1, <2>2 DEF TypeOK, ServiceTyped, reconcile
<1>2. CASE ApiKilled
  <2>1. pc' \in [Requests -> Calls \cup {"waiting", "answered", "killed"}]
    BY <1>2 DEF ApiKilled, TypeOK
  <2>2. late' \in [Requests -> SUBSET Calls]
    BY <1>2 DEF ApiKilled, TypeOK
  <2> QED
    BY <1>2, <2>1, <2>2 DEF ApiKilled, Disturb, TypeOK, stores, reconcile
<1>3. CASE ReconcileStep
  <2>1. UNCHANGED service
    BY <1>3, CommandLeavesTheService
  <2>2. CommandTyped'
    BY <1>3 DEF ReconcileStep, ReconcileStart, StartMarkers, EndMarkers, Report,
                EndReconcile, ReadKey, ReadMarker, TypeOK, CommandTyped,
                Registered, RegisteredKeys
  <2> QED
    BY <2>1, <2>2 DEF TypeOK, CommandTyped, service, requests, stores
<1>4. CASE UNCHANGED vars
  BY <1>4 DEF vars, TypeOK, requests, stores, reconcile
<1> QED
  BY <1>1, <1>2, <1>3, <1>4 DEF Next

-----------------------------------------------------------------------------
(* Calls and stores *)

\* Every step of a request keeps what positions and calls say of the stores.
LEMMA RequestAgrees ==
  ASSUME TypeOK, CallsAndStoresAgree, NEW r \in Requests, RequestStep(r)
  PROVE  CallsAndStoresAgree'
<1> USE CountsAssumption
<1>1. CASE Reject(r)
  BY <1>1, Statuses
  DEF Reject, Answer, Refusals, TypeOK, CallsAndStoresAgree, stores
<1>2. CASE ServicesUnavailable(r)
  BY <1>2, Statuses
  DEF ServicesUnavailable, Answer, TypeOK, CallsAndStoresAgree, stores
<1>3. CASE Begin(r)
  BY <1>3 DEF Begin, Enter, TypeOK, CallsAndStoresAgree, stores
<1>4. CASE CallSucceeds(r)
  <2>1. pc[r] = "committing" => sent[r] = BlockCount
    BY DEF CallsAndStoresAgree
  <2>2. \A q \in Requests \ {r} :
          /\ pc'[q] = pc[q] /\ sent'[q] = sent[q] /\ answer'[q] = answer[q]
          /\ blob'[q] = blob[q] /\ row'[q] = row[q] /\ late'[q] = late[q]
    BY <1>4, ApplyIsLocal DEF CallSucceeds, Advance, Enter, Answer, TypeOK
  <2>3. CASE pc[r] = "marking"
    BY <1>4, <2>1, <2>2, <2>3, ApplyKeepsStores
    DEF CallSucceeds, Advance, Enter, TypeOK, CallsAndStoresAgree
  <2>4. CASE pc[r] = "staging"
    BY <1>4, <2>1, <2>2, <2>4, ApplyKeepsStores
    DEF CallSucceeds, Advance, Enter, TypeOK, CallsAndStoresAgree
  <2>5. CASE pc[r] = "committing"
    BY <1>4, <2>1, <2>2, <2>5, ApplyKeepsStores
    DEF CallSucceeds, Advance, Enter, TypeOK, CallsAndStoresAgree
  <2>6. CASE pc[r] = "unmarking"
    BY <1>4, <2>1, <2>2, <2>6, ApplyKeepsStores
    DEF CallSucceeds, Advance, Enter, TypeOK, CallsAndStoresAgree
  <2>7. CASE pc[r] = "persisting"
    BY <1>4, <2>1, <2>2, <2>7, ApplyKeepsStores
    DEF CallSucceeds, Advance, Answer, TypeOK, CallsAndStoresAgree
  <2> QED
    BY <1>4, <2>3, <2>4, <2>5, <2>6, <2>7 DEF CallSucceeds, Calls, AzureCalls
<1>5. CASE CallRefused(r)
  BY <1>5, Statuses
  DEF CallRefused, Answer, TypeOK, CallsAndStoresAgree, stores
<1>6. CASE CallLost(r)
  <2>1. \A q \in Requests : /\ pc'[q] \in {pc[q], "answered"}
                            /\ late'[q] \subseteq late[q] \cup {pc[q]}
                            /\ answer'[q] \in {answer[q], "503"}
    BY <1>6, Statuses DEF CallLost, Answer, TypeOK
  <2> QED
    BY <1>6, <2>1 DEF CallLost, TypeOK, CallsAndStoresAgree, stores
<1>7. CASE LateCall(r)
  <2> PICK call \in late[r] :
        /\ late' = [late EXCEPT ![r] = @ \ {call}]
        /\ IF Possible(r, call) THEN Apply(r, call) ELSE UNCHANGED stores
        /\ UNCHANGED <<requests, faults, reconcile>>
    BY <1>7 DEF LateCall
  <2>1. call \in Calls /\ (call = "committing" => sent[r] = BlockCount)
    BY DEF TypeOK, CallsAndStoresAgree
  <2>2. \A q \in Requests : late'[q] \subseteq late[q]
    BY DEF TypeOK
  <2>3. call = "persisting" => blob[r] = BlockCount
    BY DEF CallsAndStoresAgree
  <2>4. CASE Possible(r, call)
    BY <2>1, <2>2, <2>3, <2>4, ApplyKeepsStores, ApplyIsLocal
    DEF TypeOK, CallsAndStoresAgree, requests
  <2>5. CASE ~Possible(r, call)
    BY <2>2, <2>5 DEF TypeOK, CallsAndStoresAgree, requests, stores
  <2> QED
    BY <2>4, <2>5
<1>8. CASE MarkerAges(r)
  BY <1>8 DEF MarkerAges, TypeOK, CallsAndStoresAgree, requests
<1> QED
  BY <1>1, <1>2, <1>3, <1>4, <1>5, <1>6, <1>7, <1>8 DEF RequestStep

\* Nor does a killed process or the command change what positions and calls say.
LEMMA AgreeStep ==
  ASSUME TypeOK, CallsAndStoresAgree, [Next]_vars
  PROVE  CallsAndStoresAgree'
<1>1. CASE \E r \in Requests : RequestStep(r)
  BY <1>1, RequestAgrees
<1>2. CASE ApiKilled
  <2>1. \A r \in Requests : /\ pc'[r] \in {pc[r], "killed"}
                            /\ late'[r] \subseteq late[r] \cup {pc[r]}
    BY <1>2 DEF ApiKilled, TypeOK
  <2> QED
    BY <1>2, <2>1 DEF ApiKilled, CallsAndStoresAgree, TypeOK, stores
<1>3. CASE ReconcileStep
  <2>1. UNCHANGED service
    BY <1>3, CommandLeavesTheService
  <2> QED
    BY <2>1 DEF CallsAndStoresAgree, service, requests, stores
<1>4. CASE UNCHANGED vars
  BY <1>4 DEF vars, CallsAndStoresAgree, requests, stores
<1> QED
  BY <1>1, <1>2, <1>3, <1>4 DEF Next

-----------------------------------------------------------------------------
(* Refusals *)

\* No step touches the stores for a request that has not begun or was refused.
LEMMA RefusalStep ==
  ASSUME TypeOK, CallsAndStoresAgree, RefusalsAreClean, [Next]_vars
  PROVE  RefusalsAreClean'
<1>1. ASSUME NEW r \in Requests, RequestStep(r)
      PROVE  RefusalsAreClean'
  <2>1. CASE Reject(r)
    BY <2>1, Statuses DEF Reject, Answer, TypeOK, RefusalsAreClean, stores
  <2>2. CASE ServicesUnavailable(r)
    BY <2>2, Statuses
    DEF ServicesUnavailable, Answer, Refusals, TypeOK, RefusalsAreClean, stores
  <2>3. CASE Begin(r)
    BY <2>3 DEF Begin, Enter, Refusals, TypeOK, RefusalsAreClean, stores
  <2>4. CASE CallSucceeds(r)
    <3>1. \A q \in Requests \ {r} :
            /\ pc'[q] = pc[q] /\ answer'[q] = answer[q] /\ late'[q] = late[q]
            /\ blob'[q] = blob[q] /\ marker'[q] = marker[q] /\ row'[q] = row[q]
      BY <2>4, ApplyIsLocal DEF CallSucceeds, Advance, Enter, Answer, TypeOK
    <3>2. pc[r] \in Calls /\ answer[r] = "none"
      BY <2>4 DEF CallSucceeds, RefusalsAreClean, Calls, AzureCalls
    <3>3. /\ pc'[r] # "waiting" /\ answer'[r] \in {"none", "202"}
          /\ answer'[r] # "none" => pc'[r] = "answered"
      BY <2>4, <3>2 DEF CallSucceeds, Advance, Enter, Answer, TypeOK
    <3> QED
      BY <3>1, <3>3 DEF RefusalsAreClean, Refusals
  <2>5. CASE CallRefused(r)
    BY <2>5, Statuses
    DEF CallRefused, Answer, Refusals, Calls, AzureCalls, TypeOK,
        RefusalsAreClean, stores
  <2>6. CASE CallLost(r)
    <3>1. pc[r] \in Calls
      BY <2>6 DEF CallLost
    <3>2. /\ pc'[r] \in {pc[r], "answered"} /\ answer'[r] \in {answer[r], "503"}
          /\ answer'[r] # answer[r] => pc'[r] = "answered"
          /\ \A q \in Requests \ {r} : /\ pc'[q] = pc[q]
                                        /\ answer'[q] = answer[q]
                                        /\ late'[q] = late[q]
      BY <2>6, Statuses DEF CallLost, Answer, TypeOK
    <3> QED
      BY <2>6, <3>1, <3>2
      DEF CallLost, Calls, AzureCalls, RefusalsAreClean, Refusals, stores
  <2>7. CASE LateCall(r)
    <3> PICK call \in late[r] :
          /\ late' = [late EXCEPT ![r] = @ \ {call}]
          /\ IF Possible(r, call) THEN Apply(r, call) ELSE UNCHANGED stores
          /\ UNCHANGED <<requests, faults, reconcile>>
      BY <2>7 DEF LateCall
    <3>1. call \in Calls
      BY DEF TypeOK
    <3>2. ~(pc[r] = "waiting" \/ answer[r] \in Refusals)
      BY DEF RefusalsAreClean
    <3>3. \A q \in Requests \ {r} :
            /\ blob'[q] = blob[q] /\ marker'[q] = marker[q] /\ row'[q] = row[q]
            /\ late'[q] = late[q]
      BY <3>1, ApplyIsLocal DEF stores, TypeOK
    <3> QED
      BY <3>2, <3>3 DEF RefusalsAreClean, requests
  <2>8. CASE MarkerAges(r)
    BY <2>8 DEF MarkerAges, requests, TypeOK, RefusalsAreClean
  <2> QED
    BY <1>1, <2>1, <2>2, <2>3, <2>4, <2>5, <2>6, <2>7, <2>8 DEF RequestStep
<1>2. CASE ApiKilled
  BY <1>2 DEF ApiKilled, Calls, AzureCalls, RefusalsAreClean, Refusals, TypeOK,
              stores
<1>3. CASE ReconcileStep
  BY <1>3, CommandLeavesTheService
  DEF RefusalsAreClean, service, requests, stores
<1>4. CASE UNCHANGED vars
  BY <1>4 DEF vars, RefusalsAreClean, requests, stores
<1> QED
  BY <1>1, <1>2, <1>3, <1>4 DEF Next

-----------------------------------------------------------------------------
(* The reconciliation *)

\* What a request's step cannot undo: a blob that is there stays, and of a
\* settled request nothing changes any more except that its marker ages.
LEMMA SettledStays ==
  ASSUME TypeOK, CallsAndStoresAgree,
         (\E r \in Requests : RequestStep(r)) \/ ApiKilled
  PROVE  \A q \in Requests :
           /\ blob[q] # 0 => blob'[q] # 0
           /\ Settled(q) => /\ Settled(q)'
                            /\ blob'[q] = blob[q]
                            /\ row'[q] = row[q]
                            /\ marker[q] = "old" => marker'[q] = "old"
<1> USE CountsAssumption
<1>1. CASE ApiKilled
  BY <1>1 DEF ApiKilled, TypeOK, Settled, Ended, Calls, AzureCalls, stores
<1>2. ASSUME NEW r \in Requests, RequestStep(r)
      PROVE  \A q \in Requests :
               /\ blob[q] # 0 => blob'[q] # 0
               /\ Settled(q) => /\ Settled(q)'
                                /\ blob'[q] = blob[q]
                                /\ row'[q] = row[q]
                                /\ marker[q] = "old" => marker'[q] = "old"
  <2>1. CASE Reject(r) \/ ServicesUnavailable(r) \/ Begin(r)
    BY <2>1 DEF Reject, ServicesUnavailable, Begin, Answer, Enter, TypeOK,
                Settled, Ended, stores
  <2>2. CASE CallSucceeds(r)
    <3>1. \A q \in Requests : Settled(q) => q # r
      BY <2>2 DEF CallSucceeds, Settled, Ended, Calls, AzureCalls
    <3>2. \A q \in Requests \ {r} : Settled(q) => Settled(q)'
      BY <2>2 DEF CallSucceeds, Advance, Enter, Answer, TypeOK, Settled, Ended
    <3>3. pc[r] \in Calls /\ Possible(r, pc[r]) /\ Apply(r, pc[r])
      BY <2>2 DEF CallSucceeds
    <3> QED
      BY <3>1, <3>2, <3>3, ApplyIsLocal
  <2>3. CASE CallRefused(r) \/ CallLost(r)
    BY <2>3 DEF CallRefused, CallLost, Answer, TypeOK, Settled, Ended, Calls,
                AzureCalls, stores
  <2>4. CASE LateCall(r)
    <3> PICK call \in late[r] :
          /\ late' = [late EXCEPT ![r] = @ \ {call}]
          /\ IF Possible(r, call) THEN Apply(r, call) ELSE UNCHANGED stores
          /\ UNCHANGED <<requests, faults, reconcile>>
      BY <2>4 DEF LateCall
    <3>1. call \in Calls /\ (call = "committing" => sent[r] = BlockCount)
      BY DEF TypeOK, CallsAndStoresAgree
    <3>2. \A q \in Requests : Settled(q) => q # r
      BY DEF Settled
    <3>3. \A q \in Requests \ {r} : Settled(q) => Settled(q)'
      BY DEF requests, TypeOK, Settled, Ended
    <3>4. CASE Possible(r, call)
      <4>1. Apply(r, call)
        BY <3>4
      <4>2. \A q \in Requests : /\ blob[q] # 0 => blob'[q] = blob[q]
                                /\ q # r => /\ blob'[q] = blob[q]
                                            /\ marker'[q] = marker[q]
                                            /\ row'[q] = row[q]
        BY <3>1, <3>4, <4>1, ApplyIsLocal
      <4> QED
        BY <3>2, <3>3, <4>2
    <3>5. CASE ~Possible(r, call)
      BY <3>2, <3>3, <3>5 DEF stores
    <3> QED
      BY <3>4, <3>5
  <2>5. CASE MarkerAges(r)
    BY <2>5 DEF MarkerAges, requests, TypeOK, Settled, Ended
  <2> QED
    BY <1>2, <2>1, <2>2, <2>3, <2>4, <2>5 DEF RequestStep
<1> QED
  BY <1>1, <1>2

\* What the command has read stays true of the stores, and each of its steps
\* adds what it should.
LEMMA ListingStep ==
  ASSUME TypeOK, CallsAndStoresAgree, ListingsAreFaithful, [Next]_vars
  PROVE  ListingsAreFaithful'
<1>1. CASE (\E r \in Requests : RequestStep(r)) \/ ApiKilled
  <2>1. UNCHANGED reconcile
    BY <1>1, RequestsLeaveTheCommand
  <2> QED
    BY <1>1, <2>1, SettledStays DEF ListingsAreFaithful, TypeOK, reconcile
<1>2. CASE ReconcileStart
  BY <1>2 DEF ReconcileStart, ListingsAreFaithful, TypeOK, Settled, Ended,
              requests, stores
<1>3. ASSUME NEW r \in Requests, ReadKey(r)
      PROVE  ListingsAreFaithful'
  BY <1>3 DEF ReadKey, ListingsAreFaithful, TypeOK, Settled, Ended, requests,
              stores
<1>4. CASE StartMarkers
  BY <1>4 DEF StartMarkers, ListingsAreFaithful, TypeOK, Settled, Ended,
              requests, stores
<1>5. ASSUME NEW r \in Requests, ReadMarker(r)
      PROVE  ListingsAreFaithful'
  BY <1>5 DEF ReadMarker, ListingsAreFaithful, TypeOK, Settled, Ended, requests,
              stores
<1>6. CASE EndMarkers
  BY <1>6 DEF EndMarkers, ListingsAreFaithful, TypeOK, Settled, Ended, requests,
              stores
<1>7. CASE Report
  BY <1>7 DEF Report, Registered, RegisteredKeys, ListingsAreFaithful, TypeOK,
              Settled, Ended, requests, stores
<1>8. CASE EndReconcile
  BY <1>8 DEF EndReconcile, ListingsAreFaithful
<1>9. CASE UNCHANGED vars
  BY <1>9 DEF vars, ListingsAreFaithful, Settled, Ended, requests, stores,
              reconcile
<1> QED
  BY <1>1, <1>2, <1>3, <1>4, <1>5, <1>6, <1>7, <1>8, <1>9
  DEF Next, ReconcileStep

-----------------------------------------------------------------------------
(* Invariants *)

\* The parts together: IndInv holds initially and every step keeps it.
THEOREM Invariance == Spec => []IndInv
<1>1. Init => IndInv
  BY CountsAssumption
  DEF Init, IndInv, TypeOK, CallsAndStoresAgree, RefusalsAreClean,
      ListingsAreFaithful, Refusals
<1>2. IndInv /\ [Next]_vars => IndInv'
  BY TypeStep, AgreeStep, RefusalStep, ListingStep DEF IndInv
<1> QED
  BY <1>1, <1>2, PTL DEF Spec

\* Every variable keeps its type: no more blocks are staged than the file has,
\* and no call is repeated beyond the SDK's retries.
THEOREM TypeCorrect == Spec => []TypeOK
<1>1. IndInv => TypeOK
  BY DEF IndInv
<1> QED
  BY <1>1, Invariance, PTL

\* A 202 is durable: its file is whole and its document registered.
THEOREM AcknowledgedUploadsAreDurable == Spec => []AcknowledgedIsDurable
<1>1. IndInv => AcknowledgedIsDurable
  BY DEF IndInv, CallsAndStoresAgree, AcknowledgedIsDurable
<1> QED
  BY <1>1, Invariance, PTL

\* A registered document has its whole file, whatever the client was told.
THEOREM RegisteredDocumentsAreWhole == Spec => []RegisteredIsWhole
<1>1. IndInv => RegisteredIsWhole
  BY DEF IndInv, CallsAndStoresAgree, RegisteredIsWhole
<1> QED
  BY <1>1, Invariance, PTL

\* No key ever shows a part of a file.
THEOREM BlobsAreWhole == Spec => []NoPartialBlob
<1>1. IndInv => NoPartialBlob
  BY DEF IndInv, CallsAndStoresAgree, NoPartialBlob
<1> QED
  BY <1>1, Invariance, PTL

\* A refused file leaves nothing behind.
THEOREM RefusalsLeaveNothing == Spec => []RefusedLeavesNothing
<1>1. IndInv => RefusedLeavesNothing
  BY DEF IndInv, RefusalsAreClean, RefusedLeavesNothing
<1> QED
  BY <1>1, Invariance, PTL

\* A report misses nothing that was left behind before its command began.
THEOREM ReportsAreComplete == Spec => []LeftoversAreReported
<1>1. IndInv => LeftoversAreReported
  BY DEF IndInv, ListingsAreFaithful, LeftoversAreReported, TypeOK
<1> QED
  BY <1>1, Invariance, PTL

\* A report accuses no registered document, and names only keys of blobs.
THEOREM ReportsAreSound == Spec => RegisteredIsNoOrphan
<1>1. IndInv /\ [Next]_vars =>
        [rpc' = "reported" /\ rpc # "reported" =>
           \A r \in orphans' : ~row[r] /\ blob[r] # 0]_vars
  <2> SUFFICES ASSUME IndInv, Next, rpc' = "reported", rpc # "reported"
               PROVE  \A r \in orphans' : ~row[r] /\ blob[r] # 0
    OBVIOUS
  <2>1. Report
    BY RequestsLeaveTheCommand
    DEF Next, reconcile, ReconcileStep, ReconcileStart, StartMarkers, EndMarkers,
        EndReconcile, ReadKey, ReadMarker
  <2> QED
    BY <2>1 DEF Report, Registered, RegisteredKeys, IndInv, TypeOK,
                ListingsAreFaithful
<1> QED
  BY <1>1, Invariance, PTL DEF Spec, RegisteredIsNoOrphan

-----------------------------------------------------------------------------
(* The abstract service *)

\* Nothing the service shows of a request changes but its answer.
ShownIsKept == blob' = blob /\ row' = row

\* An effect on the stores, if the call may still have one, is a step of the
\* service or none: the block list shows the whole file, the transaction
\* registers a whole one, and the request is not known to its client as
\* refused.
LEMMA EffectsAreSteps ==
  ASSUME IndInv, NEW r \in Requests, NEW call \in Calls,
         pc[r] = call \/ call \in late[r],
         Possible(r, call), Apply(r, call), answer' = answer
  PROVE  [Service!Next]_Service!vars
<1> USE CountsAssumption
<1>1. answer[r] \in {"none", "202", "503"}
  BY DEF IndInv, TypeOK, RefusalsAreClean, Calls, AzureCalls
<1>2. CASE call \in {"marking", "staging", "unmarking"}
  <2>1. ShownIsKept
    BY <1>2 DEF Apply, IndInv, TypeOK, ShownIsKept
  <2> QED
    BY <2>1 DEF ShownIsKept, Service!vars
<1>3. CASE call = "committing"
  <2>1. blob[r] = 0 /\ answer[r] # "202"
    BY <1>3 DEF Possible, IndInv, CallsAndStoresAgree
  <2>2. sent[r] = BlockCount
    BY <1>3 DEF IndInv, CallsAndStoresAgree
  <2>3. blob' = [blob EXCEPT ![r] = BlockCount] /\ row' = row
    BY <1>3, <2>2 DEF Apply, IndInv, TypeOK
  <2>4. Service!Store(r)
    BY <1>1, <2>1, <2>3 DEF Service!Store, Service!Undecided
  <2> QED
    BY <2>4 DEF Service!Next
<1>4. CASE call = "persisting"
  <2>1. blob[r] = BlockCount /\ blob' = blob
    BY <1>4 DEF Apply, IndInv, TypeOK, CallsAndStoresAgree
  <2>2. row' = [row EXCEPT ![r] = TRUE]
    BY <1>4 DEF Apply
  <2>3. CASE row[r]
    BY <2>1, <2>2, <2>3 DEF Service!vars, IndInv, TypeOK
  <2>4. CASE ~row[r]
    <3>1. answer[r] # "202"
      BY <2>4 DEF IndInv, CallsAndStoresAgree
    <3>2. Service!Register(r)
      BY <1>1, <2>1, <2>2, <2>4, <3>1 DEF Service!Register, Service!Undecided
    <3> QED
      BY <3>2 DEF Service!Next
  <2> QED
    BY <2>3, <2>4
<1> QED
  BY <1>2, <1>3, <1>4 DEF Calls, AzureCalls

\* A request without an answer may be given a 503.
LEMMA FailuresAreSteps ==
  ASSUME IndInv, NEW r \in Requests, pc[r] \in Calls \cup {"waiting"},
         Answer(r, "503"), ShownIsKept
  PROVE  Service!Next
<1>1. answer[r] = "none"
  BY DEF IndInv, RefusalsAreClean, Calls, AzureCalls
<1>2. Service!Fail(r)
  BY <1>1 DEF Answer, ShownIsKept, Service!Fail
<1> QED
  BY <1>2 DEF Service!Next

\* A committed transaction is told to the client in the same step.
LEMMA AcceptedIsAStep ==
  ASSUME IndInv, NEW r \in Requests, pc[r] = "persisting", CallSucceeds(r)
  PROVE  [Service!Next]_Service!vars
<1>1. blob[r] = BlockCount /\ answer[r] = "none"
  BY DEF IndInv, CallsAndStoresAgree, RefusalsAreClean
<1>2. /\ blob' = blob /\ row' = [row EXCEPT ![r] = TRUE]
      /\ answer' = [answer EXCEPT ![r] = "202"]
  <2>1. Apply(r, "persisting") /\ Advance(r)
    BY DEF CallSucceeds
  <2>2. blob' = blob
    BY <2>1 DEF Apply, IndInv, TypeOK
  <2>3. row' = [row EXCEPT ![r] = TRUE]
    BY <2>1 DEF Apply
  <2>4. answer' = [answer EXCEPT ![r] = "202"]
    BY <2>1 DEF Advance, Answer
  <2> QED
    BY <2>2, <2>3, <2>4
<1>3. Service!Register(r)
  BY <1>1, <1>2 DEF Service!Register, Service!Undecided
<1> QED
  BY <1>3 DEF Service!Next

\* Every step of Ingestion is one of the service, or shows nothing.
LEMMA StepsAreServiceSteps ==
  ASSUME IndInv, [Next]_vars
  PROVE  [Service!Next]_Service!vars
<1>1. ASSUME NEW r \in Requests, RequestStep(r)
      PROVE  [Service!Next]_Service!vars
  <2>1. CASE Reject(r)
    <3>1. PICK error \in FileErrors : Answer(r, StatusOf[error])
      BY <2>1 DEF Reject
    <3>2. answer[r] = "none" /\ blob[r] = 0
      BY <2>1 DEF Reject, IndInv, RefusalsAreClean
    <3>3. Service!Refuse(r)
      BY <2>1, <3>1, <3>2, Statuses
      DEF Reject, Answer, stores, Refusals, Service!Refuse, Service!Refusals
    <3> QED
      BY <3>3 DEF Service!Next
  <2>2. CASE ServicesUnavailable(r)
    <3>1. Answer(r, "503") /\ ShownIsKept /\ pc[r] = "waiting"
      BY <2>2, Statuses DEF ServicesUnavailable, stores, ShownIsKept
    <3> QED
      BY <3>1, FailuresAreSteps
  <2>3. CASE Begin(r) \/ MarkerAges(r)
    BY <2>3 DEF Begin, MarkerAges, requests, stores, Service!vars
  <2>4. CASE CallSucceeds(r)
    <3>1. CASE pc[r] = "persisting"
      BY <2>4, <3>1, AcceptedIsAStep
    <3>2. CASE pc[r] # "persisting"
      <4>1. answer' = answer
        BY <2>4, <3>2 DEF CallSucceeds, Advance
      <4> QED
        BY <2>4, <4>1, EffectsAreSteps DEF CallSucceeds
    <3> QED
      BY <3>1, <3>2
  <2>5. CASE CallRefused(r)
    <3>1. Answer(r, "503") /\ ShownIsKept /\ pc[r] \in Calls
      BY <2>5, Statuses DEF CallRefused, stores, ShownIsKept
    <3> QED
      BY <3>1, FailuresAreSteps
  <2>6. CASE CallLost(r)
    <3>1. ShownIsKept /\ pc[r] \in Calls
      BY <2>6 DEF CallLost, stores, ShownIsKept
    <3>2. CASE retries[r] > 0
      BY <2>6, <3>1, <3>2 DEF CallLost, ShownIsKept, Service!vars
    <3>3. CASE ~(retries[r] > 0)
      <4>1. Answer(r, "503")
        BY <2>6, <3>1, <3>3, Statuses DEF CallLost
      <4> QED
        BY <3>1, <4>1, FailuresAreSteps
    <3> QED
      BY <3>2, <3>3
  <2>7. CASE LateCall(r)
    <3> PICK call \in late[r] :
          /\ late' = [late EXCEPT ![r] = @ \ {call}]
          /\ IF Possible(r, call) THEN Apply(r, call) ELSE UNCHANGED stores
          /\ UNCHANGED <<requests, faults, reconcile>>
      BY <2>7 DEF LateCall
    <3>1. call \in Calls /\ answer' = answer
      BY DEF IndInv, TypeOK, requests
    <3>2. CASE Possible(r, call)
      BY <3>1, <3>2, EffectsAreSteps
    <3>3. CASE ~Possible(r, call)
      BY <3>1, <3>3 DEF stores, Service!vars
    <3> QED
      BY <3>2, <3>3
  <2> QED
    BY <1>1, <2>1, <2>2, <2>3, <2>4, <2>5, <2>6, <2>7 DEF RequestStep
<1>2. CASE ApiKilled
  BY <1>2 DEF ApiKilled, stores, Service!vars
<1>3. CASE ReconcileStep
  BY <1>3, CommandLeavesTheService
  DEF service, requests, stores, Service!vars
<1>4. CASE UNCHANGED vars
  BY <1>4 DEF vars, requests, stores, Service!vars
<1> QED
  BY <1>1, <1>2, <1>3, <1>4 DEF Next

\* Retries, late calls, killed processes and the reconciliation implement the
\* service as its clients know it.
THEOREM Refinement == Spec => ImplementsService
<1>1. Init => Service!Init
  BY DEF Init, Service!Init
<1>2. IndInv /\ [Next]_vars => [Service!Next]_Service!vars
  BY StepsAreServiceSteps
<1> QED
  BY <1>1, <1>2, Invariance, PTL DEF Spec, Service!Spec, ImplementsService
-----------------------------------------------------------------------------
(* Progress *)

\* The calls a request may still begin, the one it is in included.
CallsLeft(r) ==
  CASE pc[r] = "waiting"    -> BlockCount + 5
    [] pc[r] = "marking"    -> BlockCount + 4
    [] pc[r] = "staging"    -> BlockCount - sent[r] + 3
    [] pc[r] = "committing" -> 3
    [] pc[r] = "unmarking"  -> 2
    [] pc[r] = "persisting" -> 1
    [] OTHER                -> 0

\* Its tries: each of these calls with the SDK's repetitions of it.
TriesLeft(r) == CallsLeft(r) * (RetryTotal + 1) + retries[r]

\* A step that moves the request takes one of its tries.
GetsOn(r) ==
  \/ UNCHANGED <<pc[r], sent[r], retries[r]>>
  \/ TriesLeft(r)' \in Nat /\ TriesLeft(r)' < TriesLeft(r)

\* A call is worth more than the repetitions of the one before it.
LEMMA CallsOutweighRetries ==
  ASSUME NEW c \in Nat, NEW d \in Nat, NEW x \in 0..RetryTotal,
         NEW y \in 0..RetryTotal, d < c
  PROVE  d * (RetryTotal + 1) + x < c * (RetryTotal + 1) + y
<1> USE CountsAssumption
<1> DEFINE t == RetryTotal + 1
<1>1. t \in Nat /\ x < t
  OBVIOUS
<1>2. PICK e \in Nat : c = d + 1 + e
  <2>1. c - d - 1 \in Nat /\ c = d + 1 + (c - d - 1)
    OBVIOUS
  <2> QED
    BY <2>1
<1> HIDE DEF t
<1>3. c * t = d * t + t + e * t
  BY <1>1, <1>2
<1>4. d * t \in Nat /\ e * t \in Nat
  BY <1>1, <1>2
<1>5. d * t + x < c * t + y
  BY <1>1, <1>3, <1>4
<1> QED
  BY <1>5 DEF t

\* A request that gets nearer to its end, or has a repetition less, has fewer
\* tries left.
LEMMA TriesShrink ==
  ASSUME TypeOK, TypeOK', NEW r \in Requests,
         \/ CallsLeft(r)' < CallsLeft(r)
         \/ CallsLeft(r)' = CallsLeft(r) /\ retries'[r] < retries[r]
  PROVE  TriesLeft(r)' \in Nat /\ TriesLeft(r)' < TriesLeft(r)
<1> USE CountsAssumption
<1> DEFINE c == CallsLeft(r)  d == CallsLeft(r)'
           x == retries'[r]   y == retries[r]
<1>1. c \in Nat /\ d \in Nat
  BY DEF TypeOK, CallsLeft
<1>2. x \in 0..RetryTotal /\ y \in 0..RetryTotal
  BY DEF TypeOK
<1>3. /\ TriesLeft(r) = c * (RetryTotal + 1) + y
      /\ TriesLeft(r)' = d * (RetryTotal + 1) + x
  BY DEF TriesLeft
<1>4. d < c \/ (d = c /\ x < y)
  OBVIOUS
<1> HIDE DEF c, d, x, y
<1>7. d * (RetryTotal + 1) \in Nat
  BY <1>1
<1>5. CASE d < c
  BY <1>1, <1>2, <1>3, <1>7, <1>5, CallsOutweighRetries
<1>6. CASE d = c /\ x < y
  BY <1>1, <1>2, <1>3, <1>7, <1>6
<1> QED
  BY <1>4, <1>5, <1>6

\* What a step of the request itself does to its measure, whatever its outcome.
LEMMA RequestGetsOn ==
  ASSUME IndInv, IndInv', NEW r \in Requests,
         \/ Reject(r) \/ ServicesUnavailable(r) \/ Begin(r)
         \/ CallSucceeds(r) \/ CallRefused(r) \/ CallLost(r)
  PROVE  \/ CallsLeft(r)' < CallsLeft(r)
         \/ CallsLeft(r)' = CallsLeft(r) /\ retries'[r] < retries[r]
<1> USE CountsAssumption DEF Calls, AzureCalls
<1>1. /\ pc[r] \in Calls \cup {"waiting", "answered", "killed"}
      /\ sent[r] \in 0..BlockCount /\ retries[r] \in 0..RetryTotal
      /\ pc[r] = "staging" => sent[r] < BlockCount
      /\ pc[r] \in {"waiting", "marking"} => sent[r] = 0
      /\ pc \in [Requests -> Calls \cup {"waiting", "answered", "killed"}]
      /\ sent \in [Requests -> 0..BlockCount]
      /\ retries \in [Requests -> 0..RetryTotal]
  BY DEF IndInv, TypeOK, CallsAndStoresAgree
<1>2. CASE Reject(r) \/ ServicesUnavailable(r)
  BY <1>1, <1>2 DEF Reject, ServicesUnavailable, Answer, CallsLeft
<1>3. CASE Begin(r)
  BY <1>1, <1>3 DEF Begin, Enter, CallsLeft
<1>4. CASE CallSucceeds(r)
  <2>1. CASE pc[r] = "staging"
    BY <1>1, <1>4, <2>1 DEF CallSucceeds, Advance, Enter, Answer, CallsLeft
  <2>2. CASE pc[r] = "persisting"
    BY <1>1, <1>4, <2>2 DEF CallSucceeds, Advance, Enter, Answer, CallsLeft
  <2>3. CASE pc[r] \in {"marking", "committing", "unmarking"}
    BY <1>1, <1>4, <2>3 DEF CallSucceeds, Advance, Enter, Answer, CallsLeft
  <2> QED
    BY <1>4, <2>1, <2>2, <2>3 DEF CallSucceeds
<1>5. CASE CallRefused(r)
  BY <1>1, <1>5 DEF CallRefused, Answer, CallsLeft
<1>6. CASE CallLost(r)
  <2>1. CASE retries[r] > 0
    BY <1>1, <1>6, <2>1 DEF CallLost, CallsLeft
  <2>2. CASE ~(retries[r] > 0)
    BY <1>1, <1>6, <2>2 DEF CallLost, Answer, CallsLeft
  <2> QED
    BY <2>1, <2>2
<1> QED
  BY <1>2, <1>3, <1>4, <1>5, <1>6

\* No request goes on for ever: whatever moves it - an answer, a repetition by
\* the SDK, the death of its process - uses up one of its
\* BlockCount + 4 calls with their RetryTotal repetitions, and nothing
\* that happens to the others, to a late call or in a reconciliation adds one.
THEOREM RequestsAreBounded ==
  Spec => [][\A r \in Requests : GetsOn(r)]_vars
<1>1. ASSUME IndInv, IndInv', Next, NEW r \in Requests
      PROVE  GetsOn(r)
  <2> USE DEF GetsOn
  <2>0. TypeOK /\ TypeOK'
    BY <1>1 DEF IndInv
  <2>1. ASSUME NEW q \in Requests, RequestStep(q), q # r
        PROVE  UNCHANGED <<pc[r], sent[r], retries[r]>>
    <3> USE <2>0, <2>1 DEF TypeOK
    <3>1. CASE Reject(q) \/ ServicesUnavailable(q) \/ Begin(q)
      BY <3>1 DEF Reject, ServicesUnavailable, Begin, Enter, Answer
    <3>2. CASE CallSucceeds(q)
      BY <3>2 DEF CallSucceeds, Advance, Enter, Answer
    <3>3. CASE CallRefused(q) \/ CallLost(q)
      BY <3>3 DEF CallRefused, CallLost, Answer
    <3>4. CASE LateCall(q) \/ MarkerAges(q)
      BY <3>4 DEF LateCall, MarkerAges, requests
    <3> QED
      BY <3>1, <3>2, <3>3, <3>4 DEF RequestStep
  <2>2. CASE RequestStep(r)
    <3>1. CASE LateCall(r) \/ MarkerAges(r)
      BY <3>1 DEF LateCall, MarkerAges, requests
    <3> QED
      BY <1>1, <2>0, <2>2, <3>1, RequestGetsOn, TriesShrink DEF RequestStep
  <2>3. CASE ApiKilled
    <3>1. CASE pc[r] \in Calls
      <4>1. CallsLeft(r)' < CallsLeft(r)
        BY <1>1, <2>0, <2>3, <3>1, CountsAssumption
        DEF ApiKilled, CallsLeft, Calls, AzureCalls, TypeOK
      <4> QED
        BY <2>0, <4>1, TriesShrink
    <3>2. CASE pc[r] \notin Calls
      BY <2>3, <3>2 DEF ApiKilled
    <3> QED
      BY <3>1, <3>2
  <2>4. CASE ReconcileStep
    BY <2>4, CommandLeavesTheService DEF service, requests
  <2> QED
    BY <1>1, <2>1, <2>2, <2>3, <2>4 DEF Next
<1>2. IndInv /\ IndInv' /\ [Next]_vars => [\A r \in Requests : GetsOn(r)]_vars
  BY <1>1
<1> QED
  BY <1>2, Invariance, PTL DEF Spec

=============================================================================
