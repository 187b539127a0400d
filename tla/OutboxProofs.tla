----------------------------- MODULE OutboxProofs ---------------------------
(***************************************************************************)
(* Proofs that hold for every number of workers, operators and events, all *)
(* settings and any number of faults: type correctness, the safety         *)
(* invariants of Outbox, its action properties, that a doomed worker has   *)
(* boundedly much before it, and that the outbox implements OutboxDelivery. *)
(*                                                                         *)
(* The inductive invariant is IndInv.  OwnedRowIsAsRead carries the        *)
(* argument about row locks, ActorsAndRowsAgree what each program counter  *)
(* entails, and DuplicatesAreInterruptions the count of copies; each       *)
(* needs the other two, so they are proved together, one lemma per part    *)
(* and one step per action.  CostInv adds the count of what faults cost.   *)
(***************************************************************************)
EXTENDS Outbox, FiniteSetTheorems, TLAPS

IndInv ==
  /\ TypeOK
  /\ OwnedRowIsAsRead
  /\ ActorsAndRowsAgree
  /\ DuplicatesAreInterruptions

-----------------------------------------------------------------------------
(* Lemmas about the operators of Outbox *)

WorkersTyped ==
  /\ wpc \in [Workers -> WorkerPC]
  /\ cur \in [Workers -> Events \cup {None}]
  /\ left \in [Workers -> 0..BatchSize]
  /\ open \in [Workers -> BOOLEAN]
  /\ stopping \in [Workers -> BOOLEAN]

\* A process that ends leaves well-typed worker variables.
LEMMA ExitTyped ==
  ASSUME TypeOK, NEW w \in Workers, Exit(w)
  PROVE  WorkersTyped'
<1>1. 0 \in 0..BatchSize
  BY SettingsAssumption
<1> QED
  BY <1>1 DEF TypeOK, Exit, CloseBroker, Goto, WorkersTyped, WorkerPC


\* So does one that puts its event down and goes on.
LEMMA PutDownTyped ==
  ASSUME TypeOK, NEW w \in Workers, NEW pc \in WorkerPC, NEW n \in 0..BatchSize,
         PutDown(w, pc, n)
  PROVE  WorkersTyped'
  BY DEF TypeOK, PutDown, Goto, WorkersTyped


\* An event whose lock its worker still owns has an attempt left.
LEMMA OwnedIsPending ==
  ASSUME TypeOK, OwnedRowIsAsRead, NEW w \in Workers, Owns(w)
  PROVE  /\ cur[w] \in Events
         /\ ~published[cur[w]]
         /\ attempts[cur[w]] < MaxAttempts
         /\ attempts[cur[w]] + 1 \in 0..MaxAttempts
  BY SettingsAssumption, ActorsAssumption DEF TypeOK, OwnedRowIsAsRead, Owns


\* mark_published and record_failure keep the rows typed.
LEMMA MarkTyped ==
  ASSUME TypeOK, OwnedRowIsAsRead, NEW w \in Workers, Owns(w),
         MarkPublished(cur[w]) \/ CountFailure(cur[w])
  PROVE  /\ status' \in [Events -> {"absent", "STORED", "PUBLISHED"}]
         /\ published' \in [Events -> BOOLEAN]
         /\ attempts' \in [Events -> 0..MaxAttempts]
         /\ cooling' \in [Events -> BOOLEAN]
<1> DEFINE e == cur[w]
<1>1. e \in Events /\ attempts[e] + 1 \in 0..MaxAttempts
  BY OwnedIsPending
<1> HIDE DEF e
<1>2. CASE MarkPublished(e)
  BY <1>1, <1>2 DEF MarkPublished, TypeOK
<1>3. CASE CountFailure(e)
  BY <1>1, <1>3 DEF CountFailure, TypeOK
<1> QED
  BY <1>2, <1>3 DEF e


\* Ending a transaction keeps the locks typed.
LEMMA ReleaseTyped ==
  ASSUME TypeOK, NEW a, Release(a)
  PROVE  lock' \in [Events -> Workers \cup Operators \cup {None}]
  BY DEF TypeOK, Release


\* Counting one more copy keeps a counter typed and positive.
LEMMA CountTyped ==
  ASSUME NEW f \in [Events -> Nat], NEW e \in Events
  PROVE  /\ [f EXCEPT ![e] = @ + 1] \in [Events -> Nat]
         /\ [f EXCEPT ![e] = @ + 1][e] > 0
         /\ \A d \in Events : [f EXCEPT ![e] = @ + 1][d] >= f[d]
<1>1. f[e] + 1 \in Nat /\ f[e] + 1 > 0 /\ f[e] + 1 >= f[e]
  OBVIOUS
<1>2. \A d \in Events : f[d] \in Nat /\ f[d] >= f[d]
  OBVIOUS
<1> QED
  BY <1>1, <1>2


-----------------------------------------------------------------------------
(* The inductive invariant, part by part *)

\* Every step keeps the types; attempts stays within its limit because only an
\* owned, hence pending, row is charged with an attempt.
LEMMA TypeStep ==
  ASSUME TypeOK, OwnedRowIsAsRead, ActorsAndRowsAgree, [Next]_vars
  PROVE  TypeOK'
<1> USE ActorsAssumption, SettingsAssumption, EventsAssumption
<1>1. ASSUME NEW e \in Events, Register(e) PROVE TypeOK'
  BY <1>1
  DEF Register, rows, workers, operators, broker, TypeOK, OwnedRowIsAsRead,
      ActorsAndRowsAgree, Holding, WorkerPC, Delivered
<1>2. ASSUME NEW e \in Events, BackoffElapses(e) PROVE TypeOK'
  BY <1>2
  DEF BackoffElapses, rows, workers, operators, broker, TypeOK,
      OwnedRowIsAsRead, ActorsAndRowsAgree, Holding, WorkerPC, Delivered
<1>3. ASSUME NEW e \in Events, BrokerAcceptStray(e) PROVE TypeOK'
  BY <1>3
  DEF BrokerAcceptStray, Count, rows, workers, operators, broker, TypeOK,
      OwnedRowIsAsRead, ActorsAndRowsAgree, Holding, WorkerPC, Delivered
<1>4. ASSUME NEW w \in Workers, StartWorker(w) PROVE TypeOK'
  BY <1>4
  DEF StartWorker, Connect, Goto, rows, workers, operators, broker, TypeOK,
      OwnedRowIsAsRead, ActorsAndRowsAgree, Holding, WorkerPC, Delivered
<1>5. ASSUME NEW w \in Workers, Poll(w) PROVE TypeOK'
  <2>1. WorkersTyped'
    BY <1>5, ExitTyped DEF Poll, Goto, TypeOK, WorkersTyped, WorkerPC
  <2> QED
    BY <1>5, <2>1 DEF Poll, TypeOK, WorkersTyped, rows, operators, broker
<1>6. ASSUME NEW w \in Workers, CheckReady(w) PROVE TypeOK'
  <2>1. WorkersTyped'
    BY <1>6, ExitTyped DEF CheckReady, Goto, TypeOK, WorkersTyped, WorkerPC
  <2> QED
    BY <1>6, <2>1 DEF CheckReady, TypeOK, WorkersTyped, rows, operators, broker
<1>7. ASSUME NEW w \in Workers, Pick(w) PROVE TypeOK'
  BY <1>7
  DEF Pick, Goto, Pickable, Pending, rows, workers, operators, broker, TypeOK,
      OwnedRowIsAsRead, ActorsAndRowsAgree, Holding, WorkerPC, Delivered
<1>8. ASSUME NEW w \in Workers, PickNothing(w) PROVE TypeOK'
  BY <1>8
  DEF PickNothing, PutDown, Goto, rows, workers, operators, broker, TypeOK,
      OwnedRowIsAsRead, ActorsAndRowsAgree, Holding, WorkerPC, Delivered
<1>9. ASSUME NEW w \in Workers, Send(w) PROVE TypeOK'
  BY <1>9
  DEF Send, Goto, rows, workers, operators, broker, TypeOK, OwnedRowIsAsRead,
      ActorsAndRowsAgree, Holding, WorkerPC, Delivered
<1>10. ASSUME NEW w \in Workers, Confirm(w) PROVE TypeOK'
  BY <1>10
  DEF Confirm, Goto, rows, workers, operators, broker, TypeOK,
      OwnedRowIsAsRead, ActorsAndRowsAgree, Holding, WorkerPC, Delivered
<1>11. ASSUME NEW w \in Workers, CommitPublished(w) PROVE TypeOK'
  <2>1. left[w] - 1 \in 0..BatchSize
    BY <1>11 DEF CommitPublished, ActorsAndRowsAgree, Holding, TypeOK
  <2>2. WorkersTyped'
    BY <1>11, <2>1, PutDownTyped DEF CommitPublished, WorkerPC
  <2> QED
    BY <1>11, <2>2, MarkTyped, ReleaseTyped
    DEF CommitPublished, TypeOK, WorkersTyped, operators, broker
<1>12. ASSUME NEW w \in Workers, CommitPublishedUnseen(w) PROVE TypeOK'
  BY <1>12, ExitTyped, MarkTyped, ReleaseTyped
  DEF CommitPublishedUnseen, Disturb, TypeOK, WorkersTyped, operators, broker
<1>13. ASSUME NEW w \in Workers, RecordFailure(w) PROVE TypeOK'
  <2>1. WorkersTyped'
    BY <1>13, ExitTyped, PutDownTyped DEF RecordFailure, WorkerPC
  <2> QED
  BY <1>13, <2>1, MarkTyped, ReleaseTyped
  DEF RecordFailure, TypeOK, WorkersTyped, operators, broker
<1>14. ASSUME NEW w \in Workers, RecordFailureUnseen(w) PROVE TypeOK'
  BY <1>14, ExitTyped, MarkTyped, ReleaseTyped
  DEF RecordFailureUnseen, Disturb, TypeOK, WorkersTyped, operators, broker
<1>15. ASSUME NEW w \in Workers, CommitFails(w) PROVE TypeOK'
  BY <1>15
  DEF CommitFails, Owns, Exit, CloseBroker, Goto, rows, workers, operators,
      broker, TypeOK, OwnedRowIsAsRead, ActorsAndRowsAgree, Holding, WorkerPC,
      Delivered
<1>16. ASSUME NEW w \in Workers, Wake(w) PROVE TypeOK'
  BY <1>16
  DEF Wake, PutDown, Goto, rows, workers, operators, broker, TypeOK,
      OwnedRowIsAsRead, ActorsAndRowsAgree, Holding, WorkerPC, Delivered
<1>17. ASSUME NEW w \in Workers, BrokerAccept(w) PROVE TypeOK'
  <2>1. cur[w] \in Events
    BY <1>17 DEF BrokerAccept, ActorsAndRowsAgree, Holding
  <2>2. queue' \in [Events -> Nat]
    BY <1>17, <2>1, CountTyped DEF BrokerAccept, Count, TypeOK
  <2>3. interrupted' \in [Events -> Nat]
    BY <1>17, <2>1, CountTyped DEF BrokerAccept, Count, TypeOK
  <2> QED
    BY <1>17, <2>2, <2>3
    DEF BrokerAccept, Goto, TypeOK, WorkerPC, rows, operators
<1>18. ASSUME NEW w \in Workers, BrokerRefuse(w) PROVE TypeOK'
  BY <1>18
  DEF BrokerRefuse, Goto, rows, workers, operators, broker, TypeOK,
      OwnedRowIsAsRead, ActorsAndRowsAgree, Holding, WorkerPC, Delivered
<1>19. ASSUME NEW w \in Workers, ConnectionLost(w) PROVE TypeOK'
  BY <1>19
  DEF ConnectionLost, Owns, AbandonPublish, Count, Goto, Disturb, rows,
      workers, operators, broker, TypeOK, OwnedRowIsAsRead,
      ActorsAndRowsAgree, Holding, WorkerPC, Delivered
<1>20. ASSUME NEW w \in Workers, SessionLost(w) PROVE TypeOK'
  BY <1>20
  DEF SessionLost, Owns, Release, Count, Disturb, rows, workers, operators,
      broker, TypeOK, OwnedRowIsAsRead, ActorsAndRowsAgree, Holding, WorkerPC,
      Delivered
<1>21. ASSUME NEW w \in Workers, Crash(w) PROVE TypeOK'
  BY <1>21
  DEF Crash, Owns, AbandonPublish, Count, Release, Exit, CloseBroker, Goto,
      Disturb, rows, workers, operators, broker, TypeOK, OwnedRowIsAsRead,
      ActorsAndRowsAgree, Holding, WorkerPC, Delivered
<1>22. ASSUME NEW w \in Workers, RequestStop(w) PROVE TypeOK'
  BY <1>22
  DEF RequestStop, Disturb, rows, workers, operators, broker, TypeOK,
      OwnedRowIsAsRead, ActorsAndRowsAgree, Holding, WorkerPC, Delivered
<1>23. ASSUME NEW o \in Operators, NEW e \in Events, RequeueGet(o, e) PROVE
       TypeOK'
  BY <1>23
  DEF RequeueGet, Exhausted, rows, workers, operators, broker, TypeOK,
      OwnedRowIsAsRead, ActorsAndRowsAgree, Holding, WorkerPC, Delivered
<1>24. ASSUME NEW o \in Operators, RequeueUpdate(o) PROVE TypeOK'
  BY <1>24
  DEF RequeueUpdate, Exhausted, Leave, rows, workers, operators, broker,
      TypeOK, OwnedRowIsAsRead, ActorsAndRowsAgree, Holding, WorkerPC,
      Delivered
<1>25. ASSUME NEW o \in Operators, RequeueCommit(o) PROVE TypeOK'
  BY <1>25
  DEF RequeueCommit, Release, Leave, rows, workers, operators, broker, TypeOK,
      OwnedRowIsAsRead, ActorsAndRowsAgree, Holding, WorkerPC, Delivered
<1>26. ASSUME NEW o \in Operators, RequeueFails(o) PROVE TypeOK'
  BY <1>26
  DEF RequeueFails, Release, Leave, rows, workers, operators, broker, TypeOK,
      OwnedRowIsAsRead, ActorsAndRowsAgree, Holding, WorkerPC, Delivered
<1>27. CASE UNCHANGED vars
  BY <1>27 DEF vars, rows, workers, operators, broker, TypeOK,
      OwnedRowIsAsRead, ActorsAndRowsAgree, Holding, WorkerPC, Delivered
<1> QED
  BY <1>1, <1>2, <1>3, <1>4, <1>5, <1>6, <1>7, <1>8, <1>9, <1>10, <1>11,
     <1>12, <1>13, <1>14, <1>15, <1>16, <1>17, <1>18, <1>19, <1>20, <1>21,
     <1>22, <1>23, <1>24, <1>25, <1>26, <1>27
  DEF Next, EventStep, WorkerStep, BrokerAnswers, Disturbance, RequeueStep

\* Every step leaves alone the rows that other transactions own.
LEMMA OwnStep ==
  ASSUME TypeOK, OwnedRowIsAsRead, ActorsAndRowsAgree, [Next]_vars
  PROVE  OwnedRowIsAsRead'
<1> USE ActorsAssumption, SettingsAssumption, EventsAssumption
<1>1. ASSUME NEW e \in Events, Register(e) PROVE OwnedRowIsAsRead'
  BY <1>1
  DEF Register, rows, workers, operators, broker, TypeOK, OwnedRowIsAsRead,
      ActorsAndRowsAgree, Holding, Exhausted, Delivered
<1>2. ASSUME NEW e \in Events, BackoffElapses(e) PROVE OwnedRowIsAsRead'
  BY <1>2
  DEF BackoffElapses, rows, workers, operators, broker, TypeOK,
      OwnedRowIsAsRead, ActorsAndRowsAgree, Holding, Exhausted, Delivered
<1>3. ASSUME NEW e \in Events, BrokerAcceptStray(e) PROVE OwnedRowIsAsRead'
  BY <1>3
  DEF BrokerAcceptStray, Count, rows, workers, operators, broker, TypeOK,
      OwnedRowIsAsRead, ActorsAndRowsAgree, Holding, Exhausted, Delivered
<1>4. ASSUME NEW w \in Workers, StartWorker(w) PROVE OwnedRowIsAsRead'
  BY <1>4
  DEF StartWorker, Connect, Goto, rows, workers, operators, broker, TypeOK,
      OwnedRowIsAsRead, ActorsAndRowsAgree, Holding, Exhausted, Delivered
<1>5. ASSUME NEW w \in Workers, Poll(w) PROVE OwnedRowIsAsRead'
  BY <1>5
  DEF Poll, Goto, Exit, CloseBroker, rows, workers, operators, broker, TypeOK,
      OwnedRowIsAsRead, ActorsAndRowsAgree, Holding, Exhausted, Delivered
<1>6. ASSUME NEW w \in Workers, CheckReady(w) PROVE OwnedRowIsAsRead'
  BY <1>6
  DEF CheckReady, Goto, Exit, CloseBroker, rows, workers, operators, broker,
      TypeOK, OwnedRowIsAsRead, ActorsAndRowsAgree, Holding, Exhausted,
      Delivered
<1>7. ASSUME NEW w \in Workers, Pick(w) PROVE OwnedRowIsAsRead'
   <2>1. PICK e \in Events : /\ Pickable(e)
                            /\ lock' = [lock EXCEPT ![e] = w]
                            /\ cur' = [cur EXCEPT ![w] = e]
     BY <1>7 DEF Pick
   <2>2. \A f \in Events : lock[f] # w
     BY <1>7 DEF OwnedRowIsAsRead, Pick, Holding
   <2>3. /\ UNCHANGED <<published, attempts, status, opc, target>>
         /\ wpc' = [wpc EXCEPT ![w] = "locked"]
     BY <1>7 DEF Pick, Goto, rows, operators
   <2> QED
     BY <2>1, <2>2, <2>3
     DEF OwnedRowIsAsRead, Pickable, Pending, TypeOK, Holding, Exhausted
<1>8. ASSUME NEW w \in Workers, PickNothing(w) PROVE OwnedRowIsAsRead'
  BY <1>8
  DEF PickNothing, PutDown, Goto, rows, workers, operators, broker, TypeOK,
      OwnedRowIsAsRead, ActorsAndRowsAgree, Holding, Exhausted, Delivered
<1>9. ASSUME NEW w \in Workers, Send(w) PROVE OwnedRowIsAsRead'
  BY <1>9
  DEF Send, Goto, rows, workers, operators, broker, TypeOK, OwnedRowIsAsRead,
      ActorsAndRowsAgree, Holding, Exhausted, Delivered
<1>10. ASSUME NEW w \in Workers, Confirm(w) PROVE OwnedRowIsAsRead'
  BY <1>10
  DEF Confirm, Goto, rows, workers, operators, broker, TypeOK,
      OwnedRowIsAsRead, ActorsAndRowsAgree, Holding, Exhausted, Delivered
<1>11. ASSUME NEW w \in Workers, CommitPublished(w) PROVE OwnedRowIsAsRead'
  BY <1>11
  DEF CommitPublished, Owns, MarkPublished, Release, PutDown, Goto, rows,
      workers, operators, broker, TypeOK, OwnedRowIsAsRead,
      ActorsAndRowsAgree, Holding, Exhausted, Delivered
<1>12. ASSUME NEW w \in Workers, CommitPublishedUnseen(w) PROVE
       OwnedRowIsAsRead'
  BY <1>12
  DEF CommitPublishedUnseen, Owns, MarkPublished, Release, Exit, CloseBroker,
      Goto, Disturb, rows, workers, operators, broker, TypeOK, OwnedRowIsAsRead,
      ActorsAndRowsAgree, Holding, Exhausted, Delivered
<1>13. ASSUME NEW w \in Workers, RecordFailure(w) PROVE OwnedRowIsAsRead'
  BY <1>13
  DEF RecordFailure, Owns, CountFailure, Release, PutDown, Exit, CloseBroker,
      Goto, rows, workers, operators, broker, TypeOK, OwnedRowIsAsRead,
      ActorsAndRowsAgree, Holding, Exhausted, Delivered
<1>14. ASSUME NEW w \in Workers, RecordFailureUnseen(w) PROVE
       OwnedRowIsAsRead'
  BY <1>14
  DEF RecordFailureUnseen, Owns, CountFailure, Release, Exit, CloseBroker, Goto,
      Disturb, rows, workers, operators, broker, TypeOK, OwnedRowIsAsRead,
      ActorsAndRowsAgree, Holding, Exhausted, Delivered
<1>15. ASSUME NEW w \in Workers, CommitFails(w) PROVE OwnedRowIsAsRead'
  BY <1>15
  DEF CommitFails, Owns, Exit, CloseBroker, Goto, rows, workers, operators,
      broker, TypeOK, OwnedRowIsAsRead, ActorsAndRowsAgree, Holding, Exhausted,
      Delivered
<1>16. ASSUME NEW w \in Workers, Wake(w) PROVE OwnedRowIsAsRead'
  BY <1>16
  DEF Wake, PutDown, Goto, rows, workers, operators, broker, TypeOK,
      OwnedRowIsAsRead, ActorsAndRowsAgree, Holding, Exhausted, Delivered
<1>17. ASSUME NEW w \in Workers, BrokerAccept(w) PROVE OwnedRowIsAsRead'
  BY <1>17
  DEF BrokerAccept, Owns, Count, Goto, rows, workers, operators, broker,
      TypeOK, OwnedRowIsAsRead, ActorsAndRowsAgree, Holding, Exhausted,
      Delivered
<1>18. ASSUME NEW w \in Workers, BrokerRefuse(w) PROVE OwnedRowIsAsRead'
  BY <1>18
  DEF BrokerRefuse, Goto, rows, workers, operators, broker, TypeOK,
      OwnedRowIsAsRead, ActorsAndRowsAgree, Holding, Exhausted, Delivered
<1>19. ASSUME NEW w \in Workers, ConnectionLost(w) PROVE OwnedRowIsAsRead'
  BY <1>19
  DEF ConnectionLost, Owns, AbandonPublish, Count, Goto, Disturb, rows,
      workers, operators, broker, TypeOK, OwnedRowIsAsRead,
      ActorsAndRowsAgree, Holding, Exhausted, Delivered
<1>20. ASSUME NEW w \in Workers, SessionLost(w) PROVE OwnedRowIsAsRead'
  BY <1>20
  DEF SessionLost, Owns, Release, Count, Disturb, rows, workers, operators,
      broker, TypeOK, OwnedRowIsAsRead, ActorsAndRowsAgree, Holding,
      Exhausted, Delivered
<1>21. ASSUME NEW w \in Workers, Crash(w) PROVE OwnedRowIsAsRead'
  BY <1>21
  DEF Crash, Owns, AbandonPublish, Count, Release, Exit, CloseBroker, Goto,
      Disturb, rows, workers, operators, broker, TypeOK, OwnedRowIsAsRead,
      ActorsAndRowsAgree, Holding, Exhausted, Delivered
<1>22. ASSUME NEW w \in Workers, RequestStop(w) PROVE OwnedRowIsAsRead'
  BY <1>22
  DEF RequestStop, Disturb, rows, workers, operators, broker, TypeOK,
      OwnedRowIsAsRead, ActorsAndRowsAgree, Holding, Exhausted, Delivered
<1>23. ASSUME NEW o \in Operators, NEW e \in Events, RequeueGet(o, e) PROVE
       OwnedRowIsAsRead'
  BY <1>23
  DEF RequeueGet, Exhausted, rows, workers, operators, broker, TypeOK,
      OwnedRowIsAsRead, ActorsAndRowsAgree, Holding, Delivered
<1>24. ASSUME NEW o \in Operators, RequeueUpdate(o) PROVE OwnedRowIsAsRead'
  BY <1>24
  DEF RequeueUpdate, Exhausted, Leave, rows, workers, operators, broker,
      TypeOK, OwnedRowIsAsRead, ActorsAndRowsAgree, Holding, Delivered
<1>25. ASSUME NEW o \in Operators, RequeueCommit(o) PROVE OwnedRowIsAsRead'
  BY <1>25
  DEF RequeueCommit, Release, Leave, rows, workers, operators, broker, TypeOK,
      OwnedRowIsAsRead, ActorsAndRowsAgree, Holding, Exhausted, Delivered
<1>26. ASSUME NEW o \in Operators, RequeueFails(o) PROVE OwnedRowIsAsRead'
  BY <1>26
  DEF RequeueFails, Release, Leave, rows, workers, operators, broker, TypeOK,
      OwnedRowIsAsRead, ActorsAndRowsAgree, Holding, Exhausted, Delivered
<1>27. CASE UNCHANGED vars
  BY <1>27 DEF vars, rows, workers, operators, broker, TypeOK,
      OwnedRowIsAsRead, ActorsAndRowsAgree, Holding, Exhausted, Delivered
<1> QED
  BY <1>1, <1>2, <1>3, <1>4, <1>5, <1>6, <1>7, <1>8, <1>9, <1>10, <1>11,
     <1>12, <1>13, <1>14, <1>15, <1>16, <1>17, <1>18, <1>19, <1>20, <1>21,
     <1>22, <1>23, <1>24, <1>25, <1>26, <1>27
  DEF Next, EventStep, WorkerStep, BrokerAnswers, Disturbance, RequeueStep

\* Every step keeps processes, rows, locks and queue in agreement.
LEMMA AgreeStep ==
  ASSUME TypeOK, OwnedRowIsAsRead, ActorsAndRowsAgree, [Next]_vars
  PROVE  ActorsAndRowsAgree'
<1> USE ActorsAssumption, SettingsAssumption, EventsAssumption
<1>1. ASSUME NEW e \in Events, Register(e) PROVE ActorsAndRowsAgree'
  BY <1>1
  DEF Register, rows, workers, operators, broker, TypeOK, OwnedRowIsAsRead,
      ActorsAndRowsAgree, Holding, Delivered
<1>2. ASSUME NEW e \in Events, BackoffElapses(e) PROVE ActorsAndRowsAgree'
  BY <1>2
  DEF BackoffElapses, rows, workers, operators, broker, TypeOK,
      OwnedRowIsAsRead, ActorsAndRowsAgree, Holding, Delivered
<1>3. ASSUME NEW e \in Events, BrokerAcceptStray(e) PROVE ActorsAndRowsAgree'
  BY <1>3
  DEF BrokerAcceptStray, Count, rows, workers, operators, broker, TypeOK,
      OwnedRowIsAsRead, ActorsAndRowsAgree, Holding, Delivered
<1>4. ASSUME NEW w \in Workers, StartWorker(w) PROVE ActorsAndRowsAgree'
  BY <1>4
  DEF StartWorker, Connect, Goto, rows, workers, operators, broker, TypeOK,
      OwnedRowIsAsRead, ActorsAndRowsAgree, Holding, Delivered
<1>5. ASSUME NEW w \in Workers, Poll(w) PROVE ActorsAndRowsAgree'
  BY <1>5
  DEF Poll, Goto, Exit, CloseBroker, rows, workers, operators, broker, TypeOK,
      OwnedRowIsAsRead, ActorsAndRowsAgree, Holding, Delivered
<1>6. ASSUME NEW w \in Workers, CheckReady(w) PROVE ActorsAndRowsAgree'
  BY <1>6
  DEF CheckReady, Goto, Exit, CloseBroker, rows, workers, operators, broker,
      TypeOK, OwnedRowIsAsRead, ActorsAndRowsAgree, Holding, Delivered
<1>7. ASSUME NEW w \in Workers, Pick(w) PROVE ActorsAndRowsAgree'
  BY <1>7
  DEF Pick, Goto, Pickable, Pending, rows, workers, operators, broker, TypeOK,
      OwnedRowIsAsRead, ActorsAndRowsAgree, Holding, Delivered
<1>8. ASSUME NEW w \in Workers, PickNothing(w) PROVE ActorsAndRowsAgree'
  BY <1>8
  DEF PickNothing, PutDown, Goto, rows, workers, operators, broker, TypeOK,
      OwnedRowIsAsRead, ActorsAndRowsAgree, Holding, Delivered
<1>9. ASSUME NEW w \in Workers, Send(w) PROVE ActorsAndRowsAgree'
  BY <1>9
  DEF Send, Goto, rows, workers, operators, broker, TypeOK, OwnedRowIsAsRead,
      ActorsAndRowsAgree, Holding, Delivered
<1>10. ASSUME NEW w \in Workers, Confirm(w) PROVE ActorsAndRowsAgree'
  BY <1>10
  DEF Confirm, Goto, rows, workers, operators, broker, TypeOK,
      OwnedRowIsAsRead, ActorsAndRowsAgree, Holding, Delivered
<1>11. ASSUME NEW w \in Workers, CommitPublished(w) PROVE ActorsAndRowsAgree'
  BY <1>11
  DEF CommitPublished, Owns, MarkPublished, Release, PutDown, Goto, rows,
      workers, operators, broker, TypeOK, OwnedRowIsAsRead,
      ActorsAndRowsAgree, Holding, Delivered
<1>12. ASSUME NEW w \in Workers, CommitPublishedUnseen(w) PROVE
       ActorsAndRowsAgree'
  BY <1>12
  DEF CommitPublishedUnseen, Owns, MarkPublished, Release, Exit, CloseBroker,
      Goto, Disturb, rows, workers, operators, broker, TypeOK, OwnedRowIsAsRead,
      ActorsAndRowsAgree, Holding, Delivered
<1>13. ASSUME NEW w \in Workers, RecordFailure(w) PROVE ActorsAndRowsAgree'
  BY <1>13
  DEF RecordFailure, Owns, CountFailure, Release, PutDown, Exit, CloseBroker,
      Goto, rows, workers, operators, broker, TypeOK, OwnedRowIsAsRead,
      ActorsAndRowsAgree, Holding, Delivered
<1>14. ASSUME NEW w \in Workers, RecordFailureUnseen(w) PROVE
       ActorsAndRowsAgree'
  BY <1>14
  DEF RecordFailureUnseen, Owns, CountFailure, Release, Exit, CloseBroker, Goto,
      Disturb, rows, workers, operators, broker, TypeOK, OwnedRowIsAsRead,
      ActorsAndRowsAgree, Holding, Delivered
<1>15. ASSUME NEW w \in Workers, CommitFails(w) PROVE ActorsAndRowsAgree'
  BY <1>15
  DEF CommitFails, Owns, Exit, CloseBroker, Goto, rows, workers, operators,
      broker, TypeOK, OwnedRowIsAsRead, ActorsAndRowsAgree, Holding, Delivered
<1>16. ASSUME NEW w \in Workers, Wake(w) PROVE ActorsAndRowsAgree'
  BY <1>16
  DEF Wake, PutDown, Goto, rows, workers, operators, broker, TypeOK,
      OwnedRowIsAsRead, ActorsAndRowsAgree, Holding, Delivered
<1>17. ASSUME NEW w \in Workers, BrokerAccept(w) PROVE ActorsAndRowsAgree'
  <2>1. cur[w] \in Events /\ status[cur[w]] # "absent" /\ left[w] > 0
    BY <1>17 DEF BrokerAccept, ActorsAndRowsAgree, Holding
  <2>2. /\ wpc'[w] = "accepted"
        /\ \A v \in Workers : v # w => wpc'[v] = wpc[v]
        /\ UNCHANGED <<cur, left, rows, lock, operators, stray>>
    BY <1>17 DEF BrokerAccept, Goto, TypeOK
  <2>3. /\ queue'[cur[w]] > 0
        /\ \A e \in Events : queue[e] > 0 => queue'[e] > 0
    <3>1. /\ queue \in [Events -> Nat]
          /\ queue' = [queue EXCEPT ![cur[w]] = queue[cur[w]] + 1]
      BY <1>17 DEF BrokerAccept, Count, TypeOK
    <3>2. queue[cur[w]] \in Nat /\ queue'[cur[w]] = queue[cur[w]] + 1
      BY <3>1, <2>1
    <3> QED
      BY <3>1, <3>2, <2>1
  <2>5. ASSUME NEW v \in Workers
        PROVE  /\ wpc'[v] \in Holding => /\ cur'[v] \in Events
                                         /\ status'[cur'[v]] # "absent"
               /\ wpc'[v] \notin Holding => cur'[v] = None
               /\ wpc'[v] \in Holding \cup {"checking", "picking"} =>
                    left'[v] > 0
     BY <2>1, <2>2 DEF ActorsAndRowsAgree, Holding, rows
  <2>6. ASSUME NEW v \in Workers, wpc'[v] \in Delivered
        PROVE  queue'[cur'[v]] > 0
     <3>1. CASE v = w
        BY <2>2, <2>3, <3>1
     <3>2. CASE v # w
        <4>1. cur[v] \in Events /\ queue[cur[v]] > 0
          BY <2>6, <2>2, <3>2 DEF ActorsAndRowsAgree, Holding, Delivered
        <4>2. cur'[v] = cur[v]
          BY <2>2
        <4> QED BY <4>1, <4>2, <2>3
     <3> QED BY <3>1, <3>2
  <2>7. ASSUME NEW e \in Events
        PROVE  published'[e] => queue'[e] > 0
     BY <2>2, <2>3 DEF ActorsAndRowsAgree, rows
  <2> QED
    BY <2>2, <2>5, <2>6, <2>7 DEF ActorsAndRowsAgree, rows, operators
<1>18. ASSUME NEW w \in Workers, BrokerRefuse(w) PROVE ActorsAndRowsAgree'
  BY <1>18
  DEF BrokerRefuse, Goto, rows, workers, operators, broker, TypeOK,
      OwnedRowIsAsRead, ActorsAndRowsAgree, Holding, Delivered
<1>19. ASSUME NEW w \in Workers, ConnectionLost(w) PROVE ActorsAndRowsAgree'
  BY <1>19
  DEF ConnectionLost, Owns, AbandonPublish, Count, Goto, Disturb, rows,
      workers, operators, broker, TypeOK, OwnedRowIsAsRead,
      ActorsAndRowsAgree, Holding, Delivered
<1>20. ASSUME NEW w \in Workers, SessionLost(w) PROVE ActorsAndRowsAgree'
  BY <1>20
  DEF SessionLost, Owns, Release, Count, Disturb, rows, workers, operators,
      broker, TypeOK, OwnedRowIsAsRead, ActorsAndRowsAgree, Holding, Delivered
<1>21. ASSUME NEW w \in Workers, Crash(w) PROVE ActorsAndRowsAgree'
  BY <1>21
  DEF Crash, Owns, AbandonPublish, Count, Release, Exit, CloseBroker, Goto,
      Disturb, rows, workers, operators, broker, TypeOK, OwnedRowIsAsRead,
      ActorsAndRowsAgree, Holding, Delivered
<1>22. ASSUME NEW w \in Workers, RequestStop(w) PROVE ActorsAndRowsAgree'
  BY <1>22
  DEF RequestStop, Disturb, rows, workers, operators, broker, TypeOK,
      OwnedRowIsAsRead, ActorsAndRowsAgree, Holding, Delivered
<1>23. ASSUME NEW o \in Operators, NEW e \in Events, RequeueGet(o, e) PROVE
       ActorsAndRowsAgree'
  BY <1>23
  DEF RequeueGet, Exhausted, rows, workers, operators, broker, TypeOK,
      OwnedRowIsAsRead, ActorsAndRowsAgree, Holding, Delivered
<1>24. ASSUME NEW o \in Operators, RequeueUpdate(o) PROVE ActorsAndRowsAgree'
  <2>1. target[o] \in Events
    BY <1>24 DEF RequeueUpdate, ActorsAndRowsAgree
  <2>2. CASE Exhausted(target[o])
    <3>1. \A p \in Operators : opc[p] = "updated" => target[p] # target[o]
      BY <1>24, <2>1 DEF RequeueUpdate, ActorsAndRowsAgree
    <3> QED
      BY <1>24, <2>1, <2>2, <3>1
      DEF RequeueUpdate, TypeOK, ActorsAndRowsAgree, rows, workers, broker
  <2>3. CASE ~Exhausted(target[o])
    <3>1. UNCHANGED <<rows, workers, broker, lock>>
      BY <1>24, <2>3 DEF RequeueUpdate
    <3>2. \A p \in Operators : opc'[p] # "idle" => /\ opc'[p] = opc[p]
                                                  /\ target'[p] = target[p]
      BY <1>24, <2>3 DEF RequeueUpdate, Leave, TypeOK
    <3> QED
      BY <3>1, <3>2 DEF ActorsAndRowsAgree, rows, workers, broker
  <2> QED
    BY <2>2, <2>3
<1>25. ASSUME NEW o \in Operators, RequeueCommit(o) PROVE ActorsAndRowsAgree'
  BY <1>25
  DEF RequeueCommit, Release, Leave, rows, workers, operators, broker, TypeOK,
      OwnedRowIsAsRead, ActorsAndRowsAgree, Holding, Delivered
<1>26. ASSUME NEW o \in Operators, RequeueFails(o) PROVE ActorsAndRowsAgree'
  BY <1>26
  DEF RequeueFails, Release, Leave, rows, workers, operators, broker, TypeOK,
      OwnedRowIsAsRead, ActorsAndRowsAgree, Holding, Delivered
<1>27. CASE UNCHANGED vars
  BY <1>27 DEF vars, rows, workers, operators, broker, TypeOK,
      OwnedRowIsAsRead, ActorsAndRowsAgree, Holding, Delivered
<1> QED
  BY <1>1, <1>2, <1>3, <1>4, <1>5, <1>6, <1>7, <1>8, <1>9, <1>10, <1>11,
     <1>12, <1>13, <1>14, <1>15, <1>16, <1>17, <1>18, <1>19, <1>20, <1>21,
     <1>22, <1>23, <1>24, <1>25, <1>26, <1>27
  DEF Next, EventStep, WorkerStep, BrokerAnswers, Disturbance, RequeueStep

\* Every new copy is about to be acknowledged or counted as interrupted.
LEMMA DupStep ==
  ASSUME IndInv, [Next]_vars
  PROVE  DuplicatesAreInterruptions'
<1> USE ActorsAssumption, SettingsAssumption, EventsAssumption
<1>1. ASSUME NEW e \in Events, Register(e) PROVE DuplicatesAreInterruptions'
  BY <1>1
  DEF Register, rows, workers, operators, broker, IndInv, TypeOK,
      OwnedRowIsAsRead, ActorsAndRowsAgree, DuplicatesAreInterruptions,
      Holding, Delivered, Acknowledged
<1>2. ASSUME NEW e \in Events, BackoffElapses(e) PROVE
       DuplicatesAreInterruptions'
  BY <1>2
  DEF BackoffElapses, rows, workers, operators, broker, IndInv, TypeOK,
      OwnedRowIsAsRead, ActorsAndRowsAgree, DuplicatesAreInterruptions,
      Holding, Delivered, Acknowledged
<1>3. ASSUME NEW e \in Events, BrokerAcceptStray(e) PROVE
       DuplicatesAreInterruptions'
  BY <1>3
  DEF BrokerAcceptStray, Count, rows, workers, operators, broker, IndInv,
      TypeOK, OwnedRowIsAsRead, ActorsAndRowsAgree,
      DuplicatesAreInterruptions, Holding, Delivered, Acknowledged
<1>4. ASSUME NEW w \in Workers, StartWorker(w) PROVE
       DuplicatesAreInterruptions'
  BY <1>4
  DEF StartWorker, Connect, Goto, rows, workers, operators, broker, IndInv,
      TypeOK, OwnedRowIsAsRead, ActorsAndRowsAgree, DuplicatesAreInterruptions,
      Holding, Delivered, Acknowledged
<1>5. ASSUME NEW w \in Workers, Poll(w) PROVE DuplicatesAreInterruptions'
  BY <1>5
  DEF Poll, Goto, Exit, CloseBroker, rows, workers, operators, broker, IndInv,
      TypeOK, OwnedRowIsAsRead, ActorsAndRowsAgree, DuplicatesAreInterruptions,
      Holding, Delivered, Acknowledged
<1>6. ASSUME NEW w \in Workers, CheckReady(w) PROVE
       DuplicatesAreInterruptions'
  BY <1>6
  DEF CheckReady, Goto, Exit, CloseBroker, rows, workers, operators, broker,
      IndInv, TypeOK, OwnedRowIsAsRead, ActorsAndRowsAgree,
      DuplicatesAreInterruptions, Holding, Delivered, Acknowledged
<1>7. ASSUME NEW w \in Workers, Pick(w) PROVE DuplicatesAreInterruptions'
   <2>1. PICK e \in Events : /\ Pickable(e)
                            /\ lock' = [lock EXCEPT ![e] = w]
                            /\ cur' = [cur EXCEPT ![w] = e]
     BY <1>7 DEF Pick
   <2>2. \A f \in Events : lock[f] # w
     BY <1>7 DEF IndInv, OwnedRowIsAsRead, Pick, Holding
   <2>3. UNCHANGED <<published, queue, stray, interrupted>>
         /\ wpc' = [wpc EXCEPT ![w] = "locked"]
     BY <1>7 DEF Pick, Goto, rows, broker
   <2>4. \A f \in Events : Acknowledged(f) => Acknowledged(f)'
     BY <2>1, <2>2, <2>3
     DEF IndInv, TypeOK, Pickable, Delivered, Acknowledged
   <2>5. ASSUME NEW f \in Events
         PROVE  queue'[f] + stray'[f] <=
                  interrupted'[f] + IF Acknowledged(f)' THEN 1 ELSE 0
      <3>1. queue[f] \in Nat /\ stray[f] \in Nat /\ interrupted[f] \in Nat
        BY DEF IndInv, TypeOK
      <3>2. queue[f] + stray[f] <=
              interrupted[f] + IF Acknowledged(f) THEN 1 ELSE 0
        BY <1>7 DEF IndInv, DuplicatesAreInterruptions
      <3> QED BY <3>1, <3>2, <2>3, <2>4
   <2> QED
     BY <2>5 DEF DuplicatesAreInterruptions
<1>8. ASSUME NEW w \in Workers, PickNothing(w) PROVE
       DuplicatesAreInterruptions'
  BY <1>8
  DEF PickNothing, PutDown, Goto, rows, workers, operators, broker, IndInv,
      TypeOK, OwnedRowIsAsRead, ActorsAndRowsAgree,
      DuplicatesAreInterruptions, Holding, Delivered, Acknowledged
<1>9. ASSUME NEW w \in Workers, Send(w) PROVE DuplicatesAreInterruptions'
  BY <1>9
  DEF Send, Goto, rows, workers, operators, broker, IndInv, TypeOK,
      OwnedRowIsAsRead, ActorsAndRowsAgree, DuplicatesAreInterruptions,
      Holding, Delivered, Acknowledged
<1>10. ASSUME NEW w \in Workers, Confirm(w) PROVE DuplicatesAreInterruptions'
  BY <1>10
  DEF Confirm, Goto, rows, workers, operators, broker, IndInv, TypeOK,
      OwnedRowIsAsRead, ActorsAndRowsAgree, DuplicatesAreInterruptions,
      Holding, Delivered, Acknowledged
<1>11. ASSUME NEW w \in Workers, CommitPublished(w) PROVE
       DuplicatesAreInterruptions'
  BY <1>11
  DEF CommitPublished, Owns, MarkPublished, Release, PutDown, Goto, rows,
      workers, operators, broker, IndInv, TypeOK, OwnedRowIsAsRead,
      ActorsAndRowsAgree, DuplicatesAreInterruptions, Holding, Delivered,
      Acknowledged
<1>12. ASSUME NEW w \in Workers, CommitPublishedUnseen(w) PROVE
       DuplicatesAreInterruptions'
  BY <1>12
  DEF CommitPublishedUnseen, Owns, MarkPublished, Release, Exit, CloseBroker,
      Goto, Disturb, rows, workers, operators, broker, IndInv, TypeOK,
      OwnedRowIsAsRead, ActorsAndRowsAgree, DuplicatesAreInterruptions, Holding,
      Delivered, Acknowledged
<1>13. ASSUME NEW w \in Workers, RecordFailure(w) PROVE
       DuplicatesAreInterruptions'
  BY <1>13
  DEF RecordFailure, Owns, CountFailure, Release, PutDown, Exit, CloseBroker,
      Goto, rows, workers, operators, broker, IndInv, TypeOK, OwnedRowIsAsRead,
      ActorsAndRowsAgree, DuplicatesAreInterruptions, Holding, Delivered,
      Acknowledged
<1>14. ASSUME NEW w \in Workers, RecordFailureUnseen(w) PROVE
       DuplicatesAreInterruptions'
  BY <1>14
  DEF RecordFailureUnseen, Owns, CountFailure, Release, Exit, CloseBroker, Goto,
      Disturb, rows, workers, operators, broker, IndInv, TypeOK,
      OwnedRowIsAsRead, ActorsAndRowsAgree, DuplicatesAreInterruptions, Holding,
      Delivered, Acknowledged
<1>15. ASSUME NEW w \in Workers, CommitFails(w) PROVE
       DuplicatesAreInterruptions'
  BY <1>15
  DEF CommitFails, Owns, Exit, CloseBroker, Goto, rows, workers, operators,
      broker, IndInv, TypeOK, OwnedRowIsAsRead, ActorsAndRowsAgree,
      DuplicatesAreInterruptions, Holding, Delivered, Acknowledged
<1>16. ASSUME NEW w \in Workers, Wake(w) PROVE DuplicatesAreInterruptions'
  BY <1>16
  DEF Wake, PutDown, Goto, rows, workers, operators, broker, IndInv, TypeOK,
      OwnedRowIsAsRead, ActorsAndRowsAgree, DuplicatesAreInterruptions,
      Holding, Delivered, Acknowledged
<1>17. ASSUME NEW w \in Workers, BrokerAccept(w) PROVE
       DuplicatesAreInterruptions'
  BY <1>17
  DEF BrokerAccept, Owns, Count, Goto, rows, workers, operators, broker,
      IndInv, TypeOK, OwnedRowIsAsRead, ActorsAndRowsAgree,
      DuplicatesAreInterruptions, Holding, Delivered, Acknowledged
<1>18. ASSUME NEW w \in Workers, BrokerRefuse(w) PROVE
       DuplicatesAreInterruptions'
  BY <1>18
  DEF BrokerRefuse, Goto, rows, workers, operators, broker, IndInv, TypeOK,
      OwnedRowIsAsRead, ActorsAndRowsAgree, DuplicatesAreInterruptions,
      Holding, Delivered, Acknowledged
<1>19. ASSUME NEW w \in Workers, ConnectionLost(w) PROVE
       DuplicatesAreInterruptions'
  BY <1>19
  DEF ConnectionLost, Owns, AbandonPublish, Count, Goto, Disturb, rows,
      workers, operators, broker, IndInv, TypeOK, OwnedRowIsAsRead,
      ActorsAndRowsAgree, DuplicatesAreInterruptions, Holding, Delivered,
      Acknowledged
<1>20. ASSUME NEW w \in Workers, SessionLost(w) PROVE
       DuplicatesAreInterruptions'
  BY <1>20
  DEF SessionLost, Owns, Release, Count, Disturb, rows, workers, operators,
      broker, IndInv, TypeOK, OwnedRowIsAsRead, ActorsAndRowsAgree,
      DuplicatesAreInterruptions, Holding, Delivered, Acknowledged
<1>21. ASSUME NEW w \in Workers, Crash(w) PROVE DuplicatesAreInterruptions'
  BY <1>21
  DEF Crash, Owns, AbandonPublish, Count, Release, Exit, CloseBroker, Goto,
      Disturb, rows, workers, operators, broker, IndInv, TypeOK,
      OwnedRowIsAsRead, ActorsAndRowsAgree, DuplicatesAreInterruptions, Holding,
      Delivered, Acknowledged
<1>22. ASSUME NEW w \in Workers, RequestStop(w) PROVE
       DuplicatesAreInterruptions'
  BY <1>22
  DEF RequestStop, Disturb, rows, workers, operators, broker, IndInv, TypeOK,
      OwnedRowIsAsRead, ActorsAndRowsAgree, DuplicatesAreInterruptions,
      Holding, Delivered, Acknowledged
<1>23. ASSUME NEW o \in Operators, NEW e \in Events, RequeueGet(o, e) PROVE
       DuplicatesAreInterruptions'
  BY <1>23
  DEF RequeueGet, Exhausted, rows, workers, operators, broker, IndInv, TypeOK,
      OwnedRowIsAsRead, ActorsAndRowsAgree, DuplicatesAreInterruptions,
      Holding, Delivered, Acknowledged
<1>24. ASSUME NEW o \in Operators, RequeueUpdate(o) PROVE
       DuplicatesAreInterruptions'
  BY <1>24
  DEF RequeueUpdate, Exhausted, Leave, rows, workers, operators, broker,
      IndInv, TypeOK, OwnedRowIsAsRead, ActorsAndRowsAgree,
      DuplicatesAreInterruptions, Holding, Delivered, Acknowledged
<1>25. ASSUME NEW o \in Operators, RequeueCommit(o) PROVE
       DuplicatesAreInterruptions'
  BY <1>25
  DEF RequeueCommit, Release, Leave, rows, workers, operators, broker, IndInv,
      TypeOK, OwnedRowIsAsRead, ActorsAndRowsAgree,
      DuplicatesAreInterruptions, Holding, Delivered, Acknowledged
<1>26. ASSUME NEW o \in Operators, RequeueFails(o) PROVE
       DuplicatesAreInterruptions'
  BY <1>26
  DEF RequeueFails, Release, Leave, rows, workers, operators, broker, IndInv,
      TypeOK, OwnedRowIsAsRead, ActorsAndRowsAgree,
      DuplicatesAreInterruptions, Holding, Delivered, Acknowledged
<1>27. CASE UNCHANGED vars
  BY <1>27 DEF vars, rows, workers, operators, broker, IndInv, TypeOK,
      OwnedRowIsAsRead, ActorsAndRowsAgree, DuplicatesAreInterruptions,
      Holding, Delivered, Acknowledged
<1> QED
  BY <1>1, <1>2, <1>3, <1>4, <1>5, <1>6, <1>7, <1>8, <1>9, <1>10, <1>11,
     <1>12, <1>13, <1>14, <1>15, <1>16, <1>17, <1>18, <1>19, <1>20, <1>21,
     <1>22, <1>23, <1>24, <1>25, <1>26, <1>27
  DEF Next, EventStep, WorkerStep, BrokerAnswers, Disturbance, RequeueStep
-----------------------------------------------------------------------------
(* Invariants *)

\* The parts together: IndInv holds initially and every step keeps it.
THEOREM Invariance == Spec => []IndInv
<1> USE ActorsAssumption, SettingsAssumption, EventsAssumption
<1>1. Init => IndInv
  BY DEF Init, IndInv, TypeOK, OwnedRowIsAsRead, ActorsAndRowsAgree,
         DuplicatesAreInterruptions, Acknowledged, Holding, Delivered, WorkerPC
<1>2. IndInv /\ [Next]_vars => IndInv'
  BY TypeStep, OwnStep, AgreeStep, DupStep DEF IndInv
<1> QED
  BY <1>1, <1>2, PTL DEF Spec

\* Every variable keeps its type: attempts never exceeds max_attempts, and no
\* batch runs past its size.
THEOREM TypeCorrect == Spec => []TypeOK
<1>1. IndInv => TypeOK
  BY DEF IndInv
<1> QED
  BY <1>1, Invariance, PTL

\* A document is never shown as PUBLISHED before the broker has its event.
THEOREM PublishedIsConfirmed == Spec => []PublishedOnlyIfConfirmed
<1>1. IndInv => PublishedOnlyIfConfirmed
  BY DEF IndInv, ActorsAndRowsAgree, PublishedOnlyIfConfirmed
<1> QED
  BY <1>1, Invariance, PTL

\* The row a transaction has locked is the row it read, until it commits.
THEOREM OwnershipIsStable == Spec => []OwnedRowIsAsRead
<1>1. IndInv => OwnedRowIsAsRead
  BY DEF IndInv
<1> QED
  BY <1>1, Invariance, PTL

\* What a process believes of its event is what rows, locks and queue hold.
THEOREM ProcessesAgree == Spec => []ActorsAndRowsAgree
<1>1. IndInv => ActorsAndRowsAgree
  BY DEF IndInv
<1> QED
  BY <1>1, Invariance, PTL

\* Every copy beyond the acknowledged one is an interrupted publication.
THEOREM DuplicatesAreExplained == Spec => []DuplicatesAreInterruptions
<1>1. IndInv => DuplicatesAreInterruptions
  BY DEF IndInv
<1> QED
  BY <1>1, Invariance, PTL

-----------------------------------------------------------------------------
(* What a fault costs *)

\* The workers that go on publishing the event although their transaction has
\* lost its row: the fault is counted, the copy it may cost is not yet.
Orphans(e) ==
  {w \in Workers : wpc[w] \in {"locked", "sent"} /\ cur[w] = e /\ lock[e] # w}

\* Every interrupted copy, and every one that may still follow, has a fault of
\* its own.
FaultsAccount(e) ==
  /\ IsFiniteSet(Orphans(e))
  /\ interrupted[e] + Cardinality(Orphans(e)) <= faults

CostInv == \A e \in Events : FaultsAccount(e)

\* A step that orphans nobody keeps the account, if it has a fault of its own
\* for the copy it interrupts ...
LEMMA AccountKeeps ==
  ASSUME TypeOK, TypeOK', NEW e \in Events, FaultsAccount(e),
         Orphans(e)' \subseteq Orphans(e),
         interrupted'[e] - interrupted[e] <= faults' - faults
  PROVE  FaultsAccount(e)'
<1>1. /\ IsFiniteSet(Orphans(e)')
      /\ Cardinality(Orphans(e)') <= Cardinality(Orphans(e))
  BY FS_Subset DEF FaultsAccount
<1>2. Cardinality(Orphans(e)) \in Nat /\ Cardinality(Orphans(e)') \in Nat
  BY <1>1, FS_CardinalityType DEF FaultsAccount
<1>3. /\ interrupted[e] \in Nat /\ interrupted'[e] \in Nat
      /\ faults \in Nat /\ faults' \in Nat
  BY SettingsAssumption DEF TypeOK
<1> QED
  BY <1>1, <1>2, <1>3 DEF FaultsAccount

\* ... so does a fault that orphans one worker and interrupts nothing ...
LEMMA AccountOrphans ==
  ASSUME TypeOK, TypeOK', NEW e \in Events, FaultsAccount(e), NEW w,
         Orphans(e)' \subseteq Orphans(e) \cup {w},
         interrupted'[e] = interrupted[e],
         faults' = faults + 1
  PROVE  FaultsAccount(e)'
<1> DEFINE more == Orphans(e) \cup {w}
<1>0. IsFiniteSet(Orphans(e)) /\ Cardinality(Orphans(e)) \in Nat
  BY FS_CardinalityType DEF FaultsAccount
<1>1. IsFiniteSet(more) /\ Cardinality(more) <= Cardinality(Orphans(e)) + 1
  <2>1. /\ IsFiniteSet(more)
        /\ Cardinality(more) = IF w \in Orphans(e) THEN Cardinality(Orphans(e))
                              ELSE Cardinality(Orphans(e)) + 1
    BY <1>0, FS_AddElement
  <2> QED
    BY <1>0, <2>1
<1> HIDE DEF more
<1>2. /\ IsFiniteSet(Orphans(e)')
      /\ Cardinality(Orphans(e)') <= Cardinality(more)
  BY <1>1, FS_Subset DEF more
<1>3. /\ Cardinality(Orphans(e)) \in Nat /\ Cardinality(Orphans(e)') \in Nat
      /\ Cardinality(more) \in Nat
  BY <1>1, <1>2, FS_CardinalityType DEF FaultsAccount
<1>4. interrupted[e] \in Nat /\ faults \in Nat
  BY SettingsAssumption DEF TypeOK
<1> QED
  BY <1>1, <1>2, <1>3, <1>4 DEF FaultsAccount

\* ... and the broker's acceptance of an orphan's message, which turns the copy
\* that might follow into an interrupted one.
LEMMA AccountAccepts ==
  ASSUME TypeOK, TypeOK', NEW e \in Events, FaultsAccount(e), NEW w \in Orphans(e),
         Orphans(e)' \subseteq Orphans(e) \ {w},
         interrupted'[e] = interrupted[e] + 1,
         faults' = faults
  PROVE  FaultsAccount(e)'
<1> DEFINE less == Orphans(e) \ {w}
<1>1. IsFiniteSet(less) /\ Cardinality(less) = Cardinality(Orphans(e)) - 1
  BY FS_RemoveElement DEF FaultsAccount
<1> HIDE DEF less
<1>2. /\ IsFiniteSet(Orphans(e)')
      /\ Cardinality(Orphans(e)') <= Cardinality(less)
  BY <1>1, FS_Subset DEF less
<1>3. /\ Cardinality(Orphans(e)) \in Nat /\ Cardinality(Orphans(e)') \in Nat
  BY <1>2, FS_CardinalityType DEF FaultsAccount
<1>4. interrupted[e] \in Nat /\ faults \in Nat
  BY SettingsAssumption DEF TypeOK
<1> QED
  BY <1>1, <1>2, <1>3, <1>4 DEF FaultsAccount

\* Steps that neither orphan a worker nor interrupt a copy.
Harmless ==
  /\ interrupted' = interrupted
  /\ faults' \in {faults, faults + 1}
  /\ \A e \in Events : Orphans(e)' \subseteq Orphans(e)

LEMMA HarmlessKeeps ==
  ASSUME TypeOK, TypeOK', CostInv, Harmless
  PROVE  CostInv'
<1>1. SUFFICES ASSUME NEW e \in Events PROVE FaultsAccount(e)'
  BY DEF CostInv
<1>2. interrupted'[e] - interrupted[e] <= faults' - faults
  BY SettingsAssumption DEF TypeOK, Harmless
<1> QED
  BY <1>2, AccountKeeps DEF CostInv, Harmless

\* Every step keeps the account: only a lost session orphans a worker, and only
\* the broker's acceptance, a lost connection and a killed worker interrupt a
\* copy.
LEMMA CostStep ==
  ASSUME IndInv, TypeOK', CostInv, [Next]_vars
  PROVE  CostInv'
<1> USE ActorsAssumption, SettingsAssumption, EventsAssumption
<1>0. TypeOK /\ OwnedRowIsAsRead /\ ActorsAndRowsAgree
  BY DEF IndInv
<1>1. ASSUME NEW e \in Events, EventStep(e) PROVE CostInv'
  <2>1. Harmless
    BY <1>0, <1>1
    DEF EventStep, Register, BackoffElapses, BrokerAcceptStray, TypeOK, rows,
        workers, broker, Harmless, Orphans
  <2> QED
    BY <1>0, <2>1, HarmlessKeeps
<1>2. ASSUME NEW w \in Workers, StartWorker(w) \/ Poll(w) \/ CheckReady(w)
      PROVE  CostInv'
  <2>1. Harmless
    BY <1>0, <1>2
    DEF StartWorker, Poll, CheckReady, Exit, CloseBroker, Connect, Goto, TypeOK,
        rows, workers, broker, Harmless, Orphans
  <2> QED
    BY <1>0, <2>1, HarmlessKeeps
<1>3. ASSUME NEW w \in Workers, Pick(w) PROVE CostInv'
  <2>1. Harmless
    BY <1>0, <1>3
    DEF Pick, Pickable, Goto, TypeOK, rows, broker, Harmless, Orphans
  <2> QED
    BY <1>0, <2>1, HarmlessKeeps
<1>4. ASSUME NEW w \in Workers,
             PickNothing(w) \/ Send(w) \/ Confirm(w) \/ Wake(w) \/ BrokerRefuse(w)
      PROVE  CostInv'
  <2>1. Harmless
    BY <1>0, <1>4
    DEF PickNothing, Send, Confirm, Wake, BrokerRefuse, PutDown, Goto, TypeOK,
        rows, broker, Harmless, Orphans
  <2> QED
    BY <1>0, <2>1, HarmlessKeeps
<1>5. ASSUME NEW w \in Workers,
             \/ CommitPublished(w) \/ CommitPublishedUnseen(w)
             \/ RecordFailure(w) \/ RecordFailureUnseen(w) \/ CommitFails(w)
      PROVE  CostInv'
  <2>1. /\ interrupted' = interrupted
        /\ faults' \in {faults, faults + 1}
        /\ Release(w) \/ lock' = lock
        /\ wpc'[w] \in {"checking", "polling", "backoff", "stopped"}
        /\ \A v \in Workers \ {w} : wpc'[v] = wpc[v] /\ cur'[v] = cur[v]
    BY <1>0, <1>5
    DEF CommitPublished, CommitPublishedUnseen, RecordFailure,
        RecordFailureUnseen, CommitFails, PutDown, Exit, CloseBroker, Goto,
        Disturb, TypeOK, broker
  <2>2. Harmless
    BY <1>0, <2>1 DEF Release, TypeOK, Harmless, Orphans
  <2> QED
    BY <1>0, <2>2, HarmlessKeeps
<1>6. ASSUME NEW w \in Workers, BrokerAccept(w) PROVE CostInv'
  <2>1. cur[w] \in Events /\ cur[w] # None
    BY <1>0, <1>6 DEF BrokerAccept, ActorsAndRowsAgree, Holding
  <2>2. \A e \in Events : Orphans(e)' \subseteq Orphans(e) \ {w}
    BY <1>0, <1>6 DEF BrokerAccept, Goto, TypeOK, Orphans
  <2>3. CASE Owns(w)
    BY <1>0, <1>6, <2>2, <2>3, HarmlessKeeps DEF BrokerAccept, Harmless
  <2>4. CASE ~Owns(w)
    <3>1. w \in Orphans(cur[w])
      BY <1>6, <2>1, <2>4 DEF BrokerAccept, Orphans, Owns
    <3>2. faults' = faults /\ Count(interrupted, cur[w])
      BY <1>6, <2>4 DEF BrokerAccept
    <3>3. ASSUME NEW e \in Events PROVE FaultsAccount(e)'
      <4>1. CASE e = cur[w]
        <5>1. interrupted'[e] = interrupted[e] + 1
          BY <1>0, <3>2, <4>1 DEF Count, TypeOK
        <5> QED
          BY <1>0, <2>2, <3>1, <3>2, <4>1, <5>1, AccountAccepts DEF CostInv
      <4>2. CASE e # cur[w]
        <5>1. interrupted'[e] - interrupted[e] <= faults' - faults
          BY <1>0, <3>2, <4>2 DEF Count, TypeOK
        <5> QED
          BY <1>0, <2>2, <5>1, AccountKeeps DEF CostInv
      <4> QED
        BY <4>1, <4>2
    <3> QED
      BY <3>3 DEF CostInv
  <2> QED
    BY <2>3, <2>4
<1>7. ASSUME NEW w \in Workers, ConnectionLost(w) \/ Crash(w) PROVE CostInv'
  <2>1. faults' = faults + 1
    BY <1>7 DEF ConnectionLost, Crash, Disturb
  <2>2. ASSUME NEW e \in Events PROVE interrupted'[e] <= interrupted[e] + 1
    BY <1>0, <1>7 DEF ConnectionLost, Crash, AbandonPublish, Count, TypeOK, broker
  <2>3. /\ Release(w) \/ lock' = lock
        /\ \/ wpc'[w] = wpc[w] /\ cur'[w] = cur[w] /\ lock' = lock
           \/ wpc'[w] \in {"failed", "stopped"}
        /\ \A v \in Workers \ {w} : wpc'[v] = wpc[v] /\ cur'[v] = cur[v]
    BY <1>0, <1>7 DEF ConnectionLost, Crash, Exit, CloseBroker, Goto, TypeOK
  <2>4. \A e \in Events : Orphans(e)' \subseteq Orphans(e)
    BY <1>0, <2>3 DEF Release, TypeOK, Orphans
  <2>5. ASSUME NEW e \in Events PROVE FaultsAccount(e)'
    <3>1. interrupted'[e] - interrupted[e] <= faults' - faults
      BY <1>0, <2>1, <2>2 DEF TypeOK
    <3> QED
      BY <1>0, <2>4, <3>1, AccountKeeps DEF CostInv
  <2> QED
    BY <2>5 DEF CostInv
<1>8. ASSUME NEW w \in Workers, SessionLost(w) PROVE CostInv'
  <2>1. /\ faults' = faults + 1 /\ UNCHANGED <<wpc, cur>> /\ Release(w)
        /\ cur[w] \in Events
    BY <1>0, <1>8 DEF SessionLost, Disturb, workers, ActorsAndRowsAgree
  <2>2. CASE wpc[w] \in Delivered
    <3>1. ASSUME NEW e \in Events PROVE FaultsAccount(e)'
      <4>1. interrupted'[e] - interrupted[e] <= faults' - faults
        BY <1>0, <1>8, <2>1, <2>2 DEF SessionLost, Count, TypeOK
      <4>2. Orphans(e)' \subseteq Orphans(e)
        BY <1>0, <2>1, <2>2 DEF Release, Delivered, TypeOK, Orphans
      <4> QED
        BY <1>0, <4>1, <4>2, AccountKeeps DEF CostInv
    <3> QED
      BY <3>1 DEF CostInv
  <2>3. CASE wpc[w] \notin Delivered
    <3>1. ASSUME NEW e \in Events PROVE FaultsAccount(e)'
      <4>1. interrupted'[e] = interrupted[e]
        BY <1>8, <2>3 DEF SessionLost
      <4>2. Orphans(e)' \subseteq Orphans(e) \cup {w}
        BY <1>0, <2>1 DEF Release, TypeOK, Orphans
      <4> QED
        BY <1>0, <2>1, <4>1, <4>2, AccountOrphans DEF CostInv
    <3> QED
      BY <3>1 DEF CostInv
  <2> QED
    BY <2>2, <2>3
<1>9. ASSUME NEW w \in Workers, RequestStop(w) PROVE CostInv'
  <2>1. Harmless
    BY <1>0, <1>9 DEF RequestStop, Disturb, broker, Harmless, Orphans
  <2> QED
    BY <1>0, <2>1, HarmlessKeeps
<1>10. ASSUME NEW o \in Operators, RequeueStep(o) PROVE CostInv'
  <2>1. Harmless
    BY <1>0, <1>10
    DEF RequeueStep, RequeueGet, RequeueUpdate, RequeueCommit, RequeueFails,
        Release, Leave, TypeOK, workers, broker, Harmless, Orphans
  <2> QED
    BY <1>0, <2>1, HarmlessKeeps
<1>11. CASE UNCHANGED vars
  <2>1. Harmless
    BY <1>11 DEF vars, workers, broker, Harmless, Orphans
  <2> QED
    BY <1>0, <2>1, HarmlessKeeps
<1> QED
  BY <1>1, <1>2, <1>3, <1>4, <1>5, <1>6, <1>7, <1>8, <1>9, <1>10, <1>11
  DEF Next, WorkerStep, BrokerAnswers, Disturbance

\* At-least-once delivery is exactly-once while nothing fails, and each fault
\* costs at most one duplicate: a copy beyond the first is an interrupted one,
\* and each of those has a fault of its own.
THEOREM FaultsBoundCopies == Spec => []EachFaultCostsOneCopy
<1>1. Init => CostInv
  <2>1. SUFFICES ASSUME Init, NEW e \in Events PROVE FaultsAccount(e)
    BY DEF CostInv
  <2>2. Orphans(e) = {}
    BY <2>1 DEF Init, Orphans
  <2>3. interrupted[e] = 0 /\ faults = 0
    BY <2>1 DEF Init
  <2> QED
    BY <2>2, <2>3, FS_EmptySet DEF FaultsAccount
<1>2. IndInv /\ IndInv' /\ CostInv /\ [Next]_vars => CostInv'
  BY CostStep DEF IndInv
<1>3. IndInv /\ CostInv => EachFaultCostsOneCopy
  <2>1. SUFFICES ASSUME IndInv, CostInv, NEW e \in Events
                 PROVE  queue[e] <= 1 + faults
    BY DEF EachFaultCostsOneCopy
  <2>2. Cardinality(Orphans(e)) \in Nat
    BY <2>1, FS_CardinalityType DEF CostInv, FaultsAccount
  <2>3. interrupted[e] + Cardinality(Orphans(e)) <= faults
    BY <2>1 DEF CostInv, FaultsAccount
  <2>4. /\ queue[e] \in Nat /\ stray[e] \in Nat
        /\ interrupted[e] \in Nat /\ faults \in Nat
    BY <2>1, SettingsAssumption DEF IndInv, TypeOK
  <2>5. queue[e] + stray[e] <=
          interrupted[e] + (IF Acknowledged(e) THEN 1 ELSE 0)
    BY <2>1 DEF IndInv, DuplicatesAreInterruptions
  <2> QED
    BY <2>2, <2>3, <2>4, <2>5
<1> QED
  BY <1>1, <1>2, <1>3, Invariance, PTL DEF Spec

-----------------------------------------------------------------------------
(* Action properties *)

\* The rows change only in these ways.
RowStep ==
  \/ UNCHANGED rows
  \/ \E e \in Events : \/ /\ status[e] = "absent"
                          /\ status' = [status EXCEPT ![e] = "STORED"]
                          /\ UNCHANGED <<published, attempts, cooling>>
                       \/ /\ cooling[e]
                          /\ cooling' = [cooling EXCEPT ![e] = FALSE]
                          /\ UNCHANGED <<status, published, attempts>>
  \/ \E w \in Workers : /\ Owns(w)
                        /\ wpc[w] \in {"confirmed", "failed"}
                        /\ \/ MarkPublished(cur[w]) /\ wpc[w] = "confirmed"
                           \/ CountFailure(cur[w])
  \/ \E o \in Operators :
       /\ opc[o] = "updated"
       /\ attempts' = [attempts EXCEPT ![target[o]] = 0]
       /\ cooling' = [cooling EXCEPT ![target[o]] = FALSE]
       /\ UNCHANGED <<status, published>>

\* Every step changes the rows the way its transaction's owner may.
LEMMA StepsAreRowSteps ==
  ASSUME [Next]_vars
  PROVE  RowStep
<1>1. ASSUME NEW e \in Events, EventStep(e)
      PROVE  RowStep
  BY <1>1 DEF EventStep, Register, BackoffElapses, BrokerAcceptStray, RowStep,
              rows
<1>2. ASSUME NEW w \in Workers,
             StartWorker(w) \/ WorkerStep(w) \/ BrokerAnswers(w)
      PROVE  RowStep
  BY <1>2 DEF StartWorker, WorkerStep, BrokerAnswers, Poll, CheckReady, Pick,
              PickNothing, Send, Confirm, CommitPublished, RecordFailure,
              CommitFails, Wake, BrokerAccept, BrokerRefuse, RowStep
<1>3. ASSUME NEW w \in Workers, Disturbance(w)
      PROVE  RowStep
  BY <1>3 DEF Disturbance, CommitPublishedUnseen, RecordFailureUnseen,
              ConnectionLost, SessionLost, Crash, RequestStop, RowStep
<1>4. ASSUME NEW o \in Operators, RequeueStep(o)
      PROVE  RowStep
  BY <1>4 DEF RequeueStep, RequeueGet, RequeueUpdate, RequeueCommit,
              RequeueFails, RowStep
<1>5. CASE UNCHANGED vars
  BY <1>5 DEF vars, RowStep
<1> QED
  BY <1>1, <1>2, <1>3, <1>4, <1>5 DEF Next

\* A transaction that changes a row owns it, and an owned row is unpublished.
LEMMA OwnersFacts ==
  ASSUME IndInv
  PROVE  /\ \A w \in Workers : Owns(w) => /\ cur[w] \in Events
                                          /\ ~published[cur[w]]
                                          /\ attempts[cur[w]] \in Nat
         /\ \A o \in Operators : opc[o] = "updated" =>
              /\ target[o] \in Events
              /\ ~published[target[o]]
              /\ attempts[target[o]] = MaxAttempts
<1>1. ASSUME NEW o \in Operators, opc[o] = "updated"
      PROVE  /\ target[o] \in Events
             /\ ~published[target[o]]
             /\ attempts[target[o]] = MaxAttempts
  <2>1. target[o] \in Events /\ lock[target[o]] = o
    BY <1>1 DEF IndInv, ActorsAndRowsAgree
  <2>2. ~published[target[o]] /\ attempts[target[o]] >= MaxAttempts
    BY <2>1 DEF IndInv, OwnedRowIsAsRead, Exhausted
  <2> QED
    BY <2>1, <2>2, SettingsAssumption DEF IndInv, TypeOK
<1> QED
  BY <1>1, OwnedIsPending DEF IndInv, TypeOK

\* A published event's row never changes again (the clock passing its NULL
\* next_attempt_at changes nothing either: cooling is FALSE from then on).
PublishedIsCold == \A e \in Events : published[e] => ~cooling[e]

\* Publishing clears next_attempt_at and nothing sets it afterwards.
LEMMA ColdStep ==
  ASSUME IndInv, PublishedIsCold, [Next]_vars
  PROVE  PublishedIsCold'
<1>1. RowStep
  BY StepsAreRowSteps
<1>2. CASE UNCHANGED rows
  BY <1>2 DEF rows, PublishedIsCold
<1>3. CASE \E e \in Events :
             \/ /\ status[e] = "absent"
                /\ status' = [status EXCEPT ![e] = "STORED"]
                /\ UNCHANGED <<published, attempts, cooling>>
             \/ /\ cooling[e]
                /\ cooling' = [cooling EXCEPT ![e] = FALSE]
                /\ UNCHANGED <<status, published, attempts>>
  BY <1>3 DEF PublishedIsCold, IndInv, TypeOK
<1>4. ASSUME NEW w \in Workers, Owns(w), MarkPublished(cur[w])
      PROVE  PublishedIsCold'
  BY <1>4 DEF MarkPublished, PublishedIsCold, IndInv, TypeOK
<1>5. ASSUME NEW w \in Workers, Owns(w), CountFailure(cur[w])
      PROVE  PublishedIsCold'
  BY <1>5, OwnersFacts DEF CountFailure, PublishedIsCold, IndInv, TypeOK
<1>6. ASSUME NEW o \in Operators,
             cooling' = [cooling EXCEPT ![target[o]] = FALSE],
             UNCHANGED published
      PROVE  PublishedIsCold'
  BY <1>6 DEF PublishedIsCold, IndInv, TypeOK
<1> QED
  BY <1>1, <1>2, <1>3, <1>4, <1>5, <1>6 DEF RowStep

\* So a published event is never waiting for a retry.
LEMMA ColdInvariance == Spec => []PublishedIsCold
<1>1. Init => PublishedIsCold
  BY DEF Init, PublishedIsCold
<1>2. IndInv /\ PublishedIsCold /\ [Next]_vars => PublishedIsCold'
  BY ColdStep
<1> QED
  BY <1>1, <1>2, Invariance, PTL DEF Spec

\* Nobody retries, requeues or unpublishes a published event: its row is final.
THEOREM PublishedEventsAreFinal == Spec => PublishedIsFinal
<1> DEFINE Final == \A e \in Events :
                      published[e] => /\ published'[e]
                                      /\ status'[e] = status[e]
                                      /\ attempts'[e] = attempts[e]
                                      /\ cooling'[e] = cooling[e]
<1>1. ASSUME IndInv, PublishedIsCold, [Next]_vars
      PROVE  Final
  <2>1. RowStep
    BY <1>1, StepsAreRowSteps
  <2>2. CASE UNCHANGED rows
    BY <2>2 DEF rows
  <2>3. CASE \E e \in Events :
               \/ /\ status[e] = "absent"
                  /\ status' = [status EXCEPT ![e] = "STORED"]
                  /\ UNCHANGED <<published, attempts, cooling>>
               \/ /\ cooling[e]
                  /\ cooling' = [cooling EXCEPT ![e] = FALSE]
                  /\ UNCHANGED <<status, published, attempts>>
    BY <1>1, <2>3
    DEF IndInv, TypeOK, ActorsAndRowsAgree, PublishedIsCold
  <2>4. ASSUME NEW w \in Workers, Owns(w),
               MarkPublished(cur[w]) \/ CountFailure(cur[w])
        PROVE  Final
    <3>1. cur[w] \in Events /\ ~published[cur[w]]
      BY <1>1, <2>4, OwnersFacts
    <3> QED
      BY <1>1, <2>4, <3>1 DEF MarkPublished, CountFailure, IndInv, TypeOK
  <2>5. ASSUME NEW o \in Operators, opc[o] = "updated",
               attempts' = [attempts EXCEPT ![target[o]] = 0],
               cooling' = [cooling EXCEPT ![target[o]] = FALSE],
               UNCHANGED <<status, published>>
        PROVE  Final
    BY <1>1, <2>5, OwnersFacts DEF IndInv, TypeOK
  <2> QED
    BY <2>1, <2>2, <2>3, <2>4, <2>5 DEF RowStep
<1>2. IndInv /\ PublishedIsCold /\ [Next]_vars => [Final]_vars
  BY <1>1
<1> QED
  BY <1>2, Invariance, ColdInvariance, PTL DEF Spec, PublishedIsFinal

\* Attempts go back only when an exhausted, unpublished event is requeued.
THEOREM RequeueIsConditional == Spec => OnlyExhaustedIsRequeued
<1> DEFINE Back == \A e \in Events :
                     attempts'[e] < attempts[e] => /\ attempts[e] = MaxAttempts
                                                   /\ ~published[e]
                                                   /\ attempts'[e] = 0
<1>1. ASSUME IndInv, [Next]_vars
      PROVE  Back
  <2> USE SettingsAssumption
  <2>1. RowStep
    BY <1>1, StepsAreRowSteps
  <2>2. CASE UNCHANGED attempts
    BY <1>1, <2>2 DEF IndInv, TypeOK
  <2>3. ASSUME NEW w \in Workers, Owns(w),
               MarkPublished(cur[w]) \/ CountFailure(cur[w])
        PROVE  Back
    <3>1. cur[w] \in Events /\ attempts[cur[w]] \in Nat
      BY <1>1, <2>3, OwnersFacts
    <3>2. attempts' = [attempts EXCEPT ![cur[w]] = attempts[cur[w]] + 1]
      BY <2>3 DEF MarkPublished, CountFailure
    <3> QED
      BY <1>1, <3>1, <3>2 DEF IndInv, TypeOK
  <2>4. ASSUME NEW o \in Operators, opc[o] = "updated",
               attempts' = [attempts EXCEPT ![target[o]] = 0]
        PROVE  Back
    BY <1>1, <2>4, OwnersFacts DEF IndInv, TypeOK
  <2> QED
    BY <2>1, <2>2, <2>3, <2>4 DEF RowStep, rows
<1>2. IndInv /\ [Next]_vars => [Back]_vars
  BY <1>1
<1> QED
  BY <1>2, Invariance, PTL DEF Spec, OnlyExhaustedIsRequeued
-----------------------------------------------------------------------------
(* The end of a worker *)

\* The steps a worker that was told to stop has before it: the rest of its batch.
Place(w) ==
  CASE wpc[w] = "checking"  -> 9
    [] wpc[w] = "picking"   -> 8
    [] wpc[w] = "locked"    -> 7
    [] wpc[w] = "sent"      -> 6
    [] wpc[w] = "accepted"  -> 5
    [] wpc[w] = "confirmed" -> 4
    [] wpc[w] = "failed"    -> 3
    [] wpc[w] = "backoff"   -> 2
    [] wpc[w] = "polling"   -> 1
    [] OTHER                -> 0

BatchLeft(w) == 10 * left[w] + Place(w)

\* Those of a worker without a channel: it goes round the loop once at most.
LoopLeft(w) ==
  CASE wpc[w] = "backoff"   -> 9
    [] wpc[w] = "picking"   -> 8
    [] wpc[w] = "locked"    -> 7
    [] wpc[w] = "sent"      -> 6
    [] wpc[w] = "accepted"  -> 5
    [] wpc[w] = "confirmed" -> 4
    [] wpc[w] = "polling"   -> 3
    [] wpc[w] = "checking"  -> 2
    [] wpc[w] = "failed"    -> 1
    [] OTHER                -> 0

InPlace(w) == UNCHANGED <<wpc[w], left[w]>>

\* Until the process ends it stays doomed, and what moves it brings it nearer to
\* its end.
RunsOut(w) ==
  \/ wpc'[w] = "stopped"
  \/ /\ stopping[w] => stopping'[w] /\ (InPlace(w) \/ BatchLeft(w)' < BatchLeft(w))
     /\ ~open[w] => ~open'[w] /\ (InPlace(w) \/ LoopLeft(w)' < LoopLeft(w))

\* Nothing but a worker's own steps, the broker's answers to it and its faults
\* moves it.
LEMMA OthersLeaveWorker ==
  ASSUME IndInv, Next, NEW w \in Workers,
         ~(StartWorker(w) \/ WorkerStep(w) \/ BrokerAnswers(w) \/ Disturbance(w))
  PROVE  InPlace(w) /\ stopping'[w] = stopping[w] /\ open'[w] = open[w]
<1> USE DEF IndInv, TypeOK, InPlace, workers, Goto, Exit, PutDown, CloseBroker,
    Connect
<1>1. CASE \E e \in Events : EventStep(e)
  BY <1>1 DEF EventStep, Register, BackoffElapses, BrokerAcceptStray
<1>2. CASE \E o \in Operators : RequeueStep(o)
  BY <1>2 DEF RequeueStep, RequeueGet, RequeueUpdate, RequeueCommit, RequeueFails
<1>3. ASSUME NEW v \in Workers, v # w,
             StartWorker(v) \/ WorkerStep(v) \/ BrokerAnswers(v) \/ Disturbance(v)
      PROVE  InPlace(w) /\ stopping'[w] = stopping[w] /\ open'[w] = open[w]
  <2>1. CASE StartWorker(v)
    BY <1>3, <2>1 DEF StartWorker
  <2>2. CASE WorkerStep(v)
    <3>1. CASE Poll(v) \/ CheckReady(v)
      BY <1>3, <3>1 DEF Poll, CheckReady
    <3>2. CASE Pick(v) \/ PickNothing(v)
      BY <1>3, <3>2 DEF Pick, PickNothing
    <3>3. CASE Send(v) \/ Confirm(v)
      BY <1>3, <3>3 DEF Send, Confirm
    <3>4. CASE CommitPublished(v)
      BY <1>3, <3>4 DEF CommitPublished
    <3>5. CASE RecordFailure(v)
      BY <1>3, <3>5 DEF RecordFailure
    <3>6. CASE CommitFails(v) \/ Wake(v)
      BY <1>3, <3>6 DEF CommitFails, Wake
    <3> QED
      BY <2>2, <3>1, <3>2, <3>3, <3>4, <3>5, <3>6 DEF WorkerStep
  <2>3. CASE BrokerAnswers(v)
    BY <1>3, <2>3 DEF BrokerAnswers, BrokerAccept, BrokerRefuse
  <2>4. CASE Disturbance(v)
    <3>1. CASE CommitPublishedUnseen(v) \/ RecordFailureUnseen(v)
      BY <1>3, <3>1 DEF CommitPublishedUnseen, RecordFailureUnseen
    <3>2. CASE ConnectionLost(v)
      BY <1>3, <3>2 DEF ConnectionLost
    <3>3. CASE SessionLost(v) \/ Crash(v) \/ RequestStop(v)
      BY <1>3, <3>3 DEF SessionLost, Crash, RequestStop
    <3> QED
      BY <2>4, <3>1, <3>2, <3>3 DEF Disturbance
  <2> QED
    BY <1>3, <2>1, <2>2, <2>3, <2>4
<1> QED
  BY <1>1, <1>2, <1>3 DEF Next

\* A step of the process itself ends it, or goes on where it was going; only a
\* new batch would take a worker back, and that asks for the flag and, at its
\* first event, for the channel.
LEMMA DoomedGoesOn ==
  ASSUME IndInv, NEW w \in Workers, wpc[w] # "stopped",
         WorkerStep(w) \/ BrokerAnswers(w) \/ Disturbance(w)
  PROVE  RunsOut(w)
<1> USE SettingsAssumption
    DEF RunsOut, InPlace, BatchLeft, LoopLeft, Place, Goto, PutDown
<1>1. /\ wpc \in [Workers -> WorkerPC] /\ left \in [Workers -> 0..BatchSize]
      /\ open \in [Workers -> BOOLEAN] /\ stopping \in [Workers -> BOOLEAN]
      /\ wpc[w] \in Holding \cup {"checking", "picking"} => left[w] > 0
      /\ left[w] \in Nat
  BY DEF IndInv, TypeOK, ActorsAndRowsAgree
<1>2. ASSUME Exit(w) PROVE RunsOut(w)
  BY <1>1, <1>2 DEF Exit
<1>3. CASE Poll(w)
  BY <1>1, <1>2, <1>3 DEF Poll
<1>4. CASE CheckReady(w)
  BY <1>1, <1>2, <1>4 DEF CheckReady
<1>5. CASE Pick(w)
  BY <1>1, <1>5 DEF Pick
<1>6. CASE PickNothing(w)
  BY <1>1, <1>6 DEF PickNothing
<1>7. CASE Send(w)
  BY <1>1, <1>7 DEF Send
<1>8. CASE Confirm(w)
  BY <1>1, <1>8 DEF Confirm
<1>9. CASE CommitPublished(w)
  BY <1>1, <1>9 DEF CommitPublished, Holding
<1>10. CASE RecordFailure(w)
  BY <1>1, <1>2, <1>10 DEF RecordFailure, Holding
<1>11. CASE CommitFails(w)
  BY <1>2, <1>11 DEF CommitFails
<1>12. CASE Wake(w)
  BY <1>1, <1>12 DEF Wake
<1>13. CASE BrokerAnswers(w)
  BY <1>1, <1>13 DEF BrokerAnswers, BrokerAccept, BrokerRefuse
<1>14. CASE CommitPublishedUnseen(w) \/ RecordFailureUnseen(w)
  BY <1>2, <1>14 DEF CommitPublishedUnseen, RecordFailureUnseen
<1>15. CASE ConnectionLost(w)
  BY <1>1, <1>15 DEF ConnectionLost
<1>16. CASE SessionLost(w)
  BY <1>1, <1>16 DEF SessionLost, workers
<1>17. CASE Crash(w)
  BY <1>2, <1>17 DEF Crash
<1>18. CASE RequestStop(w)
  BY <1>1, <1>18 DEF RequestStop
<1> QED
  BY <1>3, <1>4, <1>5, <1>6, <1>7, <1>8, <1>9, <1>10, <1>11, <1>12, <1>13,
     <1>14, <1>15, <1>16, <1>17, <1>18
  DEF WorkerStep, Disturbance

\* A worker that was told to stop has at most the rest of its batch before it,
\* and one whose channel is closed at most one round of its loop, in which it
\* charges at most one attempt; whatever else happens, neither is taken back
\* before its process has ended (process_batch and run).
THEOREM DoomedWorkersRunOut ==
  Spec => [][\A w \in Workers : wpc[w] # "stopped" => RunsOut(w)]_vars
<1>1. ASSUME IndInv, Next, NEW w \in Workers, wpc[w] # "stopped"
      PROVE  RunsOut(w)
  <2>1. CASE StartWorker(w)
    BY <1>1, <2>1 DEF StartWorker
  <2>2. CASE WorkerStep(w) \/ BrokerAnswers(w) \/ Disturbance(w)
    BY <1>1, <2>2, DoomedGoesOn
  <2>3. CASE ~(StartWorker(w) \/ WorkerStep(w) \/ BrokerAnswers(w) \/ Disturbance(w))
    BY <1>1, <2>3, OthersLeaveWorker DEF RunsOut
  <2> QED
    BY <2>1, <2>2, <2>3
<1>2. IndInv /\ [Next]_vars
        => [\A w \in Workers : wpc[w] # "stopped" => RunsOut(w)]_vars
  BY <1>1
<1> QED
  BY <1>2, Invariance, PTL DEF Spec

-----------------------------------------------------------------------------
(* Refinement *)

\* A step that leaves the rows alone leaves the abstract phases alone.
LEMMA PhaseFollowsRows ==
  ASSUME UNCHANGED rows
  PROVE  Phase' = Phase
  BY DEF rows, Phase

\* Every event has one of the abstract phases.
LEMMA PhaseTyped ==
  /\ Phase = [e \in Events |-> Phase[e]]
  /\ Phase' = [e \in Events |-> Phase'[e]]
  BY DEF Phase

\* The abstract phases change as OutboxDelivery's do, one event at a time.
LEMMA PhaseMoves ==
  ASSUME NEW e \in Events, NEW from, NEW to,
         Phase[e] = from, Phase'[e] = to, UNCHANGED queue,
         \A f \in Events \ {e} : Phase'[f] = Phase[f]
  PROVE  Delivery!Move(e, from, to)
<1>1. Phase' = [Phase EXCEPT ![e] = to]
  BY PhaseTyped
<1> QED
  BY <1>1 DEF Delivery!Move

\* Each step of Outbox is a step of OutboxDelivery or a stuttering one.
LEMMA StepsAreDeliverySteps ==
  ASSUME IndInv, [Next]_vars
  PROVE  [Delivery!Next]_(Delivery!vars)
<1> USE SettingsAssumption, ActorsAssumption
<1>1. ASSUME NEW e \in Events, Register(e)
      PROVE  Delivery!Accept(e)
  <2>1. Phase[e] = "absent" /\ Phase'[e] = "pending"
    BY <1>1 DEF Register, Phase, IndInv, TypeOK, ActorsAndRowsAgree
  <2>2. \A f \in Events \ {e} : Phase'[f] = Phase[f]
    BY <1>1 DEF Register, Phase, IndInv, TypeOK
  <2>3. UNCHANGED queue
    BY <1>1 DEF Register, broker
  <2> QED
    BY <2>1, <2>2, <2>3, PhaseMoves DEF Delivery!Accept
<1>2. ASSUME NEW e \in Events, BackoffElapses(e)
      PROVE  UNCHANGED <<Phase, queue>>
  BY <1>2 DEF BackoffElapses, Phase, broker
<1>3. ASSUME NEW e \in Events, UNCHANGED rows, status[e] # "absent",
             queue' = [queue EXCEPT ![e] = @ + 1]
      PROVE  Delivery!Deliver(e)
  BY <1>3, PhaseFollowsRows DEF Delivery!Deliver, Phase
<1>4. ASSUME NEW e \in Events, BrokerAcceptStray(e)
      PROVE  Delivery!Deliver(e)
  BY <1>3, <1>4 DEF BrokerAcceptStray, Count, IndInv, ActorsAndRowsAgree
<1>5. ASSUME NEW w \in Workers, BrokerAccept(w)
      PROVE  cur[w] \in Events /\ Delivery!Deliver(cur[w])
  <2>1. cur[w] \in Events /\ status[cur[w]] # "absent"
    BY <1>5 DEF BrokerAccept, Holding, IndInv, ActorsAndRowsAgree
  <2> QED
    BY <1>3, <1>5, <2>1 DEF BrokerAccept, Count
<1>6. ASSUME NEW w \in Workers, wpc[w] = "confirmed", Owns(w),
             MarkPublished(cur[w]), UNCHANGED queue
      PROVE  cur[w] \in Events /\ Delivery!Acknowledge(cur[w])
  <2> DEFINE e == cur[w]
  <2>1. e \in Events /\ status[e] # "absent" /\ queue[e] > 0
    BY <1>6 DEF IndInv, ActorsAndRowsAgree, Holding, Delivered
  <2>2. ~published[e] /\ attempts[e] < MaxAttempts
    BY <1>6, OwnedIsPending DEF IndInv
  <2>3. Phase[e] = "pending"
    BY <2>1, <2>2 DEF Phase
  <2>4. status'[e] # "absent" /\ published'[e]
    BY <1>6, <2>1 DEF MarkPublished, IndInv, TypeOK
  <2>5. Phase'[e] = "acknowledged"
    BY <2>1, <2>4 DEF Phase
  <2>6. \A f \in Events \ {e} : Phase'[f] = Phase[f]
    BY <1>6, <2>1 DEF MarkPublished, Phase, IndInv, TypeOK
  <2>7. Delivery!Move(e, "pending", "acknowledged")
    BY <1>6, <2>1, <2>3, <2>5, <2>6, PhaseMoves
  <2> QED
    BY <2>1, <2>7 DEF Delivery!Acknowledge
<1>7. ASSUME NEW w \in Workers, Owns(w), CountFailure(cur[w]),
             UNCHANGED queue
      PROVE  \/ UNCHANGED <<Phase, queue>>
             \/ cur[w] \in Events /\ Delivery!Park(cur[w])
  <2> DEFINE e == cur[w]
  <2>1. /\ e \in Events
        /\ ~published[e] /\ attempts[e] < MaxAttempts
        /\ attempts[e] \in Nat
    BY <1>7, OwnedIsPending DEF IndInv, TypeOK
  <2>2. /\ status' = status /\ published' = published
        /\ attempts' = [attempts EXCEPT ![e] = attempts[e] + 1]
    BY <1>7 DEF CountFailure
  <2> HIDE DEF e
  <2>3. attempts'[e] = attempts[e] + 1
    BY <2>1, <2>2 DEF IndInv, TypeOK
  <2>4. \A f \in Events \ {e} : Phase'[f] = Phase[f]
    BY <2>1, <2>2 DEF Phase, IndInv, TypeOK
  <2>5. CASE Phase'[e] = Phase[e]
    <3>1. Phase' = Phase
      BY <2>4, <2>5, PhaseTyped
    <3> QED
      BY <1>7, <3>1
  <2>6. CASE Phase'[e] # Phase[e]
    <3>1. Phase[e] = "pending" /\ Phase'[e] = "parked"
      BY <2>1, <2>2, <2>3, <2>6 DEF Phase
    <3> QED
      BY <1>7, <2>1, <2>4, <3>1, PhaseMoves DEF Delivery!Park, e
  <2> QED
    BY <2>5, <2>6
<1>8. ASSUME NEW o \in Operators, RequeueCommit(o)
      PROVE  target[o] \in Events /\ Delivery!Requeue(target[o])
  <2> DEFINE e == target[o]
  <2>1. e \in Events /\ ~published[e] /\ attempts[e] = MaxAttempts
    BY <1>8, OwnersFacts DEF RequeueCommit
  <2>2. status[e] # "absent"
    BY <2>1 DEF IndInv, ActorsAndRowsAgree
  <2>3. Phase[e] = "parked"
    BY <2>1, <2>2 DEF Phase
  <2>4. /\ attempts'[e] = 0 /\ UNCHANGED <<status, published, queue>>
        /\ \A f \in Events \ {e} : attempts'[f] = attempts[f]
    BY <1>8, <2>1 DEF RequeueCommit, IndInv, TypeOK, broker
  <2>5. Phase'[e] = "pending"
    BY <2>1, <2>2, <2>4 DEF Phase
  <2>6. \A f \in Events \ {e} : Phase'[f] = Phase[f]
    BY <2>4 DEF Phase
  <2> QED
    BY <2>1, <2>3, <2>4, <2>5, <2>6, PhaseMoves DEF Delivery!Requeue
<1>9. ASSUME NEW e \in Events, EventStep(e)
      PROVE  Delivery!Next \/ UNCHANGED <<Phase, queue>>
  BY <1>1, <1>2, <1>4, <1>9 DEF EventStep, Delivery!Next
<1>10. ASSUME NEW w \in Workers,
              StartWorker(w) \/ WorkerStep(w) \/ BrokerAnswers(w)
       PROVE  Delivery!Next \/ UNCHANGED <<Phase, queue>>
  <2>1. CASE CommitPublished(w)
    BY <1>6, <2>1 DEF CommitPublished, broker, Delivery!Next
  <2>2. CASE RecordFailure(w)
    BY <1>7, <2>2 DEF RecordFailure, broker, Delivery!Next
  <2>3. CASE BrokerAccept(w)
    BY <1>5, <2>3 DEF Delivery!Next
  <2>4. CASE \/ StartWorker(w) \/ Poll(w) \/ CheckReady(w) \/ Pick(w)
             \/ PickNothing(w) \/ Send(w) \/ Confirm(w) \/ CommitFails(w)
             \/ Wake(w) \/ BrokerRefuse(w)
    <3>1. UNCHANGED <<rows, queue>>
      BY <2>4 DEF StartWorker, Connect, Poll, CheckReady, Pick, PickNothing,
                  Send, Confirm, CommitFails, Wake, BrokerRefuse, broker
    <3> QED
      BY <3>1, PhaseFollowsRows
  <2> QED
    BY <1>10, <2>1, <2>2, <2>3, <2>4 DEF WorkerStep, BrokerAnswers
<1>11. ASSUME NEW w \in Workers, Disturbance(w)
       PROVE  Delivery!Next \/ UNCHANGED <<Phase, queue>>
  <2>1. CASE CommitPublishedUnseen(w)
    BY <1>6, <2>1 DEF CommitPublishedUnseen, broker, Delivery!Next
  <2>2. CASE RecordFailureUnseen(w)
    BY <1>7, <2>2 DEF RecordFailureUnseen, broker, Delivery!Next
  <2>3. CASE ConnectionLost(w) \/ SessionLost(w) \/ Crash(w) \/ RequestStop(w)
    <3>1. UNCHANGED <<rows, queue>>
      BY <2>3 DEF ConnectionLost, SessionLost, Crash, RequestStop,
                  AbandonPublish, broker
    <3> QED
      BY <3>1, PhaseFollowsRows
  <2> QED
    BY <1>11, <2>1, <2>2, <2>3 DEF Disturbance
<1>12. ASSUME NEW o \in Operators, RequeueStep(o)
       PROVE  Delivery!Next \/ UNCHANGED <<Phase, queue>>
  <2>1. CASE RequeueCommit(o)
    BY <1>8, <2>1 DEF Delivery!Next
  <2>2. CASE \/ \E e \in Events : RequeueGet(o, e)
             \/ RequeueUpdate(o) \/ RequeueFails(o)
    <3>1. UNCHANGED <<rows, queue>>
      BY <2>2 DEF RequeueGet, RequeueUpdate, RequeueFails, broker
    <3> QED
      BY <3>1, PhaseFollowsRows
  <2> QED
    BY <1>12, <2>1, <2>2 DEF RequeueStep
<1>13. CASE UNCHANGED vars
  <2>1. UNCHANGED <<rows, queue>>
    BY <1>13 DEF vars, broker
  <2> QED
    BY <2>1, PhaseFollowsRows DEF Delivery!vars
<1> QED
  BY <1>9, <1>10, <1>11, <1>12, <1>13 DEF Next, Delivery!vars

\* Whatever the interleaving, the faults and the requeues, the outbox delivers
\* every acknowledged event at least once and follows OutboxDelivery's phases.
THEOREM Refinement == Spec => ImplementsDelivery
<1>1. Init => Delivery!Init
  BY DEF Init, Delivery!Init, Phase
<1>2. IndInv /\ [Next]_vars => [Delivery!Next]_(Delivery!vars)
  BY StepsAreDeliverySteps
<1> QED
  BY <1>1, <1>2, Invariance, PTL DEF Spec, ImplementsDelivery, Delivery!Spec
=============================================================================
