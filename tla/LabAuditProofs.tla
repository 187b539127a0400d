--------------------------- MODULE LabAuditProofs ---------------------------
(***************************************************************************)
(* Proofs about LabAudit for any number of uploads, foreign messages,      *)
(* copies, faults and audits: type correctness, NothingIsLost,             *)
(* PublishedIsAudited and AcceptedIsPersisted.                             *)
(*                                                                         *)
(* NothingIsLost counts the positions of a message in the queue; the first *)
(* lemmas say how Append, Head, Tail and a returned message change that    *)
(* count.  Evidence then says, for each place in audit(), what the report  *)
(* so far owes to what was removed: with the conservation of messages an   *)
(* empty queue means that whatever was published has been removed.         *)
(***************************************************************************)
EXTENDS LabAudit, FiniteSetTheorems, TLAPS

Evidence ==
  /\ found.before \subseteq accepted
  /\ pc # "database" => found.before \subseteq found.documents
  /\ found.published \subseteq marked
  /\ pc = "ack" => hand \in Uploads
  /\ pc \in {"get", "check", "ack"} => drain
  /\ \A u \in Uploads : found.earlier[u] + Count(found.eventIds, u)
                          = acked[u] + OneIf(pc = "ack" /\ hand = u)
  /\ pc = "report" /\ drain =>
       \A u \in found.published : found.earlier[u] + Count(found.eventIds, u) > 0

AuditInv ==
  /\ TypeOK
  /\ NothingIsLost
  /\ \A u \in sent \cup marked : copies[u] > 0
  /\ accepted \subseteq rows /\ stored \subseteq posted
  /\ pc # "idle" => Evidence
  /\ saved[FALSE] # None => saved[FALSE].before \subseteq saved[FALSE].documents

-----------------------------------------------------------------------------
(* Counting *)

Positions(s, m) == {i \in DOMAIN s : s[i] = m}

\* The positions of a message in a sequence are finitely many.
LEMMA PositionsAreFinite ==
  ASSUME NEW S, NEW s \in Seq(S), NEW m
  PROVE  /\ IsFiniteSet(Positions(s, m))
         /\ Count(s, m) = Cardinality(Positions(s, m))
         /\ Count(s, m) \in Nat
<1>1. IsFiniteSet(1..Len(s))
  BY FS_Interval
<1>2. Positions(s, m) \in SUBSET (1..Len(s))
  BY DEF Positions
<1>3. IsFiniteSet(Positions(s, m))
  BY <1>1, <1>2, FS_Subset
<1>4. Cardinality(Positions(s, m)) \in Nat
  BY <1>3, FS_CardinalityType
<1> QED
  BY <1>3, <1>4 DEF Count, Positions

\* An empty sequence has none.
LEMMA CountEmpty == \A m : Count(<<>>, m) = 0
<1> SUFFICES ASSUME NEW m
             PROVE  Count(<<>>, m) = 0
  OBVIOUS
<1>1. {i \in DOMAIN <<>> : <<>>[i] = m} = {}
  OBVIOUS
<1> QED
  BY <1>1, FS_EmptySet, Zenon DEF Count

\* Append adds a position at the end.
LEMMA CountAppend ==
  ASSUME NEW S, NEW s \in Seq(S), NEW x \in S, NEW m
  PROVE  Count(Append(s, x), m) = Count(s, m) + (IF x = m THEN 1 ELSE 0)
<1> DEFINE P == Positions(s, m)
           n == Len(s) + 1
<1>1. IsFiniteSet(P) /\ n \notin P
  <2>1. IsFiniteSet(P)
    BY PositionsAreFinite
  <2>2. n \notin P
    BY DEF Positions
  <2> QED
    BY <2>1, <2>2
<1>2. CASE x = m
  <2>1. Positions(Append(s, x), m) = P \cup {n}
    BY <1>2 DEF Positions
  <2>2. Cardinality(P \cup {n}) = Cardinality(P) + 1
    BY <1>1, FS_AddElement
  <2> QED
    BY <1>2, <2>1, <2>2 DEF Count, Positions
<1>3. CASE x # m
  <2>1. Positions(Append(s, x), m) = P
    BY <1>3 DEF Positions
  <2>2. Count(Append(s, x), m) = Count(s, m)
    BY <2>1 DEF Count, Positions
  <2> QED
    BY <1>3, <2>2, PositionsAreFinite
<1> QED
  BY <1>2, <1>3

\* Putting a message before a sequence moves the positions up and adds the first.
LEMMA CountPrepend ==
  ASSUME NEW S, NEW s \in Seq(S), NEW x \in S, NEW m
  PROVE  Count(<<x>> \o s, m) = Count(s, m) + (IF x = m THEN 1 ELSE 0)
<1> DEFINE P == Positions(s, m)
           Q == {i \in 2..Len(s) + 1 : s[i - 1] = m}
           f == [i \in P |-> i + 1]
<1>1. IsFiniteSet(P) /\ Count(s, m) = Cardinality(P) /\ Cardinality(P) \in Nat
  BY PositionsAreFinite
<1>2. IsFiniteSet(Q) /\ Cardinality(Q) = Cardinality(P)
  <2>1. f \in [P -> Q]
    BY DEF Positions
  <2>2. \A i, j \in P : f[i] = f[j] => i = j
    BY DEF Positions
  <2>3. \A k \in Q : \E i \in P : f[i] = k
    <3> SUFFICES ASSUME NEW k \in Q
                 PROVE  \E i \in P : f[i] = k
      OBVIOUS
    <3>1. k - 1 \in P /\ f[k - 1] = k
      BY DEF Positions
    <3> QED
      BY <3>1
  <2>4. f \in Bijection(P, Q)
    <3> HIDE DEF f, P, Q
    <3> QED
      BY <2>1, <2>2, <2>3 DEF Bijection, Injection, Surjection, IsInjective
  <2>5. ExistsBijection(P, Q)
    BY <2>4 DEF ExistsBijection
  <2> QED
    BY <1>1, <2>5, FS_Bijection
<1>3. 1 \notin Q
  OBVIOUS
<1>4. CASE x = m
  <2>1. Positions(<<x>> \o s, m) = Q \cup {1}
    BY <1>4 DEF Positions
  <2>2. Cardinality(Q \cup {1}) = Cardinality(Q) + 1
    BY <1>2, <1>3, FS_AddElement
  <2> QED
    BY <1>1, <1>2, <1>4, <2>1, <2>2 DEF Count, Positions
<1>5. CASE x # m
  <2>1. Positions(<<x>> \o s, m) = Q
    <3>1. DOMAIN (<<x>> \o s) = 1..Len(s) + 1
      OBVIOUS
    <3>2. \A i \in 2..Len(s) + 1 : (<<x>> \o s)[i] = s[i - 1]
      OBVIOUS
    <3>3. (<<x>> \o s)[1] = x
      OBVIOUS
    <3> QED
      BY <1>5, <3>1, <3>2, <3>3 DEF Positions
  <2>2. Count(<<x>> \o s, m) = Cardinality(Q)
    BY <2>1 DEF Count, Positions
  <2> HIDE DEF P, Q
  <2> QED
    BY <1>1, <1>2, <1>5, <2>2
<1> QED
  BY <1>4, <1>5

\* Taking the head of a sequence takes its position.
LEMMA CountTail ==
  ASSUME NEW S, NEW s \in Seq(S), s # <<>>, NEW m
  PROVE  Count(s, m) = Count(Tail(s), m) + (IF Head(s) = m THEN 1 ELSE 0)
<1>1. Tail(s) \in Seq(S) /\ Head(s) \in S /\ <<Head(s)>> \o Tail(s) = s
  OBVIOUS
<1>2. \A h \in S, r \in Seq(S) : Count(<<h>> \o r, m) = Count(r, m) + (IF h = m THEN 1 ELSE 0)
  <2> SUFFICES ASSUME NEW h \in S, NEW r \in Seq(S)
               PROVE  Count(<<h>> \o r, m) = Count(r, m) + (IF h = m THEN 1 ELSE 0)
    OBVIOUS
  <2> QED
    BY CountPrepend
<1> QED
  BY <1>1, <1>2, Zenon

-----------------------------------------------------------------------------
(* The invariant *)

\* No evidence exists at first.
LEMMA AuditInit == Init => AuditInv
<1> SUFFICES ASSUME Init
             PROVE  AuditInv
  OBVIOUS
<1>1. 0 \in 0..MaxCopies /\ 0 \in 0..MaxFaults /\ 0 \in 0..MaxAudits
  BY BoundsAssumption
<1>2. TypeOK
  <2>1. queue \in Seq(Messages)
    BY DEF Init
  <2>2. copies \in [Messages -> 0..MaxCopies] /\ acked \in [Messages -> Nat]
    BY <1>1 DEF Init
  <2> QED
    BY <1>1, <2>1, <2>2, Zenon DEF Init, TypeOK
<1>3. NothingIsLost
  <2>1. \A m \in Messages : hand # m /\ queue = <<>> /\ acked[m] = 0 /\ copies[m] = 0
    BY MessagesAssumption DEF Init, Messages
  <2> QED
    BY <2>1, CountEmpty DEF NothingIsLost, OneIf, Messages
<1> QED
  BY <1>2, <1>3 DEF Init, AuditInv

\* The counts of a message are numbers.
LEMMA CountsAreNumbers ==
  ASSUME TypeOK, NEW m \in Messages
  PROVE  Count(queue, m) \in Nat /\ acked[m] \in Nat /\ copies[m] \in Nat
<1>1. Count(queue, m) \in Nat
  BY PositionsAreFinite DEF TypeOK
<1> QED
  BY <1>1, BoundsAssumption DEF TypeOK

\* The load and the workers: only a publication touches the queue and its count.
Serving ==
  \/ \E u \in Uploads : Post(u) \/ Accept(u) \/ Store(u) \/ Register(u)
  \/ \E u \in Uploads : Publish(u) \/ Mark(u) \/ Interrupt(u)
  \/ \E f \in Foreign : PublishForeign(f)

\* A publication adds a copy to the queue and to the count of copies.
LEMMA EnqueueConserves ==
  ASSUME TypeOK, NothingIsLost, NEW x \in Messages, Enqueue(x), UNCHANGED <<hand, acked>>
  PROVE  /\ NothingIsLost'
         /\ queue' \in Seq(Messages) /\ copies' \in [Messages -> 0..MaxCopies]
         /\ \A m \in Messages : copies[m] <= copies'[m]
         /\ copies'[x] > 0
<1>1. queue \in Seq(Messages) /\ copies \in [Messages -> 0..MaxCopies]
  BY DEF TypeOK
<1>2. copies' = [copies EXCEPT ![x] = copies[x] + 1] /\ copies[x] < MaxCopies
  BY DEF Enqueue
<1>3. copies' \in [Messages -> 0..MaxCopies]
  BY <1>1, <1>2, BoundsAssumption
<1>4. queue' \in Seq(Messages)
  BY <1>1 DEF Enqueue
<1>5. ASSUME NEW m \in Messages
      PROVE  Count(queue', m) + OneIf(hand = m) + acked[m] = copies'[m]
  <2>1. Count(queue', m) = Count(queue, m) + (IF x = m THEN 1 ELSE 0)
    BY <1>1, CountAppend DEF Enqueue
  <2>2. copies'[m] = copies[m] + (IF x = m THEN 1 ELSE 0)
    BY <1>1, <1>2, BoundsAssumption
  <2>3. Count(queue, m) + OneIf(hand = m) + acked[m] = copies[m]
    BY DEF NothingIsLost
  <2> QED
    BY <2>1, <2>2, <2>3, CountsAreNumbers DEF OneIf
<1>6. \A m \in Messages : copies[m] <= copies'[m]
  BY <1>1, <1>2, BoundsAssumption
<1>7. copies'[x] > 0
  BY <1>1, <1>2, BoundsAssumption
<1> QED
  BY <1>3, <1>4, <1>5, <1>6, <1>7 DEF NothingIsLost

\* What the service does keeps the invariant.
LEMMA ServingKeeps ==
  ASSUME AuditInv, Serving
  PROVE  AuditInv'
<1> DEFINE Monotone == accepted \subseteq accepted' /\ marked \subseteq marked'
<1>1. UNCHANGED auditing
  BY DEF Serving, Post, Accept, Store, Register, Publish, Mark, Interrupt, PublishForeign
<1>2. \/ UNCHANGED <<queue, copies>> /\ sent' \cup marked' \subseteq sent \cup marked
      \/ \E x \in Messages : /\ Enqueue(x)
                             /\ sent' \cup marked' \subseteq sent \cup marked \cup {x}
  BY DEF Serving, Post, Accept, Store, Register, Publish, Mark, Interrupt, PublishForeign,
         Messages
<1>3. Monotone /\ accepted' \subseteq rows'
  BY DEF AuditInv, TypeOK, Serving, Post, Accept, Store, Register, Publish, Mark, Interrupt,
         PublishForeign
<1>4. /\ accepted' \subseteq posted' /\ posted' \subseteq Uploads
      /\ rows' \subseteq stored' /\ stored' \subseteq Uploads /\ stored' \subseteq posted'
      /\ marked' \subseteq rows' /\ sent' \subseteq rows'
      /\ faults' \in 0..MaxFaults
  <2>1. /\ accepted \subseteq posted /\ posted \subseteq Uploads
        /\ rows \subseteq stored /\ stored \subseteq Uploads
        /\ marked \subseteq rows /\ sent \subseteq rows /\ stored \subseteq posted
    BY DEF AuditInv, TypeOK
  <2>2. faults' \in 0..MaxFaults
    <3>1. faults' = faults \/ Fault
      BY DEF Serving, Post, Accept, Store, Register, Publish, Mark, Interrupt, PublishForeign
    <3>2. faults \in 0..MaxFaults
      BY DEF AuditInv, TypeOK
    <3> QED
      BY <3>1, <3>2, BoundsAssumption DEF Fault
  <2>3. CASE UNCHANGED <<posted, accepted, stored, rows, sent, marked>>
    BY <2>1, <2>2, <2>3
  <2>4. CASE \E u \in Uploads : Post(u) \/ Accept(u) \/ Store(u) \/ Register(u)
    <3> PICK u \in Uploads : Post(u) \/ Accept(u) \/ Store(u) \/ Register(u)
      BY <2>4
    <3>1. CASE Post(u)
      BY <2>1, <2>2, <3>1 DEF Post
    <3>2. CASE Accept(u)
      BY <2>1, <2>2, <3>2 DEF Accept
    <3>3. CASE Store(u)
      BY <2>1, <2>2, <3>3 DEF Store
    <3>4. CASE Register(u)
      BY <2>1, <2>2, <3>4 DEF Register
    <3> QED
      BY <3>1, <3>2, <3>3, <3>4
  <2>5. CASE \E u \in Uploads : Publish(u) \/ Mark(u) \/ Interrupt(u)
    BY <2>1, <2>2, <2>5 DEF Publish, Mark, Interrupt
  <2>6. CASE \E f \in Foreign : PublishForeign(f)
    BY <2>3, <2>6 DEF PublishForeign
  <2> QED
    BY <2>4, <2>5, <2>6 DEF Serving
<1>5. /\ NothingIsLost'
      /\ queue' \in Seq(Messages) /\ copies' \in [Messages -> 0..MaxCopies]
      /\ \A u \in sent' \cup marked' : copies'[u] > 0
  <2>1. CASE UNCHANGED <<queue, copies>> /\ sent' \cup marked' \subseteq sent \cup marked
    BY <1>1, <2>1 DEF auditing, AuditInv, TypeOK, NothingIsLost
  <2>2. ASSUME NEW x \in Messages, Enqueue(x),
               sent' \cup marked' \subseteq sent \cup marked \cup {x}
        PROVE  /\ NothingIsLost'
               /\ queue' \in Seq(Messages) /\ copies' \in [Messages -> 0..MaxCopies]
               /\ \A u \in sent' \cup marked' : copies'[u] > 0
    <3>1. /\ NothingIsLost'
          /\ queue' \in Seq(Messages) /\ copies' \in [Messages -> 0..MaxCopies]
          /\ \A m \in Messages : copies[m] <= copies'[m]
          /\ copies'[x] > 0
      BY <1>1, <2>2, EnqueueConserves DEF auditing, AuditInv
    <3>2. ASSUME NEW u \in sent' \cup marked'
          PROVE  copies'[u] > 0
      <4>1. CASE u = x
        BY <3>1, <4>1
      <4>2. CASE u \in sent \cup marked
        <5>1. u \in Messages /\ copies[u] > 0
          BY <4>2 DEF AuditInv, TypeOK, Messages
        <5>2. copies[u] \in Nat /\ copies'[u] \in Nat
          BY <3>1, <5>1, BoundsAssumption DEF AuditInv, TypeOK
        <5> QED
          BY <3>1, <5>1, <5>2
      <4> QED
        BY <2>2, <4>1, <4>2
    <3> QED
      BY <3>1, <3>2
  <2> QED
    BY <1>2, <2>1, <2>2
<1>6. TypeOK'
  BY <1>1, <1>4, <1>5 DEF auditing, AuditInv, TypeOK
<1>7. pc' # "idle" => Evidence'
  BY <1>1, <1>3 DEF auditing, AuditInv, Evidence
<1>8. (saved[FALSE] # None => saved[FALSE].before \subseteq saved[FALSE].documents)'
  BY <1>1 DEF auditing, AuditInv
<1> QED
  BY <1>3, <1>4, <1>5, <1>6, <1>7, <1>8 DEF AuditInv

\* What every step of an audit has to show.
LEMMA AuditInvFrom ==
  ASSUME AuditInv, UNCHANGED service, TypeOK', NothingIsLost',
         pc' # "idle" => Evidence',
         saved'[FALSE] # None => saved'[FALSE].before \subseteq saved'[FALSE].documents
  PROVE  AuditInv'
<1>1. (\A u \in sent \cup marked : copies[u] > 0)'
  BY DEF AuditInv, service
<1>2. (accepted \subseteq rows /\ stored \subseteq posted)'
  BY DEF AuditInv, service
<1> QED
  BY <1>1, <1>2 DEF AuditInv

\* Steps that leave the queue, the hand and what was removed alone lose nothing.
LEMMA LosesNothing ==
  ASSUME NothingIsLost, UNCHANGED <<copies, queue, hand, acked>>
  PROVE  NothingIsLost'
BY DEF NothingIsLost

\* A report that was saved stays as good as it was.
LEMMA SavedIsKept ==
  ASSUME AuditInv, UNCHANGED saved
  PROVE  saved'[FALSE] # None => saved'[FALSE].before \subseteq saved'[FALSE].documents
BY DEF AuditInv

\* A new audit has found nothing yet.
LEMMA StartKeeps ==
  ASSUME AuditInv, NEW draining \in BOOLEAN, StartAudit(draining)
  PROVE  AuditInv'
<1>1. UNCHANGED service /\ UNCHANGED <<copies, queue, hand, acked, saved, faults>>
  BY DEF StartAudit, service
<1>2. /\ pc = "idle" /\ pc' = "database" /\ drain' = draining /\ audits < MaxAudits
      /\ audits' = audits + 1
      /\ found' = [documents |-> {}, published |-> {}, eventIds |-> <<>>,
                   before |-> accepted, earlier |-> acked]
  BY DEF StartAudit, Goto
<1>3. found' \in Report
  <2>1. accepted \in SUBSET Uploads /\ acked \in [Messages -> Nat] /\ <<>> \in Seq(Uploads)
    BY DEF AuditInv, TypeOK
  <2> QED
    BY <1>2, <2>1 DEF Report
<1>4. TypeOK'
  <2>1. audits' \in 0..MaxAudits
    BY <1>2, BoundsAssumption DEF AuditInv, TypeOK
  <2> QED
    BY <1>1, <1>2, <1>3, <2>1 DEF AuditInv, TypeOK, service
<1>5. Evidence'
  <2>1. ASSUME NEW u \in Uploads
        PROVE  acked[u] + Count(<<>>, u) = acked[u] + OneIf(FALSE)
    BY CountEmpty DEF OneIf
  <2> QED
    BY <1>1, <1>2, <2>1 DEF Evidence, OneIf, service
<1> QED
  BY <1>1, <1>4, <1>5, AuditInvFrom, LosesNothing, SavedIsKept DEF AuditInv

\* The SELECT returns what is registered and marked at that moment.
LEMMA DatabaseKeeps ==
  ASSUME AuditInv, ReadDatabase
  PROVE  AuditInv'
<1>1. /\ UNCHANGED service
      /\ UNCHANGED <<copies, queue, drain, hand, acked, saved, audits, faults>>
  BY DEF ReadDatabase, service
<1>2. /\ pc = "database" /\ pc' = "objects"
      /\ found' = [found EXCEPT !.documents = rows, !.published = marked]
  BY DEF ReadDatabase, Goto
<1>3. found \in Report /\ Evidence
  BY <1>2 DEF AuditInv, TypeOK
<1>4. /\ found' \in Report /\ found'.documents = rows /\ found'.published = marked
      /\ found'.eventIds = found.eventIds /\ found'.before = found.before
      /\ found'.earlier = found.earlier
  <2>1. rows \in SUBSET Uploads /\ marked \in SUBSET Uploads
    BY DEF AuditInv, TypeOK
  <2> QED
    BY <1>2, <1>3, <2>1 DEF Report
<1>5. TypeOK'
  BY <1>1, <1>2, <1>4 DEF AuditInv, TypeOK, service
<1>6. Evidence'
  BY <1>1, <1>2, <1>3, <1>4 DEF AuditInv, Evidence, OneIf, service
<1> QED
  BY <1>1, <1>5, <1>6, AuditInvFrom, LosesNothing, SavedIsKept DEF AuditInv

\* Looking at the container and at the length of the queue changes nothing.
LEMMA LooksKeep ==
  ASSUME AuditInv, ReadObjects \/ CountQueue
  PROVE  AuditInv'
<1>1. /\ UNCHANGED service
      /\ UNCHANGED <<copies, queue, drain, found, hand, acked, saved, audits, faults>>
  BY DEF ReadObjects, CountQueue, service
<1>2. \/ pc = "objects" /\ pc' = "queue"
      \/ pc = "queue" /\ drain /\ pc' = "get"
      \/ pc = "queue" /\ ~drain /\ pc' = "report"
  BY DEF ReadObjects, CountQueue, Goto
<1>3. TypeOK'
  BY <1>1, <1>2 DEF AuditInv, TypeOK, service
<1>4. Evidence'
  BY <1>1, <1>2 DEF AuditInv, Evidence, OneIf, service
<1> QED
  BY <1>1, <1>3, <1>4, AuditInvFrom, LosesNothing, SavedIsKept DEF AuditInv

\* Nothing to get: what was published is neither in the queue nor in a hand, so
\* it has been removed.  Otherwise the message goes from the queue to the hand.
LEMMA GetKeeps ==
  ASSUME AuditInv, Get
  PROVE  AuditInv'
<1>1. UNCHANGED service /\ UNCHANGED <<copies, drain, found, acked, saved, audits, faults>>
  BY DEF Get, service
<1>2. pc = "get" /\ hand = None /\ queue \in Seq(Messages) /\ Evidence /\ found \in Report
  BY DEF Get, AuditInv, TypeOK
<1>3. CASE queue = <<>>
  <2>1. pc' = "report" /\ UNCHANGED <<queue, hand>>
    BY <1>3 DEF Get, Goto
  <2>2. TypeOK'
    BY <1>1, <1>2, <2>1 DEF AuditInv, TypeOK, service
  <2>3. ASSUME NEW u \in found.published
        PROVE  found.earlier[u] + Count(found.eventIds, u) > 0
    <3>1. u \in Uploads /\ u \in Messages /\ u # None /\ copies[u] > 0
      BY <1>2, MessagesAssumption DEF Evidence, AuditInv, TypeOK, Messages
    <3>2. Count(queue, u) = 0
      BY <1>3, CountEmpty
    <3>3. Count(queue, u) + OneIf(hand = u) + acked[u] = copies[u]
      BY <3>1 DEF AuditInv, NothingIsLost
    <3>4. acked[u] \in Nat
      BY <3>1, CountsAreNumbers DEF AuditInv
    <3>5. acked[u] > 0
      BY <1>2, <3>1, <3>2, <3>3, <3>4 DEF OneIf
    <3>6. found.earlier[u] + Count(found.eventIds, u) = acked[u]
      BY <1>2, <3>1, <3>4 DEF Evidence, OneIf
    <3> QED
      BY <3>5, <3>6
  <2>4. Evidence'
    BY <1>1, <1>2, <2>1, <2>3 DEF Evidence, OneIf, service
  <2> QED
    BY <1>1, <2>1, <2>2, <2>4, AuditInvFrom, LosesNothing, SavedIsKept DEF AuditInv
<1>4. CASE queue # <<>>
  <2>1. hand' = Head(queue) /\ queue' = Tail(queue) /\ pc' = "check"
    BY <1>4 DEF Get, Goto
  <2>2. hand' \in Messages /\ queue' \in Seq(Messages) /\ hand' # None
    BY <1>2, <1>4, <2>1, MessagesAssumption DEF Messages
  <2>3. TypeOK'
    BY <1>1, <1>2, <2>1, <2>2 DEF AuditInv, TypeOK, service
  <2>4. NothingIsLost'
    <3>1. ASSUME NEW m \in Messages
          PROVE  Count(queue', m) + OneIf(hand' = m) + acked'[m] = copies'[m]
      <4>1. Count(queue, m) = Count(queue', m) + (IF hand' = m THEN 1 ELSE 0)
        BY <1>2, <1>4, <2>1, CountTail
      <4>2. Count(queue, m) + OneIf(hand = m) + acked[m] = copies[m]
        BY DEF AuditInv, NothingIsLost
      <4>3. hand # m
        BY <1>2, MessagesAssumption DEF Messages
      <4>4. Count(queue, m) \in Nat /\ Count(queue', m) \in Nat /\ acked[m] \in Nat
        BY <1>2, <2>2, PositionsAreFinite, CountsAreNumbers DEF AuditInv
      <4> QED
        BY <1>1, <4>1, <4>2, <4>3, <4>4 DEF OneIf
    <3> QED
      BY <1>1, <3>1 DEF AuditInv, NothingIsLost
  <2>5. Evidence'
    BY <1>1, <1>2, <2>1 DEF Evidence, OneIf, service
  <2> QED
    BY <1>1, <2>3, <2>4, <2>5, AuditInvFrom, SavedIsKept DEF AuditInv
<1> QED
  BY <1>3, <1>4

\* The report takes the message in the hand.
LEMMA TakeKeeps ==
  ASSUME AuditInv, Take
  PROVE  AuditInv'
<1>1. UNCHANGED service /\ UNCHANGED <<copies, queue, drain, hand, acked, saved, audits, faults>>
  BY DEF Take, service
<1>2. /\ pc = "check" /\ pc' = "ack" /\ hand \in found.documents
      /\ found' = [found EXCEPT !.eventIds = Append(found.eventIds, hand)]
  BY DEF Take, Known, Goto
<1>3. found \in Report /\ Evidence /\ hand \in Uploads /\ drain
  BY <1>2 DEF AuditInv, TypeOK, Evidence, Report
<1>4. found.eventIds \in Seq(Uploads)
  BY <1>3 DEF Report
<1>5. /\ found' \in Report /\ found'.documents = found.documents
      /\ found'.published = found.published
      /\ found'.eventIds = Append(found.eventIds, hand)
      /\ found'.before = found.before /\ found'.earlier = found.earlier
  <2>1. Append(found.eventIds, hand) \in Seq(Uploads)
    BY <1>3, <1>4
  <2> QED
    BY <1>2, <1>3, <2>1 DEF Report
<1>6. TypeOK'
  BY <1>1, <1>2, <1>5 DEF AuditInv, TypeOK, service
<1>7. ASSUME NEW u \in Uploads
      PROVE  found'.earlier[u] + Count(found'.eventIds, u) = acked[u] + OneIf(hand = u)
  <2>1. Count(Append(found.eventIds, hand), u)
          = Count(found.eventIds, u) + (IF hand = u THEN 1 ELSE 0)
    BY <1>3, <1>4, CountAppend
  <2>2. found.earlier[u] + Count(found.eventIds, u) = acked[u]
    BY <1>2, <1>3, CountsAreNumbers DEF Evidence, OneIf, AuditInv, Messages
  <2>3. found.earlier[u] \in Nat /\ Count(found.eventIds, u) \in Nat
    BY <1>3, <1>4, PositionsAreFinite DEF Report, Messages
  <2> QED
    BY <1>5, <2>1, <2>2, <2>3 DEF OneIf
<1>8. Evidence'
  BY <1>1, <1>2, <1>3, <1>5, <1>7 DEF Evidence, OneIf, service
<1> QED
  BY <1>1, <1>6, <1>8, AuditInvFrom, LosesNothing, SavedIsKept DEF AuditInv

\* An audit that ends without a report puts its message back.
LEMMA AbandonKeeps ==
  ASSUME AuditInv, Abandon, faults' \in 0..MaxFaults
  PROVE  AuditInv'
<1>1. UNCHANGED service /\ UNCHANGED <<copies, drain, acked, saved, audits>>
  BY DEF Abandon, service
<1>2. hand' = None /\ pc' = "idle"
  BY DEF Abandon, Goto
<1>3. queue \in Seq(Messages)
  BY DEF AuditInv, TypeOK
<1>4. CASE hand = None
  <2>1. queue' = queue /\ hand' = hand
    BY <1>2, <1>4 DEF Abandon
  <2>2. TypeOK'
    BY <1>1, <1>2, <2>1 DEF AuditInv, TypeOK, service
  <2> QED
    BY <1>1, <1>2, <2>1, <2>2, AuditInvFrom, LosesNothing, SavedIsKept DEF AuditInv
<1>5. CASE hand # None
  <2>1. hand \in Messages /\ queue' = <<hand>> \o queue
    BY <1>5 DEF Abandon, AuditInv, TypeOK
  <2>2. queue' \in Seq(Messages)
    BY <1>3, <2>1
  <2>3. TypeOK'
    BY <1>1, <1>2, <2>2 DEF AuditInv, TypeOK, service
  <2>4. ASSUME NEW m \in Messages
        PROVE  Count(queue', m) + OneIf(hand' = m) + acked[m] = copies[m]
    <3>1. Count(queue', m) = Count(queue, m) + (IF hand = m THEN 1 ELSE 0)
      BY <1>3, <2>1, CountPrepend
    <3>2. Count(queue, m) + OneIf(hand = m) + acked[m] = copies[m]
      BY DEF AuditInv, NothingIsLost
    <3>3. hand' # m
      BY <1>2, MessagesAssumption DEF Messages
    <3>4. Count(queue, m) \in Nat /\ acked[m] \in Nat
      BY CountsAreNumbers DEF AuditInv
    <3> QED
      BY <3>1, <3>2, <3>3, <3>4 DEF OneIf
  <2>5. NothingIsLost'
    BY <1>1, <2>4 DEF AuditInv, NothingIsLost
  <2> QED
    BY <1>1, <1>2, <2>3, <2>5, AuditInvFrom, SavedIsKept DEF AuditInv
<1> QED
  BY <1>4, <1>5

\* An acknowledgement moves a message of the run from the hand to what was
\* removed; the report has it already.
LEMMA AcknowledgeKeeps ==
  ASSUME AuditInv, Acknowledge
  PROVE  AuditInv'
<1>1. UNCHANGED service /\ UNCHANGED <<copies, queue, drain, found, saved, audits, faults>>
  BY DEF Acknowledge, service
<1>2. /\ pc = "ack" /\ pc' = "get" /\ hand' = None
      /\ acked' = [acked EXCEPT ![hand] = acked[hand] + 1]
  BY DEF Acknowledge, Goto
<1>3. /\ found \in Report /\ Evidence /\ hand \in Uploads /\ hand \in Messages /\ drain
      /\ acked \in [Messages -> Nat] /\ hand \notin Foreign
  BY <1>2, MessagesAssumption DEF AuditInv, TypeOK, Evidence, Messages
<1>4. /\ acked' \in [Messages -> Nat]
      /\ \A m \in Messages : acked'[m] = acked[m] + (IF hand = m THEN 1 ELSE 0)
  BY <1>2, <1>3
<1>5. TypeOK'
  BY <1>1, <1>2, <1>4 DEF AuditInv, TypeOK, service
<1>6. NothingIsLost'
  <2>1. ASSUME NEW m \in Messages
        PROVE  Count(queue, m) + OneIf(hand' = m) + acked'[m] = copies[m]
    <3>1. Count(queue, m) + OneIf(hand = m) + acked[m] = copies[m]
      BY DEF AuditInv, NothingIsLost
    <3>2. hand' # m
      BY <1>2, MessagesAssumption DEF Messages
    <3>3. Count(queue, m) \in Nat /\ acked[m] \in Nat
      BY CountsAreNumbers DEF AuditInv
    <3> QED
      BY <1>4, <3>1, <3>2, <3>3 DEF OneIf
  <2>2. \A f \in Foreign : acked'[f] = 0
    BY <1>3, <1>4 DEF AuditInv, NothingIsLost, Messages
  <2> QED
    BY <1>1, <2>1, <2>2 DEF NothingIsLost
<1>7. Evidence'
  <2>1. ASSUME NEW u \in Uploads
        PROVE  found.earlier[u] + Count(found.eventIds, u) = acked'[u]
    <3>1. found.earlier[u] + Count(found.eventIds, u) = acked[u] + OneIf(hand = u)
      BY <1>2, <1>3 DEF Evidence, OneIf
    <3>2. acked'[u] = acked[u] + (IF hand = u THEN 1 ELSE 0)
      BY <1>4 DEF Messages
    <3> QED
      BY <3>1, <3>2 DEF OneIf
  <2>2. \A u \in Uploads : acked'[u] + 0 = acked'[u]
    BY <1>4 DEF Messages
  <2> QED
    BY <1>1, <1>2, <1>3, <2>1, <2>2 DEF Evidence, OneIf, service
<1> QED
  BY <1>1, <1>5, <1>6, <1>7, AuditInvFrom, SavedIsKept

\* A report says what its evidence says.
LEMMA SaveKeeps ==
  ASSUME AuditInv, SaveReport
  PROVE  AuditInv'
<1>1. UNCHANGED service /\ UNCHANGED <<copies, queue, drain, hand, acked, audits, faults>>
  BY DEF SaveReport, service
<1>2. pc = "report" /\ pc' = "idle" /\ saved' = [saved EXCEPT ![drain] = found]
  BY DEF SaveReport, Goto
<1>3. found \in Report /\ Evidence /\ DOMAIN saved = BOOLEAN
  BY <1>2 DEF AuditInv, TypeOK
<1>4. DOMAIN saved' = BOOLEAN /\ \A d \in BOOLEAN : saved'[d] = found \/ saved'[d] = saved[d]
  BY <1>2, <1>3
<1>5. TypeOK'
  BY <1>1, <1>2, <1>3, <1>4 DEF AuditInv, TypeOK, service
<1>6. saved'[FALSE] # None => saved'[FALSE].before \subseteq saved'[FALSE].documents
  BY <1>2, <1>3, <1>4 DEF Evidence, AuditInv
<1> QED
  BY <1>1, <1>2, <1>5, <1>6, AuditInvFrom, LosesNothing DEF AuditInv

\* The invariant holds after every step.
LEMMA AuditStep ==
  ASSUME AuditInv, [Next]_vars
  PROVE  AuditInv'
<1>1. CASE UNCHANGED vars
  <2>1. TypeOK' /\ NothingIsLost' /\ Evidence' = Evidence /\ UNCHANGED service
    BY <1>1 DEF vars, service, AuditInv, TypeOK, NothingIsLost, Evidence
  <2> QED
    BY <1>1, <2>1, AuditInvFrom, SavedIsKept DEF vars, service, AuditInv
<1>2. CASE Serving
  BY <1>2, ServingKeeps
<1>3. ASSUME NEW draining \in BOOLEAN, StartAudit(draining)
      PROVE  AuditInv'
  BY <1>3, StartKeeps
<1>4. CASE ReadDatabase \/ ReadObjects \/ CountQueue
  BY <1>4, DatabaseKeeps, LooksKeep
<1>5. CASE Get \/ Take \/ Acknowledge \/ SaveReport
  BY <1>5, GetKeeps, TakeKeeps, AcknowledgeKeeps, SaveKeeps
<1>6. CASE Refuse
  <2>1. faults' \in 0..MaxFaults
    BY <1>6 DEF Refuse, AuditInv, TypeOK
  <2> QED
    BY <1>6, <2>1, AbandonKeeps DEF Refuse
<1>7. CASE LoseAudit
  <2>1. faults' \in 0..MaxFaults
    BY <1>7, BoundsAssumption DEF LoseAudit, Fault, AuditInv, TypeOK
  <2> QED
    BY <1>7, <2>1, AbandonKeeps DEF LoseAudit
<1> QED
  BY <1>1, <1>2, <1>3, <1>4, <1>5, <1>6, <1>7 DEF Next, Serving

\* The invariant always holds.
LEMMA AuditInvariant == Spec => []AuditInv
BY AuditInit, AuditStep, PTL DEF Spec

-----------------------------------------------------------------------------
(* Results *)

\* Every variable keeps its type.
THEOREM AuditTypes == Spec => []TypeOK
BY AuditInvariant, PTL DEF AuditInv

\* basic_get, basic_ack and basic_nack of audit.py neither lose a publication
\* nor multiply it, and remove no message of another run.
THEOREM AuditLosesNothing == Spec => []NothingIsLost
BY AuditInvariant, PTL DEF AuditInv

\* The report of a drain is saved with every copy that was ever removed, taken by
\* it or before it, and whatever its SELECT saw as published is among them.
THEOREM DrainedReportIsSound == Spec => PublishedIsAudited
<1> DEFINE Accounted ==
      saved'[TRUE] # saved[TRUE] =>
        \A u \in Uploads :
          /\ saved'[TRUE].earlier[u] + Count(saved'[TRUE].eventIds, u) = acked[u]
          /\ u \in saved'[TRUE].published => acked[u] > 0
<1>1. AuditInv /\ [Next]_vars => [Accounted]_vars
  <2> SUFFICES ASSUME AuditInv, Next, saved'[TRUE] # saved[TRUE], NEW u \in Uploads
               PROVE  /\ saved'[TRUE].earlier[u] + Count(saved'[TRUE].eventIds, u)
                            = acked[u]
                      /\ u \in saved'[TRUE].published => acked[u] > 0
    OBVIOUS
  <2>1. SaveReport
    BY DEF Next, Post, Accept, Store, Register, Publish, Mark, Interrupt, PublishForeign,
           StartAudit, ReadDatabase, ReadObjects, CountQueue, Get, Take, Refuse, Abandon,
           Acknowledge, LoseAudit, auditing
  <2>2. pc = "report" /\ saved' = [saved EXCEPT ![drain] = found]
    BY <2>1 DEF SaveReport
  <2>3. DOMAIN saved = BOOLEAN /\ drain \in BOOLEAN /\ Evidence
    BY <2>2 DEF AuditInv, TypeOK
  <2>4. drain = TRUE /\ saved'[TRUE] = found
    BY <2>2, <2>3
  <2>5. acked[u] \in Nat
    BY CountsAreNumbers DEF AuditInv, Messages
  <2>6. found.earlier[u] + Count(found.eventIds, u) = acked[u]
    BY <2>2, <2>3, <2>5 DEF Evidence, OneIf
  <2>7. u \in found.published => found.earlier[u] + Count(found.eventIds, u) > 0
    BY <2>2, <2>3, <2>4 DEF Evidence
  <2> QED
    BY <2>4, <2>6, <2>7
<1> QED
  BY <1>1, AuditInvariant, PTL DEF Spec, PublishedIsAudited

\* The summary accuses no accepted upload that was accepted before its audit.
THEOREM SummaryIsSound == Spec => []AcceptedIsPersisted
<1>1. AuditInv => AcceptedIsPersisted
  BY DEF AuditInv, AcceptedIsPersisted, AcceptedWithoutDocument
<1> QED
  BY <1>1, AuditInvariant, PTL
=============================================================================
