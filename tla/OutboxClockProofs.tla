-------------------------- MODULE OutboxClockProofs -------------------------
(***************************************************************************)
(* Proofs about OutboxClock for any number of workers and events, any      *)
(* backoff, any cap of the delay and any clock: type correctness and       *)
(* AttemptsAreSpaced.                                                      *)
(*                                                                         *)
(* The spacing rests on what the row says between two attempts             *)
(* (Scheduled): an unpublished event that has failed is due one delay      *)
(* after the reading its last failure used, which is no later than when    *)
(* it was recorded, and that is not before all its delays after the first  *)
(* reading.  A worker that claims it has read its clock at or after that   *)
(* time; Locked and Alone keep that true while the worker pauses, until it *)
(* records a failure of its own: nobody else has the event, and it is      *)
(* neither published nor exhausted.  Asleep is the other half: a process   *)
(* that failed and has not ended since is asleep until the whole delay is  *)
(* over, and after that whatever it does is late enough.                   *)
(***************************************************************************)
EXTENDS OutboxClock, FiniteSetTheorems, TLAPS

\* A worker has an event exactly while it holds the row, which is still to be
\* published and was due when the worker read its clock.
Locked ==
  \A w \in Workers :
    IF wpc[w] = "locked"
    THEN /\ cur[w] \in Events
         /\ published[cur[w]] = None
         /\ attempts[cur[w]] < MaxAttempts
         /\ nextAttempt[cur[w]] # None => nextAttempt[cur[w]] <= now[w]
    ELSE cur[w] = None

\* FOR UPDATE SKIP LOCKED.
Alone == \A v, w \in Workers : cur[v] = cur[w] /\ cur[v] # None => v = w

\* What record_failure leaves in the row.
Scheduled ==
  \A e \in Events :
    published[e] = None /\ attempts[e] > 0 =>
      /\ firstTry[e] \in Time /\ lastTry[e] \in Time /\ failedAt[e] \in Time
      /\ lastTry[e] <= failedAt[e] /\ failedAt[e] <= clock
      /\ nextAttempt[e] = lastTry[e] + Delay(attempts[e] - 1)
      /\ nextAttempt[e] >= firstTry[e] + waited[e]

\* An event without a failure has nothing to be remembered.
Untried ==
  \A e \in Events :
    attempts[e] = 0 => firstTry[e] = None /\ waited[e] = 0 /\ nextAttempt[e] = None

\* No reading is ahead of the clock.
Read == \A w \in Workers : now[w] <= clock

\* The process that recorded an event's last failure sleeps until its delay is
\* over.
Asleep ==
  \A e \in Events, w \in Workers :
    published[e] = None /\ attempts[e] > 0 /\ failedBy[e] = w =>
      LET due == failedAt[e] + Delay(attempts[e] - 1)
      IN  IF wpc[w] = "sleeping" THEN wake[w] >= due ELSE clock >= due

ClockInv == TypeOK /\ Locked /\ Alone /\ Read /\ Untried /\ Scheduled /\ Asleep

-----------------------------------------------------------------------------
(* Lemmas *)

\* The subsets of n numbers are counted by a natural number.
LEMMA PowerOfTwo ==
  ASSUME NEW n \in Nat
  PROVE  2^n \in Nat
<1>1. IsFiniteSet(1..n) /\ Cardinality(1..n) = n
  BY FS_Interval
<1>2. IsFiniteSet(SUBSET (1..n)) /\ Cardinality(SUBSET (1..n)) = 2^n
  BY <1>1, FS_SUBSET
<1> QED
  BY <1>2, FS_CardinalityType

\* The delay never exceeds its cap.
LEMMA DelayIsCapped ==
  ASSUME NEW n \in Nat
  PROVE  Delay(n) \in 0..MaxDelay
<1> DEFINE doubled == Backoff * 2^n
<1>1. doubled \in Nat
  BY PowerOfTwo, NumbersAssumption
<1>2. Delay(n) = IF doubled < MaxDelay THEN doubled ELSE MaxDelay
  BY DEF Delay
<1> QED
  BY <1>1, <1>2, NumbersAssumption

\* What a worker that holds a row adds to its attempts and to its reading of the
\* clock stays in range.
LEMMA AttemptTyped ==
  ASSUME ClockInv, NEW w \in Workers, wpc[w] = "locked"
  PROVE  /\ cur[w] \in Events
         /\ attempts[cur[w]] \in Nat
         /\ attempts[cur[w]] + 1 \in 0..MaxAttempts
         /\ now[w] + Delay(attempts[cur[w]]) \in 0..(MaxTime + MaxDelay)
         /\ clock + Delay(attempts[cur[w]]) \in 0..(MaxTime + MaxDelay)
<1>1. cur[w] \in Events /\ attempts[cur[w]] < MaxAttempts
  BY DEF ClockInv, Locked
<1>2. attempts[cur[w]] \in Nat /\ attempts[cur[w]] + 1 \in 0..MaxAttempts
  BY <1>1, NumbersAssumption DEF ClockInv, TypeOK
<1>3. Delay(attempts[cur[w]]) \in 0..MaxDelay
  BY <1>2, DelayIsCapped
<1>4. now[w] \in 0..MaxTime /\ clock \in 0..MaxTime
  BY DEF ClockInv, TypeOK, Time
<1> QED
  BY <1>1, <1>2, <1>3, <1>4, NumbersAssumption

\* Nothing has been tried at first.
LEMMA ClockBegins == Init => ClockInv
<1> SUFFICES ASSUME Init
             PROVE  ClockInv
  OBVIOUS
<1>1. TypeOK
  BY NumbersAssumption DEF Init, TypeOK, Time
<1>2. Locked /\ Alone /\ Read
  BY DEF Init, Locked, Alone, Read
<1>3. Untried /\ Scheduled /\ Asleep
  BY DEF Init, Untried, Scheduled, Asleep
<1> QED
  BY <1>1, <1>2, <1>3 DEF ClockInv

\* No step leaves a variable's type.
LEMMA ClockTyped ==
  ASSUME ClockInv, [Next]_vars
  PROVE  TypeOK'
<1> USE DEF ClockInv, TypeOK, rows, failures
<1>1. CASE Tick
  BY <1>1, NumbersAssumption DEF Tick, Time
<1>2. ASSUME NEW e \in Events, Stamp(e) \/ Register(e)
      PROVE  TypeOK'
  <2>1. CASE Stamp(e)
    BY <2>1 DEF Stamp
  <2>2. CASE Register(e)
    BY <2>2 DEF Register
  <2> QED
    BY <1>2, <2>1, <2>2
<1>3. ASSUME NEW w \in Workers, ReadClock(w) \/ Wake(w) \/ GiveUp(w)
      PROVE  TypeOK'
  <2>1. CASE ReadClock(w)
    BY <2>1 DEF ReadClock
  <2>2. CASE Wake(w)
    BY <2>2 DEF Wake
  <2>3. CASE GiveUp(w)
    <3>1. failedBy' \in [Events -> Workers \cup {None}]
      BY <2>3 DEF GiveUp
    <3> QED
      BY <2>3, <3>1 DEF GiveUp
  <2> QED
    BY <1>3, <2>1, <2>2, <2>3
<1>4. ASSUME NEW w \in Workers, Claim(w)
      PROVE  TypeOK'
  BY <1>4 DEF Claim
<1>5. ASSUME NEW w \in Workers, Publish(w)
      PROVE  TypeOK'
  BY <1>5, AttemptTyped DEF Publish
<1>6. ASSUME NEW w \in Workers, Fail(w)
      PROVE  TypeOK'
  <2>1. /\ cur[w] \in Events
        /\ attempts[cur[w]] + 1 \in 0..MaxAttempts
        /\ now[w] + Delay(attempts[cur[w]]) \in 0..(MaxTime + MaxDelay)
        /\ clock + Delay(attempts[cur[w]]) \in 0..(MaxTime + MaxDelay)
    BY <1>6, AttemptTyped DEF Fail
  <2>2. /\ attempts' \in [Events -> 0..MaxAttempts]
        /\ nextAttempt' \in [Events -> 0..(MaxTime + MaxDelay) \cup {None}]
        /\ wake' \in [Workers -> 0..(MaxTime + MaxDelay)]
    BY <1>6, <2>1 DEF Fail
  <2>3. /\ firstTry' \in [Events -> Time \cup {None}]
        /\ lastTry' \in [Events -> Time \cup {None}]
        /\ failedAt' \in [Events -> Time \cup {None}]
        /\ failedBy' \in [Events -> Workers \cup {None}]
    BY <1>6, <2>1 DEF Fail, Remember
  <2>4. waited' \in [Events -> Nat]
    <3>1. attempts[cur[w]] \in Nat
      BY <1>6, AttemptTyped DEF Fail
    <3>2. Delay(attempts[cur[w]]) \in Nat
      BY <3>1, DelayIsCapped
    <3> QED
      BY <1>6, <2>1, <3>2 DEF Fail, Remember
  <2> QED
    BY <1>6, <2>2, <2>3, <2>4 DEF Fail
<1>7. CASE UNCHANGED vars
  BY <1>7 DEF vars
<1> QED
  BY <1>1, <1>2, <1>3, <1>4, <1>5, <1>6, <1>7 DEF Next

\* A row stays its owner's, unpublished and below the limit, until the owner is
\* done with it.
LEMMA ClockLocked ==
  ASSUME ClockInv, [Next]_vars
  PROVE  Locked' /\ Alone'
<1> USE NoneAssumption DEF ClockInv, TypeOK, Locked, Alone, rows, failures
<1>1. CASE Tick
  BY <1>1 DEF Tick
<1>2. ASSUME NEW e \in Events, Stamp(e) \/ Register(e)
      PROVE  Locked' /\ Alone'
  BY <1>2 DEF Stamp, Register
<1>3. ASSUME NEW w \in Workers, ReadClock(w) \/ Wake(w) \/ GiveUp(w)
      PROVE  Locked' /\ Alone'
  BY <1>3 DEF ReadClock, Wake, GiveUp
<1>4. ASSUME NEW w \in Workers, Claim(w)
      PROVE  Locked' /\ Alone'
  BY <1>4 DEF Claim, Eligible
<1>5. ASSUME NEW w \in Workers, Publish(w)
      PROVE  Locked' /\ Alone'
  BY <1>5 DEF Publish
<1>6. ASSUME NEW w \in Workers, Fail(w)
      PROVE  Locked' /\ Alone'
  BY <1>6 DEF Fail
<1>7. CASE UNCHANGED vars
  BY <1>7 DEF vars
<1> QED
  BY <1>1, <1>2, <1>3, <1>4, <1>5, <1>6, <1>7 DEF Next

\* A worker reads the clock, and the clock goes on.
LEMMA ClockRead ==
  ASSUME ClockInv, [Next]_vars
  PROVE  Read'
<1>1. clock \in Nat /\ clock' \in Nat /\ clock <= clock'
  BY ClockTyped, NumbersAssumption DEF ClockInv, TypeOK, Time, Next, Tick, Stamp, Register,
     ReadClock, Claim, Publish, Fail, Wake, GiveUp, vars
<1>2. \A w \in Workers : now'[w] = now[w] \/ now'[w] = clock
  BY DEF ClockInv, TypeOK, Next, Tick, Stamp, Register, ReadClock, Claim, Publish, Fail,
         Wake, GiveUp, vars
<1>3. \A w \in Workers : now[w] \in Nat /\ now[w] <= clock
  BY NumbersAssumption DEF ClockInv, TypeOK, Time, Read
<1> QED
  BY <1>1, <1>2, <1>3 DEF Read

\* What a recorded failure leaves of its event: worker w has failed it and sleeps.
LEMMA FailLeaves ==
  ASSUME ClockInv, NEW w \in Workers, Fail(w), NEW e \in Events
  PROVE  IF e = cur[w]
         THEN LET delay == Delay(attempts[e])
              IN  /\ attempts[e] \in Nat /\ attempts'[e] = attempts[e] + 1
                  /\ firstTry'[e] = IF firstTry[e] = None THEN now[w] ELSE firstTry[e]
                  /\ lastTry'[e] = now[w] /\ failedAt'[e] = clock /\ failedBy'[e] = w
                  /\ waited'[e] = waited[e] + delay
                  /\ nextAttempt'[e] = now[w] + delay
                  /\ wpc'[w] = "sleeping" /\ wake'[w] = clock + delay
         ELSE UNCHANGED <<attempts[e], firstTry[e], lastTry[e], failedAt[e], failedBy[e],
                          waited[e], nextAttempt[e]>>
<1>1. cur[w] \in Events /\ attempts[cur[w]] \in Nat
  BY AttemptTyped DEF Fail
<1>2. CASE e = cur[w]
  BY <1>1, <1>2 DEF Fail, Remember, ClockInv, TypeOK
<1>3. CASE e # cur[w]
  BY <1>1, <1>3 DEF Fail, Remember, ClockInv, TypeOK
<1> QED
  BY <1>2, <1>3

\* Steps that record no attempt leave what is known of failures alone, except
\* that the end of a process takes its failures from it.
LEMMA NothingIsRecorded ==
  ASSUME ClockInv, [Next]_vars, ~(\E w \in Workers : Publish(w) \/ Fail(w))
  PROVE  /\ UNCHANGED <<attempts, published, nextAttempt, firstTry, lastTry, failedAt,
                        waited, wake>>
         /\ \A e \in Events : failedBy'[e] = failedBy[e] \/ failedBy'[e] = None
  BY DEF ClockInv, TypeOK, Next, Tick, Stamp, Register, ReadClock, Claim, Wake, GiveUp,
         vars, rows, failures

\* A first attempt finds nothing recorded.
LEMMA ClockUntried ==
  ASSUME ClockInv, [Next]_vars
  PROVE  Untried'
<1>1. ASSUME NEW w \in Workers, Publish(w)
      PROVE  Untried'
  <2>1. cur[w] \in Events /\ attempts[cur[w]] \in Nat
    BY <1>1, AttemptTyped DEF Publish
  <2> QED
    BY <1>1, <2>1 DEF Publish, ClockInv, TypeOK, Untried, failures
<1>2. ASSUME NEW w \in Workers, Fail(w)
      PROVE  Untried'
  <2>1. ASSUME NEW e \in Events, attempts'[e] = 0
        PROVE  firstTry'[e] = None /\ waited'[e] = 0 /\ nextAttempt'[e] = None
    BY <1>2, <2>1, FailLeaves DEF ClockInv, Untried
  <2> QED
    BY <2>1 DEF Untried
<1> QED
  BY <1>1, <1>2, NothingIsRecorded DEF ClockInv, Untried

\* Only a failure schedules an event, one delay after its reading.  That is late
\* enough for all delays so far, because the reading was not before the last
\* schedule.
LEMMA ClockScheduled ==
  ASSUME ClockInv, [Next]_vars
  PROVE  Scheduled'
<1>1. /\ clock \in Nat /\ clock' \in Nat /\ clock <= clock'
      /\ \A e \in Events : failedAt[e] \in Time => failedAt[e] \in Nat
  BY ClockTyped, NumbersAssumption DEF ClockInv, TypeOK, Time, Next, Tick, Stamp, Register,
     ReadClock, Claim, Publish, Fail, Wake, GiveUp, vars
<1>2. ASSUME NEW w \in Workers, Publish(w)
      PROVE  Scheduled'
  <2>1. cur[w] \in Events /\ now[w] # None
    BY <1>2, AttemptTyped, NoneAssumption DEF Publish, ClockInv, TypeOK, Time
  <2> QED
    BY <1>2, <2>1 DEF Publish, ClockInv, TypeOK, Scheduled, failures
<1>3. ASSUME NEW w \in Workers, Fail(w)
      PROVE  Scheduled'
  <2> SUFFICES ASSUME NEW e \in Events, published'[e] = None, attempts'[e] > 0
               PROVE  /\ firstTry'[e] \in Time /\ lastTry'[e] \in Time
                      /\ failedAt'[e] \in Time
                      /\ lastTry'[e] <= failedAt'[e] /\ failedAt'[e] <= clock'
                      /\ nextAttempt'[e] = lastTry'[e] + Delay(attempts'[e] - 1)
                      /\ nextAttempt'[e] >= firstTry'[e] + waited'[e]
    BY DEF Scheduled
  <2>1. published[e] = None /\ clock' = clock
    BY <1>3 DEF Fail
  <2>2. CASE e # cur[w]
    BY <1>3, <2>1, <2>2, FailLeaves DEF ClockInv, Scheduled
  <2>3. CASE e = cur[w]
    <3> DEFINE delay == Delay(attempts[e])
    <3>1. /\ attempts[e] \in Nat /\ attempts'[e] = attempts[e] + 1
          /\ firstTry'[e] = IF firstTry[e] = None THEN now[w] ELSE firstTry[e]
          /\ lastTry'[e] = now[w] /\ failedAt'[e] = clock
          /\ waited'[e] = waited[e] + delay
          /\ nextAttempt'[e] = now[w] + delay
      BY <1>3, <2>3, FailLeaves
    <3>2. delay \in Nat
      BY <3>1, DelayIsCapped
    <3>3. /\ now[w] \in Time /\ clock \in Time /\ now[w] \in Nat /\ now[w] <= clock
          /\ waited[e] \in Nat
      BY DEF ClockInv, TypeOK, Time, Read
    <3>4. firstTry'[e] \in Time /\ now[w] >= firstTry'[e] + waited[e]
      <4>1. CASE attempts[e] = 0
        BY <3>1, <3>3, <4>1 DEF ClockInv, Untried
      <4>2. CASE attempts[e] > 0
        <5>1. /\ firstTry[e] \in Time /\ lastTry[e] \in Time
              /\ nextAttempt[e] = lastTry[e] + Delay(attempts[e] - 1)
              /\ nextAttempt[e] >= firstTry[e] + waited[e]
          BY <2>1, <4>2 DEF ClockInv, Scheduled
        <5>2. attempts[e] - 1 \in Nat
          BY <3>1, <4>2
        <5>3. Delay(attempts[e] - 1) \in Nat
          BY <5>2, DelayIsCapped
        <5>4. firstTry[e] \in Nat /\ firstTry[e] # None
          BY <5>1, NoneAssumption DEF Time
        <5>5. nextAttempt[e] \in Nat /\ nextAttempt[e] # None
          BY <5>1, <5>3, NoneAssumption DEF Time
        <5>6. nextAttempt[e] <= now[w]
          BY <1>3, <2>3, <5>5 DEF Fail, ClockInv, Locked
        <5> QED
          BY <3>1, <3>3, <5>1, <5>4, <5>5, <5>6
      <4> QED
        BY <3>1, <4>1, <4>2
    <3>5. firstTry'[e] \in Nat
      BY <3>4 DEF Time
    <3>6. attempts'[e] - 1 = attempts[e]
      BY <3>1
    <3> HIDE DEF delay
    <3>7. nextAttempt'[e] >= firstTry'[e] + waited'[e]
      BY <3>1, <3>2, <3>3, <3>4, <3>5
    <3>8. nextAttempt'[e] = lastTry'[e] + Delay(attempts'[e] - 1)
      BY <3>1, <3>6 DEF delay
    <3>9. lastTry'[e] \in Time /\ failedAt'[e] \in Time
      BY <3>1, <3>3
    <3>10. lastTry'[e] <= failedAt'[e] /\ failedAt'[e] <= clock'
      BY <2>1, <3>1, <3>3, NumbersAssumption DEF Time
    <3> QED
      BY <3>4, <3>7, <3>8, <3>9, <3>10
  <2> QED
    BY <2>2, <2>3
<1>4. CASE ~(\E w \in Workers : Publish(w) \/ Fail(w))
  <2> SUFFICES ASSUME NEW e \in Events, published'[e] = None, attempts'[e] > 0
               PROVE  /\ firstTry'[e] \in Time /\ lastTry'[e] \in Time
                      /\ failedAt'[e] \in Time
                      /\ lastTry'[e] <= failedAt'[e] /\ failedAt'[e] <= clock'
                      /\ nextAttempt'[e] = lastTry'[e] + Delay(attempts'[e] - 1)
                      /\ nextAttempt'[e] >= firstTry'[e] + waited'[e]
    BY DEF Scheduled
  <2>1. UNCHANGED <<attempts, published, nextAttempt, firstTry, lastTry, failedAt, waited>>
    BY <1>4, NothingIsRecorded
  <2> QED
    BY <1>1, <2>1 DEF ClockInv, Scheduled
<1> QED
  BY <1>2, <1>3, <1>4

\* A process that failed an event does nothing before its delay is over, unless
\* it ends.
LEMMA ClockAsleep ==
  ASSUME ClockInv, [Next]_vars
  PROVE  Asleep'
<1> SUFFICES ASSUME NEW e \in Events, NEW w \in Workers,
                    published'[e] = None, attempts'[e] > 0, failedBy'[e] = w
             PROVE  LET due == failedAt'[e] + Delay(attempts'[e] - 1)
                    IN  IF wpc'[w] = "sleeping" THEN wake'[w] >= due ELSE clock' >= due
  BY DEF Asleep
<1> w # None
  BY NoneAssumption
<1>1. CASE \E v \in Workers : Publish(v)
  <2> PICK v \in Workers : Publish(v)
    BY <1>1
  <2>1. cur[v] \in Events /\ now[v] # None
    BY AttemptTyped, NoneAssumption DEF Publish, ClockInv, TypeOK, Time
  <2>2. e # cur[v]
    BY <2>1 DEF Publish, ClockInv, TypeOK
  <2>3. UNCHANGED <<attempts[e], published[e], failedAt[e], failedBy[e], wake, clock>>
    BY <2>1, <2>2 DEF Publish, ClockInv, TypeOK, failures
  <2>4. wpc'[w] = wpc[w] \/ (wpc[w] # "sleeping" /\ wpc'[w] # "sleeping")
    BY DEF Publish, ClockInv, TypeOK
  <2> QED
    BY <2>3, <2>4 DEF ClockInv, Asleep
<1>2. CASE \E v \in Workers : Fail(v)
  <2> PICK v \in Workers : Fail(v)
    BY <1>2
  <2>1. clock' = clock /\ published[e] = None /\ clock \in Nat
    BY DEF Fail, ClockInv, TypeOK, Time
  <2>2. CASE e = cur[v]
    <3>1. /\ attempts[e] \in Nat /\ attempts'[e] = attempts[e] + 1
          /\ failedAt'[e] = clock /\ failedBy'[e] = v
          /\ wpc'[v] = "sleeping" /\ wake'[v] = clock + Delay(attempts[e])
      BY <2>2, FailLeaves
    <3>2. Delay(attempts[e]) \in Nat /\ attempts'[e] - 1 = attempts[e]
      BY <3>1, DelayIsCapped
    <3> QED
      BY <2>1, <3>1, <3>2
  <2>3. CASE e # cur[v]
    <3>1. UNCHANGED <<attempts[e], failedAt[e], failedBy[e], published[e]>>
      BY <2>1, <2>3, FailLeaves
    <3>2. CASE w # v
      <4>1. wpc'[w] = wpc[w] /\ wake'[w] = wake[w]
        BY <3>2 DEF Fail, ClockInv, TypeOK
      <4> QED
        BY <2>1, <3>1, <4>1 DEF ClockInv, Asleep
    <3>3. CASE w = v
      <4> DEFINE due == failedAt[e] + Delay(attempts[e] - 1)
      <4>1. wpc[w] = "locked" /\ wpc'[w] = "sleeping"
        BY <3>3 DEF Fail, ClockInv, TypeOK
      <4>2. clock >= due
        BY <2>1, <3>1, <4>1 DEF ClockInv, Asleep
      <4>3. wake'[w] = clock + Delay(attempts[cur[w]]) /\ Delay(attempts[cur[w]]) \in Nat
        BY <3>3, <4>1, AttemptTyped, DelayIsCapped DEF Fail, ClockInv, TypeOK
      <4>4. due \in Nat
        <5>1. attempts[e] \in Nat /\ attempts[e] - 1 \in Nat
          BY <3>1 DEF ClockInv, TypeOK
        <5>2. failedAt[e] \in Nat
          BY <2>1, <3>1 DEF ClockInv, Scheduled, Time
        <5> QED
          BY <5>1, <5>2, DelayIsCapped
      <4>5. wake'[w] >= due
        <5> HIDE DEF due
        <5> QED
          BY <2>1, <4>2, <4>3, <4>4
      <4> QED
        BY <3>1, <4>1, <4>5
    <3> QED
      BY <3>2, <3>3
  <2> QED
    BY <2>2, <2>3
<1>3. CASE ~(\E v \in Workers : Publish(v) \/ Fail(v))
  <2> DEFINE due == failedAt[e] + Delay(attempts[e] - 1)
  <2>1. UNCHANGED <<attempts, published, failedAt, wake>>
    BY <1>3, NothingIsRecorded
  <2>2. failedBy[e] = w
    BY <1>3, NothingIsRecorded
  <2>3. IF wpc[w] = "sleeping" THEN wake[w] >= due ELSE clock >= due
    BY <2>1, <2>2 DEF ClockInv, Asleep
  <2>4. due \in Nat
    <3>1. attempts[e] \in Nat /\ attempts[e] - 1 \in Nat
      BY <2>1 DEF ClockInv, TypeOK
    <3>2. failedAt[e] \in Nat
      BY <2>1 DEF ClockInv, Scheduled, Time
    <3> QED
      BY <3>1, <3>2, DelayIsCapped
  <2>5. clock \in Nat /\ clock' \in Nat /\ clock <= clock' /\ wake[w] \in Nat
    BY ClockTyped, NumbersAssumption DEF ClockInv, TypeOK, Time, Next, Tick, Stamp,
       Register, ReadClock, Claim, Publish, Fail, Wake, GiveUp, vars
  <2>6. \/ wpc[w] = "sleeping" /\ wpc'[w] = "sleeping"
        \/ wpc[w] # "sleeping" /\ wpc'[w] # "sleeping"
        \/ wpc[w] = "sleeping" /\ wake[w] <= clock
    <3>1. ASSUME NEW v \in Workers, GiveUp(v)
          PROVE  v # w \/ failedBy'[e] = None
      BY <2>2, <3>1 DEF GiveUp
    <3> QED
      BY <1>3, <3>1 DEF ClockInv, TypeOK, Next, Tick, Stamp, Register, ReadClock, Claim,
                        Wake, GiveUp, vars
  <2> HIDE DEF due
  <2>7. IF wpc'[w] = "sleeping" THEN wake[w] >= due ELSE clock' >= due
    BY <2>3, <2>4, <2>5, <2>6
  <2> QED
    BY <2>1, <2>7 DEF due
<1> QED
  BY <1>1, <1>2, <1>3

\* The invariant holds in every state.
LEMMA ClockInvariant == Spec => []ClockInv
<1>1. ClockInv /\ [Next]_vars => ClockInv'
  BY ClockTyped, ClockLocked, ClockRead, ClockUntried, ClockScheduled, ClockAsleep
     DEF ClockInv
<1> QED
  BY <1>1, ClockBegins, PTL DEF Spec

-----------------------------------------------------------------------------
(* Theorems *)

\* Every variable keeps its type: a retry is never scheduled later than the
\* longest delay after the clock, and no event is tried once too often.
THEOREM ClockTypes == Spec => []TypeOK
<1>1. ClockInv => TypeOK
  BY DEF ClockInv
<1> QED
  BY <1>1, ClockInvariant, PTL

\* A failed event is tried again by the process that failed it a whole delay after
\* the failure was recorded, by any other at most the time of the failed attempt
\* sooner, and never before all delays so far have passed since the reading of the
\* first attempt (process_batch, list_pending, record_failure).
THEOREM RetriesAreSpaced == Spec => AttemptsAreSpaced
<1> DEFINE Spaced(w, e) ==
      LET due  == failedAt[e] + Delay(attempts[e] - 1)
          took == failedAt[e] - lastTry[e]
      IN  /\ failedBy[e] = w => clock >= due
          /\ clock + took >= due
          /\ clock >= firstTry[e] + waited[e]
    AllSpaced ==
      \A w \in Workers, e \in Events :
        cur'[w] = e /\ cur[w] # e /\ attempts[e] > 0 => Spaced(w, e)
<1>1. ClockInv /\ [Next]_vars => [AllSpaced]_vars
  <2> SUFFICES ASSUME ClockInv, Next, NEW w \in Workers, NEW e \in Events,
                      cur'[w] = e, cur[w] # e, attempts[e] > 0
               PROVE  Spaced(w, e)
    OBVIOUS
  <2>1. Claim(w) /\ Eligible(e, now[w])
    <3>1. e # None
      BY NoneAssumption
    <3> QED
      BY <3>1 DEF Next, Tick, Stamp, Register, ReadClock, Claim, Publish, Fail,
                  Wake, GiveUp, ClockInv, TypeOK
  <2>2. /\ firstTry[e] \in Time /\ lastTry[e] \in Time /\ failedAt[e] \in Time
        /\ nextAttempt[e] = lastTry[e] + Delay(attempts[e] - 1)
        /\ nextAttempt[e] >= firstTry[e] + waited[e]
    BY <2>1 DEF ClockInv, Scheduled, Eligible
  <2>3. attempts[e] - 1 \in Nat
    BY DEF ClockInv, TypeOK
  <2>4. Delay(attempts[e] - 1) \in Nat
    BY <2>3, DelayIsCapped
  <2>5. nextAttempt[e] \in Nat /\ nextAttempt[e] # None
    BY <2>2, <2>4, NumbersAssumption, NoneAssumption DEF Time
  <2>6. nextAttempt[e] <= now[w]
    BY <2>1, <2>5 DEF Eligible
  <2>7. /\ now[w] \in Nat /\ clock \in Nat /\ now[w] <= clock
        /\ firstTry[e] \in Nat /\ lastTry[e] \in Nat /\ failedAt[e] \in Nat
        /\ waited[e] \in Nat
    BY <2>2 DEF ClockInv, TypeOK, Time, Read
  <2>8. failedBy[e] = w => clock >= failedAt[e] + Delay(attempts[e] - 1)
    <3>1. published[e] = None /\ wpc[w] # "sleeping"
      BY <2>1 DEF Claim, Eligible
    <3> QED
      BY <3>1 DEF ClockInv, Asleep
  <2>9. clock >= nextAttempt[e]
    BY <2>5, <2>6, <2>7
  <2>10. clock + (failedAt[e] - lastTry[e]) >= failedAt[e] + Delay(attempts[e] - 1)
    BY <2>2, <2>4, <2>7, <2>9
  <2>11. clock >= firstTry[e] + waited[e]
    BY <2>2, <2>5, <2>7, <2>9
  <2> QED
    BY <2>8, <2>10, <2>11
<1> QED
  BY <1>1, ClockInvariant, PTL DEF Spec, AttemptsAreSpaced

=============================================================================
