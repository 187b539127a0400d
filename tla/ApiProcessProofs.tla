-------------------------- MODULE ApiProcessProofs --------------------------
(***************************************************************************)
(* Proofs about the API process and its two components, ServiceProvider    *)
(* and TelemetryShutdown, for any number of requests, scrapes, callers and *)
(* failing constructions, any timeout and any clock.  Three parts:         *)
(*                                                                         *)
(* The service provider.  ProviderInv is inductive.  Exclusive says that   *)
(* whoever is inside the lock owns it, so the others' attributes do not    *)
(* change under it; Built says what a thread relies on at each place       *)
(* inside the lock; Accounted ties every resource ever made to the         *)
(* attribute that close() reads, to the one thread that is creating it, or *)
(* to a request that failed.  Distance is a request's variant.             *)
(*                                                                         *)
(* The telemetry's shutdown.  TelemetryInv says that the deadline is the   *)
(* first call's (OneDeadline), that at most one call is the first and that *)
(* it waits or has returned (OneFirst), and that only the first warns      *)
(* (WarnedByFirst).                                                        *)
(*                                                                         *)
(* Their composition.  Every step of the process is a step or a stutter of *)
(* each component, so each keeps what is proved of it alone; what only the *)
(* composition promises is SpansAreSettled.  SettledInv adds to the        *)
(* components' invariants where the lifespan's call of shutdown() can be   *)
(* at each stage of the process: the first caller has then returned        *)
(* whenever the process may end, and LossIsReportedOnce says the rest.     *)
(***************************************************************************)
EXTENDS ApiProcess, FiniteSetTheorems, TLAPS

-----------------------------------------------------------------------------
(* The service provider *)

Exclusive == \A r \in Users : pc[r] \in Inside => lock = r

Built ==
  /\ sessions => engine # None
  /\ engine # None /\ ~sessions => \E r \in Users : pc[r] = "factory"
  /\ ingest => sessions /\ storage # None
  /\ storage # None /\ ~ingest => \E r \in Posts : pc[r] = "build"
  /\ get => sessions
  /\ \A r \in Users :
       /\ pc[r] = "database" => engine = None
       /\ pc[r] = "factory" => engine # None
       /\ pc[r] \in {"database", "factory"} => ~sessions
       /\ pc[r] \in {"storage", "container", "build", "leaving"} => sessions
       /\ pc[r] \in {"storage", "container"} => r \in Posts /\ storage = None
       /\ pc[r] = "build" /\ r \in Posts => storage # None
       /\ pc[r] \in {"leaving", "served"} => IF r \in Posts THEN ingest ELSE get

Accounted ==
  /\ \A u \in Users : <<"engine", u>> \in made <=> engine = u
  /\ \A u \in Users : <<"engine", u>> \notin dropped
  /\ \A u \in Users : <<"storage", u>> \in made \ dropped
                        <=> storage = u \/ pc[u] = "container"
  /\ \A u \in Users : <<"storage", u>> \in made
                        => pc[u] \in {"container", "build", "leaving", "served", "503"}
  /\ \A u \in Users : pc[u] = "503" => storage # u
  /\ ~closed => shut = {}
  /\ closed => InFlight = {}
  /\ closed /\ ~raised => shut = made \ dropped

ProviderInv ==
  /\ TypeOK
  /\ Exclusive
  /\ Built
  /\ Accounted
  /\ \A r \in Scrapes : pc[r] = "served" => sessions

-----------------------------------------------------------------------------
(* Lemmas *)

\* None is not a request.
LEMMA NoneIsNoUser == None \notin Users
  BY RequestsAssumption DEF Users

\* The two kinds of resources of a request are resources, and there are no
\* others.
LEMMA ResourcesAreTwoKinds ==
  /\ \A u \in Users : <<"engine", u>> \in Resources /\ <<"storage", u>> \in Resources
  /\ \A m \in Resources : \E u \in Users : m = <<"engine", u>> \/ m = <<"storage", u>>
  BY DEF Resources

\* The initial states satisfy the invariant.
LEMMA ProviderInit == Init => ProviderInv
<1> SUFFICES ASSUME Init
             PROVE  ProviderInv
  OBVIOUS
<1>1. \A r \in Users \cup Scrapes : pc[r] = "new"
  BY DEF Init
<1>2. TypeOK
  <2>1. faults \in 0..MaxFaults
    BY FaultsAssumption DEF Init
  <2>2. pc \in [Users \cup Scrapes ->
                  Inside \cup {"new", "entering", "served", "503", "stale"}]
    BY DEF Init
  <2> QED
    BY <2>1, <2>2, Zenon DEF Init, TypeOK
<1>3. Exclusive /\ \A r \in Scrapes : pc[r] # "served"
  BY <1>1 DEF Exclusive, Inside
<1>4. Built
  BY <1>1 DEF Init, Built
<1>5. Accounted
  BY <1>1, NoneIsNoUser DEF Init, Accounted
<1> QED
  BY <1>2, <1>3, <1>4, <1>5 DEF ProviderInv


\* Every step keeps the variables typed.
LEMMA ProviderTyped ==
  ASSUME ProviderInv, [Next]_vars
  PROVE  TypeOK'
<1> USE FaultsAssumption, RequestsAssumption DEF ProviderInv, TypeOK, Inside, Goto
<1>1. CASE UNCHANGED vars
  BY <1>1 DEF vars, resources, ending
<1>2. ASSUME NEW r \in Users, Step(r)
      PROVE  TypeOK'
  <2>1. r \in Users \cup Scrapes /\ <<"engine", r>> \in Resources
                                  /\ <<"storage", r>> \in Resources
    BY DEF Resources
  <2>2. CASE Enter(r)
    BY <2>1, <2>2 DEF Enter, resources, ending
  <2>3. CASE CreateEngine(r)
    BY <2>1, <2>3 DEF CreateEngine, Exclusive, ending
  <2>4. CASE CreateFactory(r)
    BY <2>1, <2>4 DEF CreateFactory, Exclusive, resources, ending
  <2>5. CASE CreateStorage(r)
    BY <2>1, <2>5 DEF CreateStorage, Exclusive, ending
  <2>6. CASE EnsureContainer(r)
    BY <2>1, <2>6 DEF EnsureContainer, Exclusive, resources, ending
  <2>7. CASE Build(r)
    BY <2>1, <2>7 DEF Build, Exclusive, resources, ending
  <2>8. CASE LeaveLock(r)
    BY <2>1, <2>8 DEF LeaveLock, Exclusive, resources, ending
  <2> QED
    BY <1>2, <2>2, <2>3, <2>4, <2>5, <2>6, <2>7, <2>8 DEF Step
<1>3. ASSUME NEW r \in Users, Fail(r)
      PROVE  TypeOK'
  BY <1>3 DEF Fail, Forget, ending
<1>4. ASSUME NEW r \in Users \cup Scrapes, Arrive(r)
      PROVE  TypeOK'
  BY <1>4 DEF Arrive, resources, ending
<1>5. ASSUME NEW r \in Scrapes, Scrape(r)
      PROVE  TypeOK'
  BY <1>5 DEF Scrape, resources, ending, Users
<1>6. ASSUME NEW failing \in BOOLEAN, Close(failing)
      PROVE  TypeOK'
  <2>1. shut' \subseteq made
    <3>1. \A u \in Users : <<"storage", u>> \in made \ dropped
                             <=> storage = u \/ pc[u] = "container"
      BY DEF Accounted
    <3>2. {<<"engine", engine>>} \cap Resources \subseteq made
      BY NoneIsNoUser DEF Accounted, Resources
    <3>3. {<<"storage", storage>>} \cap Resources \subseteq made
      BY <3>1, NoneIsNoUser DEF Resources
    <3> QED
      BY <1>6, <3>2, <3>3 DEF Close, Dispose
  <2>2. faults' \in 0..MaxFaults
    BY <1>6 DEF Close
  <2> QED
    BY <1>6, <2>1, <2>2 DEF Close
<1> QED
  BY <1>1, <1>2, <1>3, <1>4, <1>5, <1>6 DEF Next, Serve

\* Only the owner of the lock moves inside it, and it leaves when it gives it up.
LEMMA ProviderExclusive ==
  ASSUME ProviderInv, [Next]_vars
  PROVE  Exclusive'
<1> USE NoneIsNoUser, RequestsAssumption DEF ProviderInv, TypeOK, Exclusive, Inside, Goto
<1>1. CASE UNCHANGED vars
  BY <1>1 DEF vars, resources, ending
<1>2. ASSUME NEW r \in Users, Step(r)
      PROVE  Exclusive'
  BY <1>2 DEF Step, Enter, CreateEngine, CreateFactory, CreateStorage,
              EnsureContainer, Build, LeaveLock
<1>3. ASSUME NEW r \in Users, Fail(r)
      PROVE  Exclusive'
  BY <1>3 DEF Fail
<1>4. ASSUME NEW r \in Users \cup Scrapes, Arrive(r)
      PROVE  Exclusive'
  BY <1>4 DEF Arrive
<1>5. ASSUME NEW r \in Scrapes, Scrape(r)
      PROVE  Exclusive'
  BY <1>5 DEF Scrape
<1>6. ASSUME NEW failing \in BOOLEAN, Close(failing)
      PROVE  Exclusive'
  BY <1>6 DEF Close
<1> QED
  BY <1>1, <1>2, <1>3, <1>4, <1>5, <1>6 DEF Next, Serve

\* What a thread relies on inside the lock is not changed by the others.
LEMMA ProviderBuilt ==
  ASSUME ProviderInv, [Next]_vars
  PROVE  Built' /\ \A r \in Scrapes : pc'[r] = "served" => sessions'
<1> DEFINE Goal == Built' /\ \A r \in Scrapes : pc'[r] = "served" => sessions'
<1>0. /\ Posts \subseteq Users /\ Gets \subseteq Users
      /\ \A r \in Users : r \notin Scrapes /\ (r \notin Posts => r \in Gets)
      /\ \A r \in Users : r \in Gets => r \notin Posts
      /\ \A r \in Users, q \in Users :
           pc[r] \in Inside /\ pc[q] \in Inside => r = q
  BY RequestsAssumption DEF ProviderInv, Exclusive, Users
<1> USE <1>0, NoneIsNoUser DEF ProviderInv, TypeOK, Built, Inside, Goto
<1>1. CASE UNCHANGED vars
  BY <1>1 DEF vars, resources, ending
<1>2. ASSUME NEW r \in Users, Step(r)
      PROVE  Goal
  <2>2. CASE Enter(r)
    BY <2>2 DEF Enter, Exclusive
  <2>3. CASE CreateEngine(r)
    BY <2>3 DEF CreateEngine
  <2>4. CASE CreateFactory(r)
    BY <2>4 DEF CreateFactory
  <2>5. CASE CreateStorage(r)
    BY <2>5 DEF CreateStorage
  <2>6. CASE EnsureContainer(r)
    BY <2>6 DEF EnsureContainer
  <2>7. CASE Build(r)
    BY <2>7 DEF Build
  <2>8. CASE LeaveLock(r)
    BY <2>8 DEF LeaveLock
  <2> QED
    BY <1>2, <2>2, <2>3, <2>4, <2>5, <2>6, <2>7, <2>8 DEF Step
<1>3. ASSUME NEW r \in Users, Fail(r)
      PROVE  Goal
  BY <1>3 DEF Fail
<1>4. ASSUME NEW r \in Users \cup Scrapes, Arrive(r)
      PROVE  Goal
  BY <1>4 DEF Arrive
<1>5. ASSUME NEW r \in Scrapes, Scrape(r)
      PROVE  Goal
  BY <1>5 DEF Scrape, ReadsDatabase
<1>6. ASSUME NEW failing \in BOOLEAN, Close(failing)
      PROVE  Goal
  BY <1>6 DEF Close
<1> QED
  BY <1>1, <1>2, <1>3, <1>4, <1>5, <1>6 DEF Next, Serve

\* Each step accounts for the resource it makes, holds or forgets.
LEMMA ProviderAccounted ==
  ASSUME ProviderInv, [Next]_vars
  PROVE  Accounted'
<1>0. /\ Posts \subseteq Users
      /\ \A r \in Users : r \notin Scrapes
      /\ \A r \in Users, q \in Users :
           pc[r] \in Inside /\ pc[q] \in Inside => r = q
  BY RequestsAssumption DEF ProviderInv, Exclusive, Users
<1>a. /\ closed => \A r \in Users : pc[r] \in {"new", "served", "503", "stale"}
      /\ closed => \A r \in Scrapes : pc[r] # "entering"
  BY DEF ProviderInv, Accounted, InFlight
<1> USE <1>0, NoneIsNoUser DEF ProviderInv, TypeOK, Accounted, Inside, Goto
<1>1. CASE UNCHANGED vars
  BY <1>1 DEF vars, resources, ending, InFlight
<1>2. ASSUME NEW r \in Users, Step(r)
      PROVE  Accounted'
  <2>1. ~closed /\ ~closed'
    BY <1>a, <1>2 DEF Step, Enter, CreateEngine, CreateFactory, CreateStorage,
                      EnsureContainer, Build, LeaveLock, ending, resources
  <2> USE <2>1
  <2>2. CASE Enter(r)
    BY <2>2 DEF Enter, resources
  <2>3. CASE CreateEngine(r)
    BY <2>3 DEF CreateEngine, Built
  <2>4. CASE CreateFactory(r)
    BY <2>4 DEF CreateFactory, resources
  <2>5. CASE CreateStorage(r)
    BY <2>5 DEF CreateStorage, Built
  <2>6. CASE EnsureContainer(r)
    BY <2>6 DEF EnsureContainer, resources, Built
  <2>7. CASE Build(r)
    BY <2>7 DEF Build, resources
  <2>8. CASE LeaveLock(r)
    BY <2>8 DEF LeaveLock, resources
  <2> QED
    BY <1>2, <2>2, <2>3, <2>4, <2>5, <2>6, <2>7, <2>8 DEF Step
<1>3. ASSUME NEW r \in Users, Fail(r)
      PROVE  Accounted'
  BY <1>a, <1>3 DEF Fail, Forget, ending, Built
<1>4. ASSUME NEW r \in Users \cup Scrapes, Arrive(r)
      PROVE  Accounted'
  BY <1>4 DEF Arrive, resources, ending
<1>5. ASSUME NEW r \in Scrapes, Scrape(r)
      PROVE  Accounted'
  BY <1>a, <1>5 DEF Scrape, resources, ending
<1>6. ASSUME NEW failing \in BOOLEAN, Close(failing)
      PROVE  Accounted'
  <2>1. InFlight' = {}
    BY <1>6 DEF Close, InFlight
  <2>2. closed' /\ raised' = failing
        /\ UNCHANGED <<pc, engine, storage, made, dropped>>
    BY <1>6 DEF Close
  <2>3. ~failing => shut' = made \ dropped
    <3> SUFFICES ASSUME ~failing
                 PROVE  shut' = made \ dropped
      OBVIOUS
    <3>1. shut = {}
      BY <1>6 DEF Close
    <3>2. shut' = ({<<"engine", engine>>} \cap Resources)
                    \cup ({<<"storage", storage>>} \cap Resources)
      BY <1>6, <3>1 DEF Close, Dispose
    <3> QED
      BY <1>6, <3>2, ResourcesAreTwoKinds DEF Close, InFlight, Resources
  <2> QED
    BY <2>1, <2>2, <2>3
<1> QED
  BY <1>1, <1>2, <1>3, <1>4, <1>5, <1>6 DEF Next, Serve

\* The invariant is inductive.
LEMMA ProviderStep == ProviderInv /\ [Next]_vars => ProviderInv'
  BY ProviderTyped, ProviderExclusive, ProviderBuilt, ProviderAccounted
  DEF ProviderInv

\* What is accounted for is one engine and one client.
LEMMA ProviderInvImplies == ProviderInv => ServedIsComplete /\ NothingEscapesClose
<1> SUFFICES ASSUME ProviderInv
             PROVE  ServedIsComplete /\ NothingEscapesClose
  OBVIOUS
<1>1. ServedIsComplete
  BY RequestsAssumption
  DEF ProviderInv, TypeOK, Built, ServedIsComplete, Users
<1>2. \A u \in Users, v \in Users :
        pc[u] = "container" => storage # v /\ (pc[v] = "container" => u = v)
  BY NoneIsNoUser DEF ProviderInv, Built, Exclusive, Inside
<1>3. ASSUME NEW kind \in {"engine", "storage"}
      PROVE  Cardinality({m \in made \ dropped : m[1] = kind}) <= 1
  <2> DEFINE Kept == {m \in made \ dropped : m[1] = kind}
  <2>1. \A m \in Kept : \E u \in Users : m = <<kind, u>>
    BY DEF ProviderInv, TypeOK, Resources
  <2>2. \A m \in Kept, n \in Kept : m = n
    BY <1>2, <2>1 DEF ProviderInv, Accounted
  <2>3. CASE Kept = {}
    BY <2>3, FS_EmptySet
  <2>4. ASSUME NEW m \in Kept
        PROVE  Cardinality(Kept) <= 1
    <3>1. Kept = {m}
      BY <2>2, <2>4
    <3>2. Cardinality({m}) = 1
      BY FS_Singleton
    <3> HIDE DEF Kept
    <3> QED
      BY <3>1, <3>2
  <2> QED
    BY <2>3, <2>4
<1> QED
  BY <1>1, <1>3 DEF NothingEscapesClose, ProviderInv, Accounted

-----------------------------------------------------------------------------
(* Progress of the requests *)

\* How far a request is from its end.
Distance(r) ==
  CASE pc[r] = "new"       -> 8
    [] pc[r] = "entering"  -> 7
    [] pc[r] = "database"  -> 6
    [] pc[r] = "factory"   -> 5
    [] pc[r] = "storage"   -> 4
    [] pc[r] = "container" -> 3
    [] pc[r] = "build"     -> 2
    [] pc[r] = "leaving"   -> 1
    [] OTHER               -> 0

\* One request moves, to a place nearer to its end, and no other one does.
OneGetsOn ==
  \E r \in Users \cup Scrapes :
    /\ Distance(r)' < Distance(r)
    /\ \A q \in (Users \cup Scrapes) \ {r} : pc'[q] = pc[q]

\* Wherever a step sends its request, that is nearer than where it was.
LEMMA ServingGetsOn ==
  ASSUME ProviderInv, Serve
  PROVE  OneGetsOn
<1>1. pc \in [Users \cup Scrapes ->
                Inside \cup {"new", "entering", "served", "503", "stale"}]
  BY DEF ProviderInv, TypeOK
<1>2. ASSUME NEW r \in Users \cup Scrapes,
             pc' = [pc EXCEPT ![r] = pc'[r]], Distance(r)' < Distance(r)
      PROVE  OneGetsOn
  BY <1>1, <1>2 DEF OneGetsOn
<1>3. ASSUME NEW r \in Users, Step(r) \/ Fail(r)
      PROVE  OneGetsOn
  <2>1. CASE Enter(r)
    <3>1. pc' = [pc EXCEPT ![r] = pc'[r]] /\ Distance(r)' < Distance(r)
      BY <1>1, <2>1 DEF Enter, Goto, Distance
    <3> QED
      BY <1>2, <3>1
  <2>2. CASE CreateEngine(r) \/ CreateFactory(r)
    BY <1>1, <1>2, <1>3, <2>2 DEF CreateEngine, CreateFactory, Goto, Distance
  <2>3. CASE CreateStorage(r) \/ EnsureContainer(r)
    BY <1>1, <1>2, <1>3, <2>3 DEF CreateStorage, EnsureContainer, Goto, Distance
  <2>4. CASE Build(r) \/ LeaveLock(r)
    BY <1>1, <1>2, <1>3, <2>4 DEF Build, LeaveLock, Goto, Distance
  <2>5. CASE Fail(r)
    <3>1. pc' = [pc EXCEPT ![r] = pc'[r]] /\ Distance(r)' < Distance(r)
      BY <1>1, <2>5 DEF Fail, Goto, Distance
    <3> QED
      BY <1>2, <3>1
  <2> QED
    BY <1>3, <2>1, <2>2, <2>3, <2>4, <2>5 DEF Step
<1>4. ASSUME NEW r \in Users \cup Scrapes, Arrive(r)
      PROVE  OneGetsOn
  <2>1. pc[r] = "new" /\ pc' = [pc EXCEPT ![r] = "entering"]
    BY <1>4 DEF Arrive, Goto
  <2>2. pc'[r] = "entering" /\ pc' = [pc EXCEPT ![r] = pc'[r]]
    BY <1>1, <2>1
  <2>3. Distance(r)' < Distance(r)
    BY <2>1, <2>2 DEF Distance
  <2> QED
    BY <1>2, <2>2, <2>3
<1>5. ASSUME NEW r \in Scrapes, Scrape(r)
      PROVE  OneGetsOn
  <2>1. pc' = [pc EXCEPT ![r] = pc'[r]] /\ Distance(r)' < Distance(r)
    BY <1>1, <1>5 DEF Scrape, Goto, Distance
  <2> QED
    BY <1>2, <1>5, <2>1
<1> QED
  BY <1>3, <1>4, <1>5 DEF Serve

-----------------------------------------------------------------------------
(* Theorems *)

\* Every variable of the provider, its threads' program counters and the
\* resources it ever made stay within their types, for any number of requests
\* and failing constructions.
THEOREM ProviderTypes == Spec => []TypeOK
<1>1. ProviderInv => TypeOK
  BY DEF ProviderInv
<1> QED
  BY <1>1, ProviderInit, ProviderStep, PTL DEF Spec

\* Whoever is served finds what its use case needs, however the threads that
\* create it interleave and whichever constructions fail: the lock, and the
\* attribute tested inside it, suffice (ApplicationServiceProvider).
THEOREM ServedAreComplete == Spec => []ServedIsComplete
  BY ProviderInit, ProviderStep, ProviderInvImplies, PTL DEF Spec

\* One engine and one storage client at most are ever in use, and a close()
\* that returns has disposed of everything but the clients whose container was
\* refused (ApplicationServiceProvider.close).
THEOREM ProviderClosesAll == Spec => []NothingEscapesClose
  BY ProviderInit, ProviderStep, ProviderInvImplies, PTL DEF Spec

\* Every step that serves brings exactly one request nearer to its answer, a
\* failed construction too, and close() moves none: no request runs for ever
\* and none is taken back, and whoever keeps the others from the lock is itself
\* on its way out of it (ApplicationServiceProvider).
THEOREM RequestsGetOn ==
  Spec => /\ [](lock # None => pc[lock] \in Inside)
          /\ [][OneGetsOn \/ pc' = pc]_vars
<1>1. ProviderInv => (lock # None => pc[lock] \in Inside)
  BY DEF ProviderInv, TypeOK
<1>2. ProviderInv /\ [Next]_vars => [OneGetsOn \/ pc' = pc]_vars
  BY ServingGetsOn DEF Next, Close
<1> QED
  BY <1>1, <1>2, ProviderInit, ProviderStep, PTL DEF Spec

-----------------------------------------------------------------------------
(* The telemetry's shutdown *)

OneDeadline ==
  /\ deadline = Unset <=> opened = Unset
  /\ deadline # Unset => deadline = opened + Timeout
  /\ deadline = Unset => clock <= MaxTime
  /\ registered <=> deadline = Unset
  /\ \A c \in Callers : call[c] \in {"waiting", "returned"} => deadline # Unset

OneFirst ==
  /\ \A c \in Callers, d \in Callers : first[c] /\ first[d] => c = d
  /\ deadline # Unset <=> \E c \in Callers : first[c]
  /\ \A c \in Callers : first[c] => call[c] \in {"waiting", "returned"}

WarnedByFirst == \A c \in warned : first[c]

TelemetryInv ==
  /\ TelemetryTypeOK
  /\ OneDeadline
  /\ OneFirst
  /\ WarnedByFirst
  /\ DeadlineIsShared
  /\ LossIsReportedOnce

-----------------------------------------------------------------------------
(* Lemmas *)

\* Times are natural numbers, and Unset is none of them.
LEMMA TimesAreNumbers ==
  /\ MaxTime \in Nat /\ Timeout \in Nat
  /\ \A t \in Times : t \in Nat /\ t <= MaxTime + Timeout /\ t # Unset
  /\ \A t \in Nat : t <= MaxTime + Timeout => t \in Times
  BY CallersAssumption, TimesAssumption DEF Times

\* The initial states satisfy the invariant.
LEMMA TelemetryBegins == TelemetryInit => TelemetryInv
<1> SUFFICES ASSUME TelemetryInit
             PROVE  TelemetryInv
  OBVIOUS
<1>1. 0 \in Times
  BY TimesAreNumbers
<1>2. TelemetryTypeOK
  BY <1>1, Zenon DEF TelemetryInit, TelemetryTypeOK
<1>3. OneDeadline /\ OneFirst /\ WarnedByFirst /\ DeadlineIsShared /\ LossIsReportedOnce
  BY TimesAreNumbers
  DEF TelemetryInit, OneDeadline, OneFirst, WarnedByFirst, DeadlineIsShared,
      LossIsReportedOnce
<1> QED
  BY <1>2, <1>3 DEF TelemetryInv

\* Every step keeps the variables typed.
LEMMA TelemetryTyped ==
  ASSUME TelemetryInv, [TelemetryNext]_telemetryVars
  PROVE  TelemetryTypeOK'
<1> USE TimesAreNumbers DEF TelemetryInv, TelemetryTypeOK
<1>1. CASE UNCHANGED telemetryVars
  BY <1>1 DEF telemetryVars
<1>2. ASSUME NEW c \in Callers, Call(c)
      PROVE  TelemetryTypeOK'
  BY <1>2 DEF Call
<1>3. ASSUME NEW c \in Callers, Acquire(c)
      PROVE  TelemetryTypeOK'
  BY <1>3 DEF Acquire
<1>4. ASSUME NEW c \in Callers, Critical(c)
      PROVE  TelemetryTypeOK'
  <2>1. deadline = Unset => clock + Timeout \in Times
    BY DEF OneDeadline
  <2>2. deadline' \in Times
    BY <1>4, <2>1 DEF Critical, Arm
  <2>3. first' \in [Callers -> BOOLEAN] /\ registered' \in BOOLEAN /\ requested' \in BOOLEAN
    BY <1>4 DEF Critical, Arm
  <2> QED
    BY <1>4, <2>2, <2>3 DEF Critical
<1>5. ASSUME NEW c \in Callers, Return(c)
      PROVE  TelemetryTypeOK'
  BY <1>5 DEF Return
<1>6. CASE Drain \/ Drained
  BY <1>6 DEF Drain, Drained
<1>7. CASE Tick
  <2>1. clock + 1 \in Times
    BY <1>7 DEF Tick
  <2> QED
    BY <1>7, <2>1 DEF Tick
<1> QED
  BY <1>1, <1>2, <1>3, <1>4, <1>5, <1>6, <1>7
  DEF TelemetryNext, TelemetryStep, CallerStep

\* The critical section is the only step that sets a deadline or a first call.
LEMMA TelemetryFirst ==
  ASSUME TelemetryInv, [TelemetryNext]_telemetryVars
  PROVE  OneDeadline' /\ OneFirst' /\ WarnedByFirst'
<1> DEFINE Goal == OneDeadline' /\ OneFirst' /\ WarnedByFirst'
<1> USE TimesAreNumbers
    DEF TelemetryInv, TelemetryTypeOK, OneDeadline, OneFirst, WarnedByFirst
<1>1. CASE UNCHANGED telemetryVars
  BY <1>1 DEF telemetryVars
<1>2. ASSUME NEW c \in Callers, Call(c)
      PROVE  Goal
  BY <1>2 DEF Call
<1>3. ASSUME NEW c \in Callers, Acquire(c)
      PROVE  Goal
  BY <1>3 DEF Acquire
<1>4. ASSUME NEW c \in Callers, Critical(c)
      PROVE  Goal
  <2>1. CASE deadline = Unset
    BY <1>4, <2>1 DEF Critical, Arm
  <2>2. CASE deadline # Unset
    BY <1>4, <2>2 DEF Critical, Arm
  <2> QED
    BY <2>1, <2>2
<1>5. ASSUME NEW c \in Callers, Return(c)
      PROVE  Goal
  BY <1>5 DEF Return, Warns
<1>6. CASE Drain \/ Drained
  BY <1>6 DEF Drain, Drained
<1>7. CASE Tick
  BY <1>7 DEF Tick
<1> QED
  BY <1>1, <1>2, <1>3, <1>4, <1>5, <1>6, <1>7
  DEF TelemetryNext, TelemetryStep, CallerStep

\* A wait that is over returns before the clock moves on, so no wait outlasts
\* the deadline.
LEMMA TelemetryDeadline ==
  ASSUME TelemetryInv, [TelemetryNext]_telemetryVars
  PROVE  DeadlineIsShared'
<1> USE TimesAreNumbers DEF TelemetryInv, TelemetryTypeOK, OneDeadline, DeadlineIsShared
<1>1. CASE UNCHANGED telemetryVars
  BY <1>1 DEF telemetryVars
<1>2. ASSUME NEW c \in Callers, Call(c)
      PROVE  DeadlineIsShared'
  BY <1>2 DEF Call
<1>3. ASSUME NEW c \in Callers, Acquire(c)
      PROVE  DeadlineIsShared'
  BY <1>3 DEF Acquire
<1>4. ASSUME NEW c \in Callers, Critical(c)
      PROVE  DeadlineIsShared'
  <2>1. CASE deadline = Unset
    BY <1>4, <2>1 DEF Critical, Arm
  <2>2. CASE deadline # Unset
    BY <1>4, <2>2 DEF Critical, Arm
  <2> QED
    BY <2>1, <2>2
<1>5. ASSUME NEW c \in Callers, Return(c)
      PROVE  DeadlineIsShared'
  BY <1>5 DEF Return
<1>6. CASE Drain \/ Drained
  BY <1>6 DEF Drain, Drained
<1>7. CASE Tick
  BY <1>7 DEF Tick
<1> QED
  BY <1>1, <1>2, <1>3, <1>4, <1>5, <1>6, <1>7
  DEF TelemetryNext, TelemetryStep, CallerStep

\* Returning is what warns, and the drain never becomes unfinished.
LEMMA TelemetryWarns ==
  ASSUME TelemetryInv, [TelemetryNext]_telemetryVars
  PROVE  LossIsReportedOnce'
<1> USE DEF TelemetryInv, TelemetryTypeOK, OneFirst, WarnedByFirst, LossIsReportedOnce
<1>1. CASE UNCHANGED telemetryVars
  BY <1>1 DEF telemetryVars
<1>2. ASSUME NEW c \in Callers, Call(c)
      PROVE  LossIsReportedOnce'
  BY <1>2 DEF Call
<1>3. ASSUME NEW c \in Callers, Acquire(c)
      PROVE  LossIsReportedOnce'
  BY <1>3 DEF Acquire
<1>4. ASSUME NEW c \in Callers, Critical(c)
      PROVE  LossIsReportedOnce'
  BY <1>4 DEF Critical, Arm
<1>5. ASSUME NEW c \in Callers, Return(c)
      PROVE  LossIsReportedOnce'
  BY <1>5 DEF Return, Warns
<1>6. CASE Drain \/ Drained
  BY <1>6 DEF Drain, Drained
<1>7. CASE Tick
  BY <1>7 DEF Tick
<1> QED
  BY <1>1, <1>2, <1>3, <1>4, <1>5, <1>6, <1>7
  DEF TelemetryNext, TelemetryStep, CallerStep

\* The invariant is inductive.
LEMMA TelemetryInductive ==
  TelemetryInv /\ [TelemetryNext]_telemetryVars => TelemetryInv'
  BY TelemetryTyped, TelemetryFirst, TelemetryDeadline, TelemetryWarns DEF TelemetryInv

-----------------------------------------------------------------------------
(* Theorems *)

\* The clock, the deadlines and the waits stay within the bound that the
\* timeout puts on them, whatever the callers do.
THEOREM TelemetryTypes == TelemetrySpec => []TelemetryTypeOK
<1>1. TelemetryInv => TelemetryTypeOK
  BY DEF TelemetryInv
<1> QED
  BY <1>1, TelemetryBegins, TelemetryInductive, PTL DEF TelemetrySpec

\* No call waits past the deadline that the first one set, for any number of
\* callers (_BoundedTracerProvider.shutdown).
THEOREM TelemetryDeadlineIsShared == TelemetrySpec => []DeadlineIsShared
<1>1. TelemetryInv => DeadlineIsShared
  BY DEF TelemetryInv
<1> QED
  BY <1>1, TelemetryBegins, TelemetryInductive, PTL DEF TelemetrySpec

\* When the first call has returned, either the drain is complete or exactly
\* that call has said that spans may be lost (_BoundedTracerProvider.shutdown).
THEOREM TelemetryLossIsReported == TelemetrySpec => []LossIsReportedOnce
<1>1. TelemetryInv => LossIsReportedOnce
  BY DEF TelemetryInv
<1> QED
  BY <1>1, TelemetryBegins, TelemetryInductive, PTL DEF TelemetrySpec

-----------------------------------------------------------------------------
(* The process *)

\* What the interpreter finds when it ends.
SettledInv ==
  /\ TelemetryInv
  /\ stage \in {"running", "closed", "exiting", "ended"}
  /\ stage = "running" => \A c \in Callers : call[c] = "idle"
  /\ stage = "exiting" => call[Lifespan] \in {"idle", "returned"}
  /\ SpansAreSettled

-----------------------------------------------------------------------------
(* Lemmas *)

\* The initial states of the process are initial states of its components.
LEMMA ProcessBegins == ProcessInit => Init /\ TelemetryInit /\ SettledInv
  BY TelemetryBegins
  DEF ProcessInit, SettledInv, TelemetryInit, SpansAreSettled

\* A step of the process is a step of the provider, or leaves it alone.
LEMMA ProcessStepsProvider == [ProcessNext]_processVars => [Next]_vars
  BY DEF ProcessNext, processVars, Running, CloseProvider, CallShutdown, Leave,
         OtherShutdown, AtExitCallback, End, Ending, Next

\* A step of the process is a step of the tracer provider, or leaves it alone.
LEMMA ProcessStepsTelemetry == [ProcessNext]_processVars => [TelemetryNext]_telemetryVars
<1> SUFFICES ASSUME [ProcessNext]_processVars
             PROVE  [TelemetryNext]_telemetryVars
  OBVIOUS
<1> USE LifespanAssumption, CallersAssumption
<1>1. CASE Running \/ CloseProvider \/ Leave \/ End \/ UNCHANGED processVars
  BY <1>1 DEF Running, CloseProvider, Leave, End, processVars
<1>2. CASE CallShutdown \/ OtherShutdown \/ AtExitCallback
  BY <1>2 DEF CallShutdown, OtherShutdown, AtExitCallback, TelemetryNext, Others
<1>3. CASE Ending(TelemetryStep)
  BY <1>3 DEF Ending, TelemetryNext
<1> QED
  BY <1>1, <1>2, <1>3 DEF ProcessNext

\* When the process may end, the first call of shutdown() has returned.
LEMMA FirstHasReturned ==
  ASSUME SettledInv, End
  PROVE  finished \/ warned # {}
<1>1. PICK c \in Callers : first[c]
  BY DEF SettledInv, TelemetryInv, TelemetryTypeOK, OneDeadline, OneFirst, End
<1>2. call[c] \in {"waiting", "returned"}
  BY <1>1 DEF SettledInv, TelemetryInv, OneFirst
<1>3. call[c] = "returned"
  BY <1>2, LifespanAssumption DEF SettledInv, End, Joined, Others
<1> QED
  BY <1>1, <1>3 DEF SettledInv, TelemetryInv, LossIsReportedOnce

\* The invariant of the composition is inductive.
LEMMA SettledInductive == SettledInv /\ [ProcessNext]_processVars => SettledInv'
<1> SUFFICES ASSUME SettledInv, [ProcessNext]_processVars
             PROVE  SettledInv'
  OBVIOUS
<1>1. TelemetryInv'
  BY ProcessStepsTelemetry, TelemetryInductive DEF SettledInv
<1> USE <1>1, LifespanAssumption, CallersAssumption
    DEF SettledInv, SpansAreSettled
<1>2. CASE Running \/ CloseProvider \/ UNCHANGED processVars
  BY <1>2 DEF Running, CloseProvider, processVars, telemetryVars
<1>3. CASE CallShutdown \/ OtherShutdown \/ AtExitCallback
  BY <1>3
  DEF CallShutdown, OtherShutdown, AtExitCallback, Call, Others, TelemetryInv, TelemetryTypeOK
<1>4. CASE Leave
  BY <1>4 DEF Leave, telemetryVars
<1>5. CASE End
  BY <1>5, FirstHasReturned DEF End, telemetryVars
<1>6. CASE Ending(TelemetryStep)
  BY <1>6 DEF Ending, TelemetryStep, CallerStep, Acquire, Critical, Return, Drain,
              Drained, Tick, TelemetryInv, TelemetryTypeOK
<1> QED
  BY <1>2, <1>3, <1>4, <1>5, <1>6 DEF ProcessNext

-----------------------------------------------------------------------------
(* Theorems *)

\* The process runs its service provider as ServiceProvider says, so that
\* everything proved of the provider holds in the process.
THEOREM ProcessImplementsProvider == ProcessSpec => Spec
  BY ProcessBegins, ProcessStepsProvider, PTL DEF ProcessSpec, Spec

\* It runs its tracer provider as TelemetryShutdown says.
THEOREM ProcessImplementsTelemetry == ProcessSpec => TelemetrySpec
  BY ProcessBegins, ProcessStepsTelemetry, PTL DEF ProcessSpec, TelemetrySpec

\* A process that has ended by itself has drained its spans or said that they
\* may be lost, for any number of callers of shutdown() and whatever close()
\* raised before the lifespan was to call it (api/app.py, lifespan).
THEOREM ProcessSettlesSpans == ProcessSpec => []SpansAreSettled
<1>1. SettledInv => SpansAreSettled
  BY DEF SettledInv
<1> QED
  BY <1>1, ProcessBegins, SettledInductive, PTL DEF ProcessSpec

\* In the process, too, whoever is served finds what its use case needs and
\* close() disposes of everything in use.
THEOREM ProcessServes == ProcessSpec => [](ServedIsComplete /\ NothingEscapesClose)
<1>1. ProcessSpec => Spec
  BY ProcessImplementsProvider
<1> QED
  BY <1>1, ServedAreComplete, ProviderClosesAll, PTL

=============================================================================
