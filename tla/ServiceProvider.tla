--------------------------- MODULE ServiceProvider --------------------------
(***************************************************************************)
(* ApplicationServiceProvider: the threads that serve requests create the  *)
(* database engine, the storage client and the use cases on first use,     *)
(* under one lock, while /metrics reads the session factory without it.    *)
(* Creating the storage client or the engine may fail and be tried again   *)
(* by the next request; close() runs when the application has drained.     *)
(***************************************************************************)
EXTENDS Naturals, FiniteSets

CONSTANTS
  Posts,      \* requests that need ingest_document()
  Gets,       \* requests that need get_document()
  Scrapes,    \* requests to /metrics
  MaxFaults,  \* bound on failing constructions
  None

ASSUME RequestsAssumption ==
  /\ Posts \cap Gets = {} /\ Scrapes \cap (Posts \cup Gets) = {}
  /\ None \notin Posts \cup Gets
ASSUME FaultsAssumption == MaxFaults \in Nat

VARIABLES
  pc,
  lock,
  engine,      \* _engine is set, in a step before ...
  sessions,    \* ... _session_factory is
  storage,     \* _storage is set, in a step before ...
  ingest,      \* ... _ingest_document is
  get,         \* _get_document is set
  made,        \* auxiliary: resources created, as <<kind, request>>
  dropped,     \* auxiliary: clients nothing refers to any more
  shut,        \* auxiliary: resources disposed of
  closed,      \* close() has returned or
  raised,      \* raised
  faults

resources == <<made, dropped, shut>>
ending == <<closed, raised>>
vars == <<pc, lock, engine, sessions, storage, ingest, get, resources, ending,
          faults>>

Users == Posts \cup Gets
Resources == {"engine", "storage"} \X Users

\* Where a request holds the lock.
Inside == {"database", "factory", "storage", "container", "build", "leaving"}

TypeOK ==
  /\ pc \in [Users \cup Scrapes ->
               Inside \cup {"new", "entering", "served", "503", "stale"}]
  /\ lock \in {r \in Users : pc[r] \in Inside} \cup {None}
  /\ sessions \in BOOLEAN /\ ingest \in BOOLEAN /\ get \in BOOLEAN
  /\ engine \in Users \cup {None} /\ storage \in Users \cup {None}
  /\ made \subseteq Resources /\ dropped \subseteq made /\ shut \subseteq made
  /\ closed \in BOOLEAN /\ raised \in BOOLEAN /\ faults \in 0..MaxFaults

Init ==
  /\ pc = [r \in Users \cup Scrapes |-> "new"]
  /\ lock = None
  /\ engine = None /\ sessions = FALSE /\ storage = None
  /\ ingest = FALSE /\ get = FALSE
  /\ made = {} /\ dropped = {} /\ shut = {}
  /\ closed = FALSE /\ raised = FALSE /\ faults = 0

Goto(r, where) == pc' = [pc EXCEPT ![r] = where]
InFlight == {r \in Users \cup Scrapes : pc[r] \notin {"new", "served", "503", "stale"}}

Arrive(r) ==
  /\ pc[r] = "new" /\ ~closed
  /\ Goto(r, "entering")
  /\ UNCHANGED <<lock, engine, sessions, storage, ingest, get, resources, ending,
                 faults>>

\* Mutant: the test for None before the lock, and no lock around the rest.
EnterUnlocked(r) ==
  /\ pc[r] = "entering"
  /\ Goto(r, IF (r \in Posts /\ ingest) \/ (r \in Gets /\ get)
             THEN "leaving" ELSE IF sessions THEN IF r \in Posts THEN "storage"
                                                                 ELSE "build"
             ELSE "database")
  /\ UNCHANGED <<lock, engine, sessions, storage, ingest, get, resources, ending,
                 faults>>

\* with self._lock: if self._ingest_document is None (or _get_document) ...
Enter(r) ==
  /\ pc[r] = "entering" /\ lock = None
  /\ lock' = r
  /\ Goto(r, IF (r \in Posts /\ ingest) \/ (r \in Gets /\ get) THEN "leaving"
             ELSE IF ~sessions THEN "database"
             ELSE IF r \in Posts THEN "storage" ELSE "build")
  /\ UNCHANGED <<engine, sessions, storage, ingest, get, resources, ending,
                 faults>>

\* _ensure_database: the engine, then the session factory.
CreateEngine(r) ==
  /\ pc[r] = "database"
  /\ engine' = r
  /\ made' = made \cup {<<"engine", r>>}
  /\ Goto(r, "factory")
  /\ UNCHANGED <<lock, sessions, storage, ingest, get, dropped, shut, ending,
                 faults>>

CreateFactory(r) ==
  /\ pc[r] = "factory"
  /\ sessions' = TRUE
  /\ Goto(r, IF r \in Posts THEN "storage" ELSE "build")
  /\ UNCHANGED <<lock, engine, storage, ingest, get, resources, ending, faults>>

\* create_document_storage: a client, which asks for the container before any
\* attribute holds it.
CreateStorage(r) ==
  /\ pc[r] = "storage"
  /\ made' = made \cup {<<"storage", r>>}
  /\ Goto(r, "container")
  /\ UNCHANGED <<lock, engine, sessions, storage, ingest, get, dropped, shut,
                 ending, faults>>

EnsureContainer(r) ==
  /\ pc[r] = "container"
  /\ storage' = r
  /\ Goto(r, "build")
  /\ UNCHANGED <<lock, engine, sessions, ingest, get, resources, ending, faults>>

\* The use case is built around what exists.
Build(r) ==
  /\ pc[r] = "build"
  /\ ingest' = (ingest \/ r \in Posts)
  /\ get' = (get \/ r \in Gets)
  /\ Goto(r, "leaving")
  /\ UNCHANGED <<lock, engine, sessions, storage, resources, ending, faults>>

\* The lock is released; the attribute is read again and returned.
LeaveLock(r) ==
  /\ pc[r] = "leaving"
  /\ lock' = IF lock = r THEN None ELSE lock
  /\ Goto(r, "served")
  /\ UNCHANGED <<engine, sessions, storage, ingest, get, resources, ending,
                 faults>>

\* A client whose container was refused is not closed, only forgotten.
Forget(r) == dropped' = dropped \cup ({<<"storage", r>>} \cap made)

\* Mutant: acquire() without a matching release() on the error path.
FailLocked(r) ==
  /\ pc[r] \in {"database", "storage", "container"}
  /\ faults < MaxFaults /\ faults' = faults + 1
  /\ Goto(r, "503")
  /\ Forget(r)
  /\ UNCHANGED <<lock, engine, sessions, storage, ingest, get, made, shut, ending>>

\* A constructor raises: the lock is released, what was created stays for the
\* next request, and this one is answered with 503.
Fail(r) ==
  /\ pc[r] \in {"database", "storage", "container"}
  /\ faults < MaxFaults /\ faults' = faults + 1
  /\ lock' = None
  /\ Goto(r, "503")
  /\ Forget(r)
  /\ UNCHANGED <<engine, sessions, storage, ingest, get, made, shut, ending>>

\* Mutant: the statistics look at the engine, which is set first.
ReadsDatabaseEarly == engine # None

\* outbox_statistics: without a session factory the gauges keep their values.
ReadsDatabase == sessions

Scrape(r) ==
  /\ pc[r] = "entering"
  /\ Goto(r, IF ReadsDatabase THEN "served" ELSE "stale")
  /\ UNCHANGED <<lock, engine, sessions, storage, ingest, get, resources, ending,
                 faults>>

\* The engine first, the client after it; what raises ends close().
Dispose(failing) ==
  LET engines == {<<"engine", engine>>} \cap Resources
      clients == {<<"storage", storage>>} \cap Resources
  IN  \/ ~failing /\ shut' = shut \cup engines \cup clients
      \/ failing /\ engines # {} /\ shut' = shut
      \/ failing /\ clients # {} /\ shut' = shut \cup engines

\* close(), when the server has drained its requests.
Close(failing) ==
  /\ ~closed /\ InFlight = {}
  /\ failing => faults < MaxFaults
  /\ faults' = IF failing THEN faults + 1 ELSE faults
  /\ Dispose(failing)
  /\ closed' = TRUE /\ raised' = failing
  /\ UNCHANGED <<pc, lock, engine, sessions, storage, ingest, get, made, dropped>>

Step(r) ==
  \/ Enter(r) \/ CreateEngine(r) \/ CreateFactory(r) \/ CreateStorage(r)
  \/ EnsureContainer(r) \/ Build(r) \/ LeaveLock(r)

Serve ==
  \/ \E r \in Users : Step(r) \/ Fail(r)
  \/ \E r \in Users \cup Scrapes : Arrive(r)
  \/ \E r \in Scrapes : Scrape(r)

Next == Serve \/ \E failing \in BOOLEAN : Close(failing)

Spec == Init /\ [][Next]_vars

-----------------------------------------------------------------------------
(* Properties *)

\* Whoever is served finds everything its use case is going to use, and a scrape
\* that reads the database finds the session factory, whatever other threads
\* have half created.
ServedIsComplete ==
  /\ \A r \in Users : pc[r] = "served" =>
       /\ engine # None /\ sessions
       /\ r \in Posts => ingest /\ storage # None
       /\ r \in Gets => get
  /\ \A r \in Scrapes : pc[r] = "served" => sessions

\* All requests share one engine and one storage client: a second one would
\* double the connections and escape close(), which knows only the last.  What
\* close() does not dispose of is the clients whose container was refused.
NothingEscapesClose ==
  /\ \A kind \in {"engine", "storage"} :
       Cardinality({m \in made \ dropped : m[1] = kind}) <= 1
  /\ closed /\ ~raised => shut = made \ dropped

\* No failed construction keeps the lock: every request is served or refused.
EveryRequestEnds ==
  \A r \in Users : (pc[r] = "entering") ~> (pc[r] \in {"served", "503"})
=============================================================================
