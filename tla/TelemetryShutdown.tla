-------------------------- MODULE TelemetryShutdown -------------------------
(***************************************************************************)
(* _BoundedTracerProvider: shutdown() may be called by the lifespan or by  *)
(* main()'s finally, by the atexit callback, and by several of them at     *)
(* once; a daemon thread started with the provider drains the spans, for   *)
(* as long as the exporter takes or for ever.  Callers share one deadline. *)
(***************************************************************************)
EXTENDS Naturals

CONSTANTS
  Callers,   \* calls of shutdown()
  AtExit,    \* the one that the interpreter makes at exit, if still registered
  Timeout,   \* settings.telemetry_shutdown_timeout_seconds
  MaxTime,   \* bound on the clock when nobody waits
  Unset

ASSUME CallersAssumption == AtExit \in Callers /\ Unset \notin Callers \cup Nat
ASSUME TimesAssumption == Timeout \in Nat /\ MaxTime \in Nat

VARIABLES
  clock,
  call,          \* where each call is
  shutdownLock,  \* _shutdown_lock
  first,         \* first_call of each call
  until,         \* when its wait(remaining) ends
  deadline,      \* _shutdown_deadline
  registered,    \* atexit.register(self.shutdown) is in force
  requested,     \* _shutdown_requested
  finished,      \* _shutdown_finished
  drainer,       \* the daemon thread: "waiting", "draining" or "done"
  warned,        \* calls that logged "spans may be lost"
  opened         \* auxiliary: when the first call was made

telemetryVars == <<clock, call, shutdownLock, first, until, deadline, registered,
                   requested, finished, drainer, warned, opened>>

Times == 0..(MaxTime + Timeout)

TelemetryTypeOK ==
  /\ clock \in Times
  /\ call \in [Callers -> {"idle", "entering", "critical", "waiting", "returned"}]
  /\ shutdownLock \in Callers \cup {Unset}
  /\ first \in [Callers -> BOOLEAN]
  /\ until \in [Callers -> Times]
  /\ deadline \in Times \cup {Unset}
  /\ registered \in BOOLEAN /\ requested \in BOOLEAN /\ finished \in BOOLEAN
  /\ drainer \in {"waiting", "draining", "done"}
  /\ warned \subseteq Callers
  /\ opened \in Times \cup {Unset}

\* Mutant: atexit.register(self.shutdown) is missing.
StartUnregistered ==
  /\ clock = 0
  /\ call = [c \in Callers |-> "idle"]
  /\ shutdownLock = Unset
  /\ first = [c \in Callers |-> FALSE]
  /\ until = [c \in Callers |-> 0]
  /\ deadline = Unset
  /\ registered = FALSE
  /\ requested = FALSE /\ finished = FALSE
  /\ drainer = "waiting"
  /\ warned = {}
  /\ opened = Unset

TelemetryInit ==
  /\ clock = 0
  /\ call = [c \in Callers |-> "idle"]
  /\ shutdownLock = Unset
  /\ first = [c \in Callers |-> FALSE]
  /\ until = [c \in Callers |-> 0]
  /\ deadline = Unset
  /\ registered = TRUE
  /\ requested = FALSE /\ finished = FALSE
  /\ drainer = "waiting"
  /\ warned = {}
  /\ opened = Unset

\* A call is made; the interpreter makes its own only if it is registered.
Call(c) ==
  /\ call[c] = "idle"
  /\ c = AtExit => registered
  /\ call' = [call EXCEPT ![c] = "entering"]
  /\ UNCHANGED <<clock, shutdownLock, first, until, deadline, registered,
                 requested, finished, drainer, warned, opened>>

\* with self._shutdown_lock
Acquire(c) ==
  /\ call[c] = "entering" /\ shutdownLock = Unset
  /\ shutdownLock' = c
  /\ call' = [call EXCEPT ![c] = "critical"]
  /\ UNCHANGED <<clock, first, until, deadline, registered, requested,
                 finished, drainer, warned, opened>>

\* Mutant: every call sets a deadline of its own.
ArmAgain(c) ==
  /\ first' = [first EXCEPT ![c] = TRUE]
  /\ deadline' = clock + Timeout
  /\ registered' = FALSE
  /\ requested' = TRUE

\* The first call sets the deadline, unregisters the atexit callback and wakes
\* the drainer.
Arm(c) ==
  IF deadline = Unset
  THEN /\ first' = [first EXCEPT ![c] = TRUE]
       /\ deadline' = clock + Timeout
       /\ registered' = FALSE
       /\ requested' = TRUE
  ELSE UNCHANGED <<first, deadline, registered, requested>>

\* The critical section: what is left until the deadline is what the call waits.
Critical(c) ==
  /\ call[c] = "critical"
  /\ Arm(c)
  /\ until' = [until EXCEPT ![c] = IF deadline' > clock THEN deadline' ELSE clock]
  /\ opened' = IF opened = Unset THEN clock ELSE opened
  /\ shutdownLock' = Unset
  /\ call' = [call EXCEPT ![c] = "waiting"]
  /\ UNCHANGED <<clock, finished, drainer, warned>>

\* Mutant: the warning is logged by whoever gives up.
WarnEach(c) == ~finished

\* not finished.wait(remaining) and first_call
Warns(c) == ~finished /\ first[c]

\* Mutant: wait() without a timeout.
WaitForDrain(c) == finished

WaitIsOver(c) == finished \/ clock >= until[c]

\* finished.wait(remaining) returns when the event is set or the time is over.
Return(c) ==
  /\ call[c] = "waiting"
  /\ WaitIsOver(c)
  /\ warned' = IF Warns(c) THEN warned \cup {c} ELSE warned
  /\ call' = [call EXCEPT ![c] = "returned"]
  /\ UNCHANGED <<clock, shutdownLock, first, until, deadline, registered,
                 requested, finished, drainer, opened>>

\* _finish_shutdown leaves requested.wait() and calls the SDK's shutdown.
Drain ==
  /\ drainer = "waiting" /\ requested
  /\ drainer' = "draining"
  /\ UNCHANGED <<clock, call, shutdownLock, first, until, deadline, registered,
                 requested, finished, warned, opened>>

\* It returned or raised; either way finally sets the event.
Drained ==
  /\ drainer = "draining"
  /\ drainer' = "done"
  /\ finished' = TRUE
  /\ UNCHANGED <<clock, call, shutdownLock, first, until, deadline, registered,
                 requested, warned, opened>>

\* A timed wait that is over returns before the clock moves on.  The clock stops
\* at its bound unless somebody waits.
Tick ==
  /\ clock < MaxTime \/ \E c \in Callers : call[c] = "waiting"
  /\ \A c \in Callers : call[c] = "waiting" => clock < until[c]
  /\ clock' = clock + 1
  /\ UNCHANGED <<call, shutdownLock, first, until, deadline, registered,
                 requested, finished, drainer, warned, opened>>

CallerStep(c) == Acquire(c) \/ Critical(c) \/ Return(c)

TelemetryStep ==
  \/ \E c \in Callers : CallerStep(c)
  \/ Drain \/ Drained \/ Tick

TelemetryNext == TelemetryStep \/ \E c \in Callers : Call(c)

TelemetrySpec == TelemetryInit /\ [][TelemetryNext]_telemetryVars

-----------------------------------------------------------------------------
(* Properties *)

\* All calls together take no longer than the timeout of the first: a second
\* caller does not begin the waiting anew.
DeadlineIsShared ==
  \A c \in Callers :
    call[c] = "waiting" =>
      /\ until[c] >= clock
      /\ until[c] > opened + Timeout => until[c] = clock

\* Losing spans is reported, and once: when the first call has returned, the
\* drain is complete or exactly that call has logged the warning.
LossIsReportedOnce ==
  /\ \A c \in warned, d \in warned : c = d
  /\ \A c \in Callers :
       call[c] = "returned" /\ first[c] => finished \/ c \in warned
=============================================================================
