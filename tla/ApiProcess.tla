----------------------------- MODULE ApiProcess -----------------------------
(***************************************************************************)
(* The life of the API process: its requests share a service provider; the *)
(* lifespan that create_app() installs closes the provider and then shuts  *)
(* telemetry down; the interpreter joins the threads that are left, calls  *)
(* what is still registered with atexit, and ends.                         *)
(***************************************************************************)
EXTENDS ServiceProvider, TelemetryShutdown

CONSTANT Lifespan   \* the call of shutdown() that the lifespan makes

ASSUME LifespanAssumption == Lifespan \in Callers \ {AtExit}

VARIABLE stage   \* "running", "closed" (the provider is), "exiting" or "ended"

processVars == <<vars, telemetryVars, stage>>

Others == Callers \ {Lifespan, AtExit}

ProcessInit == Init /\ TelemetryInit /\ stage = "running"

Running ==
  /\ stage = "running"
  /\ Serve
  /\ UNCHANGED <<telemetryVars, stage>>

\* lifespan, finally: what close() raises skips the call of shutdown().
CloseProvider ==
  /\ stage = "running"
  /\ \E failing \in BOOLEAN :
       Close(failing) /\ stage' = IF failing THEN "exiting" ELSE "closed"
  /\ UNCHANGED telemetryVars

CallShutdown ==
  /\ stage = "closed"
  /\ Call(Lifespan)
  /\ UNCHANGED <<vars, stage>>

\* The server returns from main(), or dies of what the lifespan raised.
Leave ==
  /\ stage = "closed" /\ call[Lifespan] = "returned"
  /\ stage' = "exiting"
  /\ UNCHANGED <<vars, telemetryVars>>

\* Whatever thread holds application.state.tracer_provider may shut it down.
OtherShutdown ==
  /\ stage \in {"closed", "exiting"} /\ call[AtExit] = "idle"
  /\ \E c \in Others : Call(c)
  /\ UNCHANGED <<vars, stage>>

\* atexit callbacks run when the other threads have been joined.
Joined == \A c \in Others : call[c] \in {"idle", "returned"}

AtExitCallback ==
  /\ stage = "exiting" /\ Joined
  /\ Call(AtExit)
  /\ UNCHANGED <<vars, stage>>

\* The interpreter ends, and the daemon thread with it.
End ==
  /\ stage = "exiting" /\ Joined
  /\ ~registered /\ call[AtExit] \in {"idle", "returned"}
  /\ stage' = "ended"
  /\ UNCHANGED <<vars, telemetryVars>>

\* Before the provider is closed there is nothing to shut down.
Ending(step) ==
  /\ stage \in {"closed", "exiting"}
  /\ step
  /\ UNCHANGED <<vars, stage>>

ProcessNext ==
  \/ Running \/ CloseProvider \/ CallShutdown \/ Leave \/ OtherShutdown
  \/ AtExitCallback \/ End \/ Ending(TelemetryStep)

ProcessSpec == ProcessInit /\ [][ProcessNext]_processVars

\* Threads run, the locks are granted, time passes; the server is told to stop
\* at some time or never, and nothing obliges the SDK's shutdown to return.
ProcessFairSpec ==
  /\ ProcessSpec
  /\ \A r \in Users : WF_vars(Step(r))
  /\ WF_processVars(Ending(Tick))
  /\ \A c \in Callers : WF_telemetryVars(CallerStep(c))
  /\ WF_processVars(CallShutdown) /\ WF_processVars(Leave)
  /\ WF_processVars(AtExitCallback) /\ WF_processVars(End)

-----------------------------------------------------------------------------
(* Properties *)

\* A process that ends by itself has drained its spans or said that they may be
\* lost, whatever close() raised before shutdown() was to be called and whoever
\* calls it first.
SpansAreSettled == stage = "ended" => finished \/ warned # {}

\* Once its requests are drained and the provider closed, the process ends: not
\* even an exporter that hangs for ever, or a close() that raises, keeps it.
ProcessEnds == closed ~> (stage = "ended")
=============================================================================
