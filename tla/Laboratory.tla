----------------------------- MODULE Laboratory -----------------------------
(***************************************************************************)
(* experiments/lab.py: one run of an experiment in a Compose project of    *)
(* its own.  Every docker call may return a non-zero code (RuntimeError),  *)
(* run into its timeout (TimeoutExpired, no RuntimeError) or be cut by     *)
(* Ctrl+C or SIGTERM (KeyboardInterrupt, no Exception); which frame's      *)
(* except or finally takes over depends on where the controller is.        *)
(***************************************************************************)
EXTENDS Naturals

CONSTANTS
  Scenarios,    \* scenarios a run may be started with
  Steps,        \* load steps of the progressive scenario
  Faults,       \* what a call may meet: some of Exceptions
  MaxFaults,    \* bound on the number of faults of one run
  MaxCommands   \* bound on the operator's commands after the run

Dependencies == {"postgres", "rabbitmq", "azurite"}
Outages == Dependencies \cup {"worker", "api"}
AllScenarios == Outages \cup {"smoke", "progressive", "api-scale", "worker-scale"}
Services == Dependencies \cup {"api", "api2", "worker", "worker2", "collector", "locust"}
Exceptions == {"error", "timeout", "interrupt"}
None == "none"

ASSUME ScenariosAssumption == Scenarios \subseteq AllScenarios
ASSUME FaultsAssumption == Faults \subseteq Exceptions
ASSUME BoundsAssumption == Steps \in Nat \ {0} /\ MaxFaults \in Nat /\ MaxCommands \in Nat

VARIABLES
  scenario, replicas,  \* arguments of execute()
  pc,         \* the statement the controller is at
  frame,      \* the try statement or handler it is in
  exc,        \* the exception being propagated
  created, running,    \* containers of the project
  load,       \* the client "docker compose up locust"
  handle,     \* frame that holds the Popen object of the client
  left,       \* load steps still to be made
  phase,      \* phase.json
  events,     \* events of timeline.jsonl
  faults, commands,
  fresh,      \* auxiliary: the worker was recreated after the outage
  lost        \* auxiliary: what a fault made the handlers give up

vars == <<scenario, replicas, pc, frame, exc, created, running, load, handle,
          left, phase, events, faults, commands, fresh, lost>>

containers == <<created, running>>
client == <<load, handle>>
fixed == <<scenario, replicas, commands>>

Frames == {"main", "step", "outage", "except", "final"}
Labels == {"preflight", "prepare", "migrate", "application", "launch", "warmup",
           "measure", "prefill", "backlog", "workers", "drain", "healthy",
           "stop_service", "outage", "restore", "recreate", "recovery",
           "stop_load", "await_load", "audit", "except", "probe", "logs",
           "stop_all", "summarize", "ended", "killed", "recovered", "stopped"}

TypeOK ==
  /\ scenario \in Scenarios /\ replicas \in 1..2
  /\ pc \in Labels /\ frame \in Frames
  /\ exc \in Exceptions \cup {None}
  /\ created \subseteq Services /\ running \subseteq created
  /\ load \in {None, "launching", "running", "exited"}
  /\ handle \in {None, "step", "main"}
  /\ left \in 0..Steps
  /\ phase \in {None, "warmup", "measure", "prefill", "drain", "healthy", "failure", "recovery"}
  /\ events \subseteq {"laboratory_ready", "failure_start", "service_stopped",
        "dependency_restored", "worker_restarted", "worker_drain_started",
        "experiment_complete", "experiment_interrupted", "automatic_restore_failed",
        "log_collection_failed", "automatic_stop_failed",
        "manual_recovery_complete", "manual_stop"}
  /\ faults \in 0..MaxFaults /\ commands \in 0..MaxCommands
  /\ fresh \in BOOLEAN
  /\ lost \subseteq {"restore", "cleanup", "lookup"}

\* _manifest: two replicas of the service that the scenario scales, no other.
AllowedReplicas(name) == IF name \in {"api-scale", "worker-scale"} THEN 1..2 ELSE {1}

Init ==
  /\ scenario \in Scenarios
  /\ replicas \in AllowedReplicas(scenario)
  /\ pc = "preflight" /\ frame = "main"
  /\ exc = None
  /\ created = {} /\ running = {}
  /\ load = None /\ handle = None
  /\ left = IF scenario = "progressive" THEN Steps ELSE 1
  /\ phase = None
  /\ events = {}
  /\ faults = 0 /\ commands = 0
  /\ fresh = FALSE
  /\ lost = {}

Scaled(name) == IF replicas = 2 /\ scenario = name THEN 1..2 ELSE {1}
Apis == {IF i = 1 THEN "api" ELSE "api2" : i \in Scaled("api-scale")}
Workers == {IF i = 1 THEN "worker" ELSE "worker2" : i \in Scaled("worker-scale")}
Base == {"collector"} \cup Apis \cup (IF scenario = "worker-scale" THEN {} ELSE Workers)

\* depends_on of the service that fails: compose up starts these too.
DependsOn(s) ==
  CASE s = "worker" -> Dependencies
    [] s = "api" -> {"postgres", "azurite"}
    [] OTHER -> {}

At(label) == pc = label
Goto(label) == pc' = label /\ UNCHANGED frame
Enter(f, label) == pc' = label /\ frame' = f
Record(e) == events' = events \cup {e}
Quiet == UNCHANGED <<faults, exc, lost>>

\* A budgeted fault.
Fault(e) == e \in Faults /\ faults < MaxFaults /\ faults' = faults + 1

\* The exception e leaves the current statement: the finally of the load step,
\* the finally of the outage, the "except Exception" of the automatic restore
\* and of the cleanup, or the handler of execute().
Raises(e) ==
  CASE frame = "step" /\ pc \notin {"stop_load", "await_load"} ->
         Enter("step", "stop_load") /\ exc' = e /\ UNCHANGED <<events, lost>>
    [] frame = "outage" /\ pc \in {"stop_service", "outage"} ->
         Enter("outage", "restore") /\ exc' = e /\ UNCHANGED <<events, lost>>
    [] frame = "except" ->
         /\ Enter("final", "stop_load")
         /\ IF e = "interrupt" THEN exc' = e /\ lost' = lost \cup {"restore"} /\ UNCHANGED events
            ELSE Record("automatic_restore_failed") /\ UNCHANGED <<exc, lost>>
    [] frame = "final" ->
         IF e = "interrupt"
         THEN Enter("final", "ended") /\ exc' = e /\ lost' = lost \cup {"cleanup"} /\ UNCHANGED events
         ELSE Enter("final", "summarize") /\ Record("automatic_stop_failed") /\ UNCHANGED <<exc, lost>>
    [] OTHER ->
         Enter("main", "except") /\ exc' = e /\ UNCHANGED <<events, lost>>

Fails(e) == Fault(e) /\ Raises(e)

-----------------------------------------------------------------------------
(* Preparation *)

Preflight ==
  /\ At("preflight")
  /\ \/ Goto("prepare") /\ Quiet /\ UNCHANGED events
     \/ \E e \in Exceptions : Fails(e)
  /\ UNCHANGED <<containers, client, left, phase, fresh, fixed>>

\* compose up --wait: all of them run, or it fails with some of them running.
Up(services, next) ==
  \/ /\ created' = created \cup services /\ running' = running \cup services
     /\ next /\ Quiet
  \/ \E some \in SUBSET services, e \in Exceptions :
       /\ created' = created \cup some /\ running' = running \cup some
       /\ Fails(e)

Prepare ==
  /\ At("prepare")
  /\ Up(Dependencies, Goto("migrate") /\ UNCHANGED events)
  /\ UNCHANGED <<client, left, phase, fresh, fixed>>

\* The image build, alembic upgrade head and init_blob_storage.
Migrate ==
  /\ At("migrate")
  /\ \/ Goto("application") /\ Quiet /\ UNCHANGED events
     \/ \E e \in Exceptions : Fails(e)
  /\ UNCHANGED <<containers, client, left, phase, fresh, fixed>>

Application ==
  /\ At("application")
  /\ Up(Base, Goto("launch") /\ Record("laboratory_ready"))
  /\ UNCHANGED <<client, left, phase, fresh, fixed>>

-----------------------------------------------------------------------------
(* Load *)

LoadFrame == IF scenario \in Outages THEN "main" ELSE "step"

FirstWait ==
  CASE scenario \in Outages -> "healthy"
    [] scenario = "worker-scale" -> "prefill"
    [] OTHER -> "warmup"

\* Popen.  An interrupt may come after the client was started and before its
\* handle was bound.
Launch ==
  /\ At("launch")
  /\ \/ /\ load' = "launching" /\ handle' = LoadFrame
        /\ phase' = FirstWait
        /\ Enter(LoadFrame, FirstWait)
        /\ Quiet /\ UNCHANGED events
     \/ \E e \in Exceptions :
          /\ load' \in (IF e = "interrupt" THEN {load, "launching"} ELSE {load})
          /\ handle' = None
          /\ phase' = IF scenario \in Outages THEN phase ELSE FirstWait
          /\ Fails(e)
  /\ left' = left - 1
  /\ UNCHANGED <<containers, fresh, fixed>>

\* _wait returns at its deadline or when Locust has exited with 0; a guard or
\* another exit code raises.
Warmup ==
  /\ At("warmup")
  /\ \/ phase' = "measure" /\ Goto("measure") /\ Quiet /\ UNCHANGED events
     \/ \E e \in Exceptions : UNCHANGED phase /\ Fails(e)
  /\ UNCHANGED <<containers, client, left, fresh, fixed>>

\* After the last wait of a step Locust must have exited.
Measure ==
  /\ pc \in {"measure", "prefill"}
  /\ \/ load = "exited" /\ Goto("stop_load") /\ Quiet /\ UNCHANGED events
     \/ load # "exited" /\ Raises("error") /\ UNCHANGED faults
     \/ \E e \in Exceptions : Fails(e)
  /\ UNCHANGED <<containers, client, left, phase, fresh, fixed>>

\* _stop_locust, the container: a lookup that returns a non-zero code counts as
\* "absent" and nothing is stopped.
StopLoad ==
  /\ At("stop_load")
  /\ \/ running' = running \ {"locust"} /\ Goto("await_load") /\ Quiet /\ UNCHANGED events
     \/ Fault("error") /\ Goto("await_load") /\ UNCHANGED <<running, exc, lost, events>>
     \/ \E e \in Exceptions : running' \in {running, running \ {"locust"}} /\ Fails(e)
  /\ UNCHANGED <<created, client, left, phase, fresh, fixed>>

\* What follows _stop_locust in each frame.
AfterLoad ==
  CASE frame = "step" /\ exc # None -> Enter("main", "except")
    [] frame = "step" /\ scenario = "worker-scale" -> Enter("main", "backlog")
    [] frame = "step" -> Enter("main", IF left > 0 THEN "launch" ELSE "drain")
    [] frame = "main" -> Goto("audit")
    [] OTHER -> Goto("logs")

Holder == IF frame = "step" THEN "step" ELSE "main"

\* Mutant: the frame does not wait for a client that is still running.
AwaitsNothing == UNCHANGED <<load, running>>

\* Mutant: wait() without a timeout.
AwaitsExit == (handle = Holder => load = "exited") /\ UNCHANGED <<load, running>>

\* process.wait(30), then terminate() and wait(10): the client takes its
\* container down with it.
Awaits ==
  IF handle = Holder /\ load # "exited"
  THEN load' = "exited" /\ running' = running \ {"locust"}
  ELSE UNCHANGED <<load, running>>

AwaitLoad ==
  /\ At("await_load")
  /\ \/ /\ Awaits
        /\ AfterLoad
        /\ Quiet /\ UNCHANGED events
     \/ \E e \in Exceptions : UNCHANGED <<load, running>> /\ Fails(e)
  /\ handle' = IF frame = "step" \/ pc' = "audit" THEN None ELSE handle
  /\ UNCHANGED <<created, left, phase, fresh, fixed>>

\* The compose client creates and starts its container, later on.
LoadStarts ==
  /\ load = "launching"
  /\ load' = "running"
  /\ created' = created \cup {"locust"} /\ running' = running \cup {"locust"}
  /\ UNCHANGED <<pc, frame, exc, handle, left, phase, events, faults, fresh, lost, fixed>>

\* Locust reaches its run time or is stopped, and its client exits.
LoadEnds ==
  /\ load \in {"launching", "running"}
  /\ load' = "exited" /\ running' = running \ {"locust"}
  /\ UNCHANGED <<pc, frame, exc, created, handle, left, phase, events, faults, fresh, lost, fixed>>

Drain ==
  /\ At("drain")
  /\ phase' = "drain"
  /\ \/ Goto("stop_load") /\ Quiet /\ UNCHANGED events
     \/ \E e \in Exceptions : Fails(e)
  /\ UNCHANGED <<containers, client, left, fresh, fixed>>

\* _worker_scale: the snapshot shows the requested backlog, or it gives up.
Backlog ==
  /\ At("backlog")
  /\ \/ Goto("workers") /\ Record("worker_drain_started") /\ Quiet
     \/ \E e \in Exceptions : Fails(e)
  /\ UNCHANGED <<containers, client, left, phase, fresh, fixed>>

StartWorkers ==
  /\ At("workers")
  /\ Up(Workers, Goto("drain") /\ UNCHANGED events)
  /\ UNCHANGED <<client, left, phase, fresh, fixed>>

-----------------------------------------------------------------------------
(* The outage of one service *)

Target == scenario

\* The wait of the healthy phase, the accepted document and wait_healthy().
Healthy ==
  /\ At("healthy")
  /\ \/ /\ load # "exited" /\ Dependencies \cup {"api", "worker"} \subseteq running
        /\ phase' = "failure"
        /\ Enter("outage", "stop_service")
        /\ Record("failure_start") /\ Quiet
     \/ /\ load = "exited" \/ ~(Dependencies \cup {"api", "worker"} \subseteq running)
        /\ Raises("error") /\ UNCHANGED <<phase, faults>>
     \/ \E e \in Exceptions : UNCHANGED phase /\ Fails(e)
  /\ UNCHANGED <<containers, client, left, fresh, fixed>>

StopService ==
  /\ At("stop_service")
  /\ \/ /\ running' = running \ {Target}
        /\ Goto("outage") /\ Record("service_stopped") /\ Quiet
     \/ \E e \in Exceptions : running' \in {running, running \ {Target}} /\ Fails(e)
  /\ fresh' = FALSE
  /\ UNCHANGED <<created, client, left, phase, fixed>>

\* finally: _restore follows whether the wait returned or raised.
Outage ==
  /\ At("outage")
  /\ \/ Goto("restore") /\ Quiet /\ UNCHANGED events
     \/ \E e \in Exceptions : Fails(e)
  /\ UNCHANGED <<containers, client, left, phase, fresh, fixed>>

\* What follows _restore in each frame: the pending exception, the recovery, or
\* the cleanup.
AfterRestore ==
  CASE frame = "outage" /\ exc = None -> Enter("main", "recovery") /\ phase' = "recovery"
    [] frame = "outage" -> Enter("main", "except") /\ UNCHANGED phase
    [] OTHER -> Enter("final", "stop_load") /\ UNCHANGED phase

\* Mutant: the worker is recreated after an outage of the broker only.
RecreatesForBroker == Target = "rabbitmq"

RecreatesWorker == Target \in {"rabbitmq", "postgres"}

Restore ==
  /\ At("restore")
  /\ \/ /\ running' = running \cup {Target} \cup DependsOn(Target)
        /\ created' = created \cup DependsOn(Target)
        /\ Record("dependency_restored") /\ Quiet
        /\ IF RecreatesWorker THEN Goto("recreate") /\ UNCHANGED phase ELSE AfterRestore
     \/ \E e \in Exceptions, some \in SUBSET ({Target} \cup DependsOn(Target)) :
          running' = running \cup some /\ created' = created \cup some
          /\ UNCHANGED phase /\ Fails(e)
  /\ UNCHANGED <<client, left, fresh, fixed>>

Recreate ==
  /\ At("recreate")
  /\ \/ /\ running' = running \cup {"worker"} \cup DependsOn("worker")
        /\ fresh' = (Target \in running)
        /\ AfterRestore
        /\ Record("worker_restarted") /\ Quiet
     \/ \E e \in Exceptions :
          /\ running' \in {running, running \ {"worker"}, running \cup {"worker"}}
          /\ UNCHANGED <<phase, fresh>> /\ Fails(e)
  /\ UNCHANGED <<created, client, left, fixed>>

\* The worker ends when its broker or its database is away for too long.
WorkerExits ==
  /\ "worker" \in running /\ ~({"postgres", "rabbitmq"} \subseteq running)
  /\ running' = running \ {"worker"}
  /\ UNCHANGED <<pc, frame, exc, created, client, left, phase, events, faults,
                 fresh, lost, fixed>>

Recovery ==
  /\ At("recovery")
  /\ \/ Goto("stop_load") /\ Quiet /\ UNCHANGED events
     \/ \E e \in Exceptions : Fails(e)
  /\ UNCHANGED <<containers, client, left, phase, fresh, fixed>>

-----------------------------------------------------------------------------
(* The end of a run *)

\* _audit, whose result decides between two last events.
Audit ==
  /\ At("audit")
  /\ \/ Enter("final", "stop_load") /\ Quiet
        /\ (Record("experiment_complete") \/ UNCHANGED events)
     \/ \E e \in Exceptions : Fails(e)
  /\ UNCHANGED <<containers, client, left, phase, fresh, fixed>>

\* failure_service is set once the load of an outage scenario was launched.
Armed == scenario \in Outages /\ phase # None

Except ==
  /\ At("except")
  /\ Record("experiment_interrupted")
  /\ IF Armed THEN Enter("except", "probe") ELSE Enter("final", "stop_load")
  /\ UNCHANGED <<exc, containers, client, left, phase, faults, fresh, lost, fixed>>

\* Mutant: the handler takes a service for healthy because its container exists.
ExistsIsHealthy(s) == s \in created

\* _healthy: of a running container, what docker says; a stopped one is not.
SeemsHealthy(s) == s \in running

Probe ==
  /\ At("probe")
  /\ \/ SeemsHealthy(Target) /\ Enter("final", "stop_load") /\ Quiet /\ UNCHANGED events
     \/ ~SeemsHealthy(Target) /\ Goto("restore") /\ Quiet /\ UNCHANGED events
     \/ \E e \in Exceptions : Fails(e)
  /\ UNCHANGED <<containers, client, left, phase, fresh, fixed>>

\* _logs: "except RuntimeError" around the command, not around a timeout.
Logs ==
  /\ At("logs")
  /\ \/ Goto("stop_all") /\ Quiet /\ UNCHANGED events
     \/ Fault("error") /\ Goto("stop_all") /\ UNCHANGED <<exc, lost>>
        /\ (Record("log_collection_failed") \/ UNCHANGED events)
     \/ \E e \in Exceptions \ {"error"} : Fails(e)
  /\ UNCHANGED <<containers, client, left, phase, fresh, fixed>>

\* Mutant: the collector is not on the list of services to stop.
FindsAllButCollector(missed) == created \ (missed \cup {"collector"})

\* _existing_services: a service whose lookup returns a non-zero code is skipped.
Found(missed) == created \ missed

StopAll ==
  /\ At("stop_all")
  /\ \/ /\ running' = running \ Found({})
        /\ Goto("summarize") /\ Quiet /\ UNCHANGED events
     \/ \E s \in created :
          /\ Fault("error") /\ lost' = lost \cup {"lookup"}
          /\ running' = running \ Found({s})
          /\ Goto("summarize") /\ UNCHANGED <<exc, events>>
     \/ \E rest \in SUBSET running, e \in Exceptions : running' = rest /\ Fails(e)
  /\ UNCHANGED <<created, client, left, phase, fresh, fixed>>

\* summarize(); a pending exception is raised again after it.
Summarize ==
  /\ At("summarize")
  /\ Goto("ended")
  /\ \/ Quiet
     \/ \E e \in Exceptions : Fault(e) /\ exc' = e
          /\ lost' = IF e = "interrupt" THEN lost \cup {"cleanup"} ELSE lost
  /\ UNCHANGED <<events, containers, client, left, phase, fresh, fixed>>

Controller ==
  \/ Preflight \/ Prepare \/ Migrate \/ Application \/ Launch \/ Warmup \/ Measure
  \/ StopLoad \/ AwaitLoad \/ Drain \/ Backlog \/ StartWorkers \/ Healthy
  \/ StopService \/ Outage \/ Restore \/ Recreate \/ Recovery \/ Audit \/ Except
  \/ Probe \/ Logs \/ StopAll \/ Summarize

-----------------------------------------------------------------------------
(* The operator *)

Over == pc \in {"ended", "killed", "recovered", "stopped"}

\* SIGKILL of the controller, or a power cut that stops the containers too.
Kill ==
  /\ ~Over
  /\ pc' = "killed"
  /\ running' \in {running, {}}
  /\ load' = IF running' = {} /\ load # None THEN "exited" ELSE load
  /\ UNCHANGED <<frame, exc, created, handle, left, phase, events, faults, fresh, lost, fixed>>

Command ==
  /\ Over /\ commands < MaxCommands
  /\ commands' = commands + 1
  /\ UNCHANGED <<scenario, replicas, frame, exc, client, left, phase, faults, fresh>>

\* lab recover: refuses unless every dependency exists; never starts the load.
Recover ==
  /\ Command
  /\ Dependencies \subseteq created
  /\ pc' = "recovered"
  /\ UNCHANGED lost
  /\ LET all == Dependencies \cup Apis \cup Workers IN
     \/ /\ created' = created \cup all /\ running' = running \cup all
        /\ Record("manual_recovery_complete")
     \/ \E some \in SUBSET all :
          /\ created' = created \cup some /\ running' = running \cup some
          /\ UNCHANGED events

\* lab stop: _stop_all, which skips what it cannot look up.
Stop ==
  /\ Command
  /\ \/ /\ running' = running \ Found({}) /\ UNCHANGED lost
        /\ pc' = "stopped" /\ Record("manual_stop")
     \/ \E s \in created : /\ running' = running \ Found({s})
                           /\ lost' = lost \cup {"lookup"}
                           /\ pc' = "stopped" /\ Record("manual_stop")
     \/ running' \in SUBSET running /\ UNCHANGED <<pc, events, lost>>
  /\ UNCHANGED created

Next == Controller \/ LoadStarts \/ LoadEnds \/ WorkerExits \/ Kill \/ Recover \/ Stop

Spec == Init /\ [][Next]_vars

\* Every call of the controller has a timeout, so each of its steps ends.
FairSpec == Spec /\ WF_vars(Controller)

-----------------------------------------------------------------------------
(* Properties *)

\* The audit of a run never counts while Locust may still add documents: in every
\* scenario, whatever _stop_locust failed to look up, the client has exited.
LoadEndsBeforeAudit ==
  pc = "audit" => load \notin {"launching", "running"} /\ "locust" \notin running

\* When a run is over, or the operator has stopped it, no container but a late
\* Locust runs, unless the timeline says that the stop failed, the cleanup
\* was itself interrupted, or a lookup that failed was taken for "absent".
LeftRunningIsExplained ==
  pc \in {"ended", "stopped"} =>
    \/ running \subseteq {"locust"}
    \/ pc = "ended" /\ "automatic_stop_failed" \in events
    \/ pc = "ended" /\ "cleanup" \in lost
    \/ "lookup" \in lost

\* When the cleanup begins, the service that the run stopped is running again,
\* or the timeline says that its restore failed, or a second interrupt cut it.
RestoredOrReported ==
  frame = "final" /\ pc = "stop_load" /\ "service_stopped" \in events =>
    \/ Target \in running
    \/ "automatic_restore_failed" \in events
    \/ "restore" \in lost

\* The recovery of an outage of broker or database is measured with a worker that
\* was created after the service had come back: the old one has no channel.
RecoveryHasAFreshWorker ==
  pc = "recovery" /\ Target \in {"rabbitmq", "postgres"} => fresh

\* Every run ends, whatever Locust does: no wait is without a deadline.
RunEnds == <>Over

\* docs/EXPERIMENTS.md: Ctrl+C or SIGTERM makes the controller stop Locust,
\* restore the service, collect the logs and stop the project's containers.
InterruptStopsContainers ==
  pc = "ended" /\ exc = "interrupt" => running \subseteq {"locust"}
=============================================================================
