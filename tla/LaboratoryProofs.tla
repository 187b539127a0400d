-------------------------- MODULE LaboratoryProofs --------------------------
(***************************************************************************)
(* Proofs about Laboratory for every scenario, any number of load steps,   *)
(* any number of faults of any kind and any number of later commands: type *)
(* correctness, its four invariants, and that no run is endless.           *)
(*                                                                         *)
(* None of the four is inductive.  Which handler takes over after a fault  *)
(* depends on the frame, so Placed and Flows first say which frame each    *)
(* statement is in and which scenarios reach it.  ClientIsHeld follows the *)
(* client of Locust from Popen to the frame that waits for it; OutageKnown *)
(* follows the stopped service, and for an outage of the worker also what  *)
(* keeps it up; CleanedUp says what the last statement of the cleanup      *)
(* finds; Created is what makes a restore start only what exists.          *)
(*                                                                         *)
(* Remaining is a variant of the controller: no handler leads back to a    *)
(* statement before it, so only the load steps left allow a repetition.    *)
(***************************************************************************)
EXTENDS Laboratory, TLAPS

\* Which try statement or handler each statement is in; a load step is only
\* launched while steps are left.
Placed ==
  /\ pc \in {"preflight", "prepare", "migrate", "application", "launch", "backlog",
             "workers", "drain", "healthy", "recovery", "audit", "except"}
       => frame = "main"
  /\ pc \in {"warmup", "measure", "prefill"} => frame = "step"
  /\ pc \in {"stop_service", "outage"} => frame = "outage"
  /\ pc \in {"restore", "recreate"} => frame \in {"outage", "except"}
  /\ pc = "probe" => frame = "except"
  /\ pc \in {"stop_load", "await_load"} => frame \in {"step", "main", "final"}
  /\ pc \in {"logs", "stop_all", "summarize"} => frame = "final"
  /\ pc \in {"preflight", "prepare", "migrate", "application", "launch"} => left > 0

\* Only a scenario with an outage stops and restores a service, and it makes no
\* load steps.
Flows ==
  /\ pc \in {"healthy", "stop_service", "outage", "restore", "recreate", "probe", "recovery"}
       => scenario \in Outages
  /\ scenario \in Outages =>
       /\ frame # "step"
       /\ pc \notin {"warmup", "measure", "prefill", "backlog", "workers", "drain"}

\* Everything a restore starts was created before a service can be stopped.
Created ==
  /\ pc \in {"migrate", "application"} => Dependencies \subseteq created
  /\ scenario \in Outages /\ (pc = "launch" \/ phase # None) =>
       Dependencies \cup {"api", "worker"} \subseteq created
  /\ pc \in {"healthy", "stop_service", "outage", "restore", "recreate", "probe", "recovery"}
       => phase # None

LoadIsLive == load \in {"launching", "running"}

\* A client that may still add documents is held by the frame that will wait for
\* it; where no frame does, there is none.
ClientIsHeld ==
  /\ "locust" \in running => load = "running"
  /\ frame = "step" => handle = "step"
  /\ frame = "outage" \/ pc \in {"healthy", "recovery"} => handle = "main"
  /\ LoadIsLive =>
       /\ pc \notin {"preflight", "prepare", "migrate", "application", "launch", "backlog",
                     "workers", "drain", "audit"}
       /\ frame = "main" /\ pc \in {"stop_load", "await_load"} => handle = "main"

\* What the last statement of the cleanup finds.
CleanedUp ==
  pc = "summarize" =>
    \/ running \subseteq {"locust"}
    \/ "automatic_stop_failed" \in events
    \/ "lookup" \in lost

\* From the stop of the service on: the handler will look for it, the recovery
\* has it, and what a worker needs to stay up runs until the cleanup.
OutageKnown ==
  /\ "service_stopped" \in events =>
       /\ scenario \in Outages /\ phase # None
       /\ pc \in {"recovery", "audit"} => Target \in running
       /\ frame = "main" /\ pc \in {"stop_load", "await_load"} => Target \in running
  /\ /\ pc = "stop_service" \/ "service_stopped" \in events
     /\ scenario = "worker" /\ pc \notin {"stop_all", "summarize"} /\ ~Over
     => {"postgres", "rabbitmq"} \subseteq running
  /\ pc = "recreate" => RecreatesWorker /\ Target \in running

LaboratoryInv ==
  /\ TypeOK /\ Placed /\ Flows /\ Created
  /\ ClientIsHeld /\ CleanedUp /\ OutageKnown
  /\ LeftRunningIsExplained /\ RestoredOrReported /\ RecoveryHasAFreshWorker

-----------------------------------------------------------------------------
(* Lemmas *)

\* Every scenario has one API and one worker, and at most a second of each.
LEMMA ServicesKnown ==
  /\ "api" \in Apis /\ Apis \subseteq {"api", "api2"}
  /\ "worker" \in Workers /\ Workers \subseteq {"worker", "worker2"}
<1>1. 1 \in Scaled("api-scale") /\ 1 \in Scaled("worker-scale")
  BY DEF Scaled
<1> QED
  BY <1>1 DEF Apis, Workers

\* The controller stays in the frame its statement belongs to, and a run without
\* an outage never reaches the statements of one.
LEMMA LaboratoryPlaced ==
  ASSUME TypeOK, Placed, Flows, [Next]_vars
  PROVE  Placed' /\ Flows'
<1> USE DEF Placed, Flows, Exceptions, At, Goto, Enter, Record, Quiet, Fault,
    Fails, Raises, containers, client, fixed
<1>1. CASE Preflight
  BY <1>1 DEF Preflight
<1>2. CASE Prepare
  BY <1>2 DEF Prepare, Up
<1>3. CASE Migrate
  BY <1>3 DEF Migrate
<1>4. CASE Application
  BY <1>4 DEF Application, Up
<1>5. CASE Launch
  <2>1. left \in Nat /\ left > 0
    BY <1>5, BoundsAssumption DEF Launch, TypeOK
  <2> QED
    BY <1>5, <2>1 DEF Launch, LoadFrame, FirstWait, Outages, Dependencies
<1>6. CASE Warmup
  BY <1>6 DEF Warmup
<1>7. CASE Measure
  BY <1>7 DEF Measure
<1>8. CASE StopLoad
  BY <1>8 DEF StopLoad
<1>9. CASE AwaitLoad
  BY <1>9, BoundsAssumption DEF AwaitLoad, AfterLoad, Awaits, Holder, Outages,
      TypeOK
<1>10. CASE Drain
  BY <1>10 DEF Drain
<1>11. CASE Backlog
  BY <1>11 DEF Backlog
<1>12. CASE StartWorkers
  BY <1>12 DEF StartWorkers, Up
<1>13. CASE Healthy
  BY <1>13 DEF Healthy, TypeOK
<1>14. CASE StopService
  BY <1>14 DEF StopService
<1>15. CASE Outage
  BY <1>15 DEF Outage
<1>16. CASE Restore
  BY <1>16 DEF Restore, AfterRestore, RecreatesWorker
<1>17. CASE Recreate
  BY <1>17 DEF Recreate, AfterRestore, RecreatesWorker
<1>18. CASE Recovery
  BY <1>18 DEF Recovery
<1>19. CASE Audit
  BY <1>19 DEF Audit
<1>20. CASE Except
  BY <1>20 DEF Except, Armed, Armed
<1>21. CASE Probe
  BY <1>21 DEF Probe, SeemsHealthy
<1>22. CASE Logs
  BY <1>22 DEF Logs
<1>23. CASE StopAll
  BY <1>23 DEF StopAll, Found
<1>24. CASE Summarize
  BY <1>24 DEF Summarize
<1>25. CASE LoadStarts
  BY <1>25 DEF LoadStarts
<1>26. CASE LoadEnds
  BY <1>26 DEF LoadEnds
<1>27. CASE WorkerExits
  BY <1>27 DEF WorkerExits
<1>28. CASE Kill
  BY <1>28 DEF Kill, Over
<1>29. CASE Recover
  BY <1>29 DEF Recover, Command, Over
<1>30. CASE Stop
  BY <1>30 DEF Stop, Command, Over, Found
<1>31. CASE UNCHANGED vars
  BY <1>31 DEF vars
<1> QED
  BY <1>1, <1>2, <1>3, <1>4, <1>5, <1>6, <1>7, <1>8, <1>9, <1>10, <1>11,
      <1>12, <1>13, <1>14, <1>15, <1>16, <1>17, <1>18, <1>19, <1>20, <1>21,
      <1>22, <1>23, <1>24, <1>25, <1>26, <1>27, <1>28, <1>29, <1>30, <1>31 DEF
      Next, Controller

\* What a restore may start was created before.
LEMMA LaboratoryCreated ==
  ASSUME TypeOK, Placed, Flows, Created, [Next]_vars
  PROVE  Created'
<1> USE DEF Placed, Flows, Created, Exceptions, At, Goto, Enter, Record,
    Quiet, Fault, Fails, Raises, containers, client, fixed
<1>1. CASE Preflight
  BY <1>1 DEF Preflight
<1>2. CASE Prepare
  BY <1>2 DEF Prepare, Up
<1>3. CASE Migrate
  BY <1>3 DEF Migrate
<1>4. CASE Application
  BY <1>4, ServicesKnown DEF Application, Up, Base, Outages, Dependencies
<1>5. CASE Launch
  BY <1>5, ServicesKnown DEF Launch, LoadFrame, FirstWait, Outages,
      Dependencies, None
<1>6. CASE Warmup
  BY <1>6 DEF Warmup, None
<1>7. CASE Measure
  BY <1>7 DEF Measure
<1>8. CASE StopLoad
  BY <1>8 DEF StopLoad
<1>9. CASE AwaitLoad
  BY <1>9 DEF AwaitLoad, AfterLoad, Awaits, Holder
<1>10. CASE Drain
  BY <1>10 DEF Drain, None
<1>11. CASE Backlog
  BY <1>11 DEF Backlog
<1>12. CASE StartWorkers
  BY <1>12 DEF StartWorkers, Up
<1>13. CASE Healthy
  BY <1>13 DEF Healthy, None
<1>14. CASE StopService
  BY <1>14 DEF StopService
<1>15. CASE Outage
  BY <1>15 DEF Outage
<1>16. CASE Restore
  BY <1>16 DEF Restore, AfterRestore, RecreatesWorker, None
<1>17. CASE Recreate
  BY <1>17 DEF Recreate, AfterRestore, RecreatesWorker
<1>18. CASE Recovery
  BY <1>18 DEF Recovery
<1>19. CASE Audit
  BY <1>19 DEF Audit
<1>20. CASE Except
  BY <1>20 DEF Except, Armed, Outages
<1>21. CASE Probe
  BY <1>21 DEF Probe, SeemsHealthy
<1>22. CASE Logs
  BY <1>22 DEF Logs
<1>23. CASE StopAll
  BY <1>23 DEF StopAll, Found
<1>24. CASE Summarize
  BY <1>24 DEF Summarize
<1>25. CASE LoadStarts
  BY <1>25 DEF LoadStarts
<1>26. CASE LoadEnds
  BY <1>26 DEF LoadEnds
<1>27. CASE WorkerExits
  BY <1>27 DEF WorkerExits
<1>28. CASE Kill
  BY <1>28 DEF Kill, Over
<1>29. CASE Recover
  BY <1>29 DEF Recover, Command, Over
<1>30. CASE Stop
  BY <1>30 DEF Stop, Command, Over, Found
<1>31. CASE UNCHANGED vars
  BY <1>31 DEF vars
<1> QED
  BY <1>1, <1>2, <1>3, <1>4, <1>5, <1>6, <1>7, <1>8, <1>9, <1>10, <1>11,
      <1>12, <1>13, <1>14, <1>15, <1>16, <1>17, <1>18, <1>19, <1>20, <1>21,
      <1>22, <1>23, <1>24, <1>25, <1>26, <1>27, <1>28, <1>29, <1>30, <1>31 DEF
      Next, Controller

\* No step leaves a live client without a frame that will wait for it, whatever
\* _stop_locust could not look up.
LEMMA LaboratoryClient ==
  ASSUME TypeOK, Placed, Flows, ClientIsHeld, [Next]_vars
  PROVE  ClientIsHeld'
<1> USE DEF Placed, Flows, ClientIsHeld, LoadIsLive, Exceptions, At, Goto,
    Enter, Record, Quiet, Fault, Fails, Raises, containers, client, fixed
<1>1. CASE Preflight
  BY <1>1 DEF Preflight
<1>2. CASE Prepare
  BY <1>2, ServicesKnown DEF Prepare, Up, Dependencies
<1>3. CASE Migrate
  BY <1>3 DEF Migrate
<1>4. CASE Application
  BY <1>4, ServicesKnown DEF Application, Up, Base
<1>5. CASE Launch
  BY <1>5 DEF Launch, LoadFrame, FirstWait, None, Outages, Dependencies
<1>6. CASE Warmup
  BY <1>6 DEF Warmup
<1>7. CASE Measure
  BY <1>7 DEF Measure
<1>8. CASE StopLoad
  BY <1>8 DEF StopLoad
<1>9. CASE AwaitLoad
  BY <1>9 DEF AwaitLoad, AfterLoad, Awaits, Holder, None
<1>10. CASE Drain
  BY <1>10 DEF Drain
<1>11. CASE Backlog
  BY <1>11 DEF Backlog
<1>12. CASE StartWorkers
  BY <1>12, ServicesKnown DEF StartWorkers, Up
<1>13. CASE Healthy
  BY <1>13 DEF Healthy
<1>14. CASE StopService
  BY <1>14 DEF StopService
<1>15. CASE Outage
  BY <1>15 DEF Outage
<1>16. CASE Restore
  <2>1. "locust" \notin {Target} \cup DependsOn(Target)
    BY <1>16 DEF Restore, Target, DependsOn, Outages, Dependencies
  <2>2. "locust" \in running' => "locust" \in running
    BY <1>16, <2>1 DEF Restore
  <2>3. pc' \in {"recreate", "recovery", "except", "stop_load"}
          /\ (pc' = "stop_load" => frame' = "final")
          /\ (pc' = "recovery" \/ frame' = "outage" => frame = "outage") /\ frame' # "step"
    BY <1>16 DEF Restore, AfterRestore
  <2> QED
    BY <1>16, <2>2, <2>3 DEF Restore
<1>17. CASE Recreate
  BY <1>17 DEF Recreate, AfterRestore, RecreatesWorker, DependsOn, Dependencies
<1>18. CASE Recovery
  BY <1>18 DEF Recovery
<1>19. CASE Audit
  BY <1>19 DEF Audit
<1>20. CASE Except
  BY <1>20 DEF Except, Armed
<1>21. CASE Probe
  BY <1>21 DEF Probe, SeemsHealthy
<1>22. CASE Logs
  BY <1>22 DEF Logs
<1>23. CASE StopAll
  BY <1>23 DEF StopAll, Found, TypeOK
<1>24. CASE Summarize
  BY <1>24 DEF Summarize
<1>25. CASE LoadStarts
  BY <1>25 DEF LoadStarts
<1>26. CASE LoadEnds
  BY <1>26 DEF LoadEnds
<1>27. CASE WorkerExits
  BY <1>27 DEF WorkerExits
<1>28. CASE Kill
  BY <1>28 DEF Kill, Over, None
<1>29. CASE Recover
  BY <1>29, ServicesKnown DEF Recover, Command, Over, Dependencies
<1>30. CASE Stop
  BY <1>30 DEF Stop, Command, Over, Found, TypeOK
<1>31. CASE UNCHANGED vars
  BY <1>31 DEF vars
<1> QED
  BY <1>1, <1>2, <1>3, <1>4, <1>5, <1>6, <1>7, <1>8, <1>9, <1>10, <1>11,
      <1>12, <1>13, <1>14, <1>15, <1>16, <1>17, <1>18, <1>19, <1>20, <1>21,
      <1>22, <1>23, <1>24, <1>25, <1>26, <1>27, <1>28, <1>29, <1>30, <1>31 DEF
      Next, Controller

\* A container that survives the cleanup is accounted for: stop_all misses one
\* only when a lookup failed, and what cuts it short is in the timeline.
LEMMA LaboratoryCleaned ==
  ASSUME TypeOK, Placed, CleanedUp, LeftRunningIsExplained, [Next]_vars
  PROVE  CleanedUp' /\ LeftRunningIsExplained'
<1> USE DEF Placed, CleanedUp, LeftRunningIsExplained, Exceptions, At, Goto,
    Enter, Record, Quiet, Fault, Fails, Raises, containers, client, fixed
<1>1. CASE Preflight
  BY <1>1 DEF Preflight
<1>2. CASE Prepare
  BY <1>2 DEF Prepare, Up
<1>3. CASE Migrate
  BY <1>3 DEF Migrate
<1>4. CASE Application
  BY <1>4 DEF Application, Up
<1>5. CASE Launch
  BY <1>5 DEF Launch, LoadFrame, FirstWait, FirstWait
<1>6. CASE Warmup
  BY <1>6 DEF Warmup
<1>7. CASE Measure
  BY <1>7 DEF Measure
<1>8. CASE StopLoad
  BY <1>8 DEF StopLoad
<1>9. CASE AwaitLoad
  BY <1>9 DEF AwaitLoad, AfterLoad, Awaits, Holder
<1>10. CASE Drain
  BY <1>10 DEF Drain
<1>11. CASE Backlog
  BY <1>11 DEF Backlog
<1>12. CASE StartWorkers
  BY <1>12 DEF StartWorkers, Up
<1>13. CASE Healthy
  BY <1>13 DEF Healthy
<1>14. CASE StopService
  BY <1>14 DEF StopService
<1>15. CASE Outage
  BY <1>15 DEF Outage
<1>16. CASE Restore
  BY <1>16 DEF Restore, AfterRestore, RecreatesWorker
<1>17. CASE Recreate
  BY <1>17 DEF Recreate, AfterRestore, RecreatesWorker
<1>18. CASE Recovery
  BY <1>18 DEF Recovery
<1>19. CASE Audit
  BY <1>19 DEF Audit
<1>20. CASE Except
  BY <1>20 DEF Except, Armed
<1>21. CASE Probe
  BY <1>21 DEF Probe, SeemsHealthy
<1>22. CASE Logs
  BY <1>22 DEF Logs
<1>23. CASE StopAll
  BY <1>23 DEF StopAll, Found, TypeOK
<1>24. CASE Summarize
  BY <1>24 DEF Summarize
<1>25. CASE LoadStarts
  BY <1>25 DEF LoadStarts
<1>26. CASE LoadEnds
  BY <1>26 DEF LoadEnds
<1>27. CASE WorkerExits
  BY <1>27 DEF WorkerExits
<1>28. CASE Kill
  BY <1>28 DEF Kill, Over
<1>29. CASE Recover
  BY <1>29 DEF Recover, Command, Over
<1>30. CASE Stop
  BY <1>30 DEF Stop, Command, Over, Found, TypeOK
<1>31. CASE UNCHANGED vars
  BY <1>31 DEF vars
<1> QED
  BY <1>1, <1>2, <1>3, <1>4, <1>5, <1>6, <1>7, <1>8, <1>9, <1>10, <1>11,
      <1>12, <1>13, <1>14, <1>15, <1>16, <1>17, <1>18, <1>19, <1>20, <1>21,
      <1>22, <1>23, <1>24, <1>25, <1>26, <1>27, <1>28, <1>29, <1>30, <1>31 DEF
      Next, Controller

\* The stopped service is up again, or the failure to restore it is on record,
\* when the cleanup begins.
LEMMA LaboratoryOutage ==
  ASSUME TypeOK, Placed, Flows, Created, ClientIsHeld, OutageKnown, RestoredOrReported, [Next]_vars
  PROVE  OutageKnown' /\ RestoredOrReported'
<1> USE DEF Placed, Flows, Created, OutageKnown, RestoredOrReported, Target,
    RecreatesWorker, Over, Exceptions, At, Goto, Enter, Record, Quiet, Fault,
    Fails, Raises, containers, client, fixed
<1>1. CASE Preflight
  BY <1>1 DEF Preflight, Outages, Dependencies
<1>2. CASE Prepare
  BY <1>2 DEF Prepare, Up, Outages, Dependencies
<1>3. CASE Migrate
  BY <1>3 DEF Migrate, Outages, Dependencies
<1>4. CASE Application
  BY <1>4 DEF Application, Up, Outages, Dependencies
<1>5. CASE Launch
  <2>1. frame = "main" /\ pc = "launch" /\ UNCHANGED <<running, scenario>>
    BY <1>5 DEF Launch
  <2>2. "service_stopped" \in events' => "service_stopped" \in events
    BY <1>5, <2>1 DEF Launch
  <2>3. pc' \in {"healthy", "warmup", "prefill", "except"} /\ frame' # "final"
    BY <1>5, <2>1 DEF Launch, LoadFrame, FirstWait
  <2>4. phase # None => phase' # None
    BY <1>5 DEF Launch, FirstWait, None
  <2> QED
    BY <2>1, <2>2, <2>3, <2>4
<1>6. CASE Warmup
  BY <1>6 DEF Warmup, Outages, Dependencies
<1>7. CASE Measure
  BY <1>7 DEF Measure, Outages, Dependencies
<1>8. CASE StopLoad
  BY <1>8 DEF StopLoad, Outages, Dependencies
<1>9. CASE AwaitLoad
  BY <1>9 DEF AwaitLoad, AfterLoad, Awaits, Holder, Outages, Dependencies
<1>10. CASE Drain
  BY <1>10 DEF Drain, Outages, Dependencies
<1>11. CASE Backlog
  BY <1>11 DEF Backlog, Outages, Dependencies
<1>12. CASE StartWorkers
  BY <1>12 DEF StartWorkers, Up, Outages, Dependencies
<1>13. CASE Healthy
  <2>1. CASE Dependencies \subseteq running /\ Enter("outage", "stop_service")
    BY <1>13, <2>1 DEF Healthy, Dependencies, None
  <2>2. CASE UNCHANGED phase /\ Enter("main", "except")
    BY <1>13, <2>2 DEF Healthy
  <2> QED
    BY <1>13, <2>1, <2>2 DEF Healthy
<1>14. CASE StopService
  BY <1>14 DEF StopService, Outages, Dependencies
<1>15. CASE Outage
  BY <1>15 DEF Outage, Outages, Dependencies
<1>16. CASE Restore
  BY <1>16 DEF Restore, AfterRestore, RecreatesWorker, Outages, Dependencies
<1>17. CASE Recreate
  BY <1>17 DEF Recreate, AfterRestore, RecreatesWorker, Outages, Dependencies
<1>18. CASE Recovery
  BY <1>18 DEF Recovery, Outages, Dependencies
<1>19. CASE Audit
  BY <1>19 DEF Audit, Outages, Dependencies
<1>20. CASE Except
  BY <1>20 DEF Except, Armed, Outages, Dependencies
<1>21. CASE Probe
  BY <1>21 DEF Probe, SeemsHealthy, Outages, Dependencies
<1>22. CASE Logs
  BY <1>22 DEF Logs, Outages, Dependencies
<1>23. CASE StopAll
  BY <1>23 DEF StopAll, Found, Outages, Dependencies
<1>24. CASE Summarize
  BY <1>24 DEF Summarize, Outages, Dependencies
<1>25. CASE LoadStarts
  BY <1>25 DEF LoadStarts, Outages, Dependencies
<1>26. CASE LoadEnds
  BY <1>26 DEF LoadEnds, Outages, Dependencies
<1>27. CASE WorkerExits
  <2>1. CASE scenario = "worker"
    BY <1>27, <2>1 DEF WorkerExits
  <2>2. CASE scenario # "worker"
    BY <1>27, <2>2 DEF WorkerExits
  <2> QED
    BY <2>1, <2>2
<1>28. CASE Kill
  BY <1>28 DEF Kill, Over, Outages, Dependencies
<1>29. CASE Recover
  BY <1>29 DEF Recover, Command, Over, Outages, Dependencies
<1>30. CASE Stop
  BY <1>30 DEF Stop, Command, Over, Found, Outages, Dependencies
<1>31. CASE UNCHANGED vars
  BY <1>31 DEF vars
<1> QED
  BY <1>1, <1>2, <1>3, <1>4, <1>5, <1>6, <1>7, <1>8, <1>9, <1>10, <1>11,
      <1>12, <1>13, <1>14, <1>15, <1>16, <1>17, <1>18, <1>19, <1>20, <1>21,
      <1>22, <1>23, <1>24, <1>25, <1>26, <1>27, <1>28, <1>29, <1>30, <1>31 DEF
      Next, Controller

\* The recovery begins only after the worker was recreated over a running
\* dependency.
LEMMA LaboratoryFresh ==
  ASSUME TypeOK, Placed, Flows, OutageKnown, RecoveryHasAFreshWorker, [Next]_vars
  PROVE  RecoveryHasAFreshWorker'
<1> USE DEF Placed, Flows, OutageKnown, RecoveryHasAFreshWorker, Target,
    Exceptions, At, Goto, Enter, Record, Quiet, Fault, Fails, Raises,
    containers, client, fixed
<1>1. CASE Preflight
  BY <1>1 DEF Preflight
<1>2. CASE Prepare
  BY <1>2 DEF Prepare, Up
<1>3. CASE Migrate
  BY <1>3 DEF Migrate
<1>4. CASE Application
  BY <1>4 DEF Application, Up
<1>5. CASE Launch
  BY <1>5 DEF Launch, LoadFrame, FirstWait
<1>6. CASE Warmup
  BY <1>6 DEF Warmup
<1>7. CASE Measure
  BY <1>7 DEF Measure
<1>8. CASE StopLoad
  BY <1>8 DEF StopLoad
<1>9. CASE AwaitLoad
  BY <1>9 DEF AwaitLoad, AfterLoad, Awaits, Holder
<1>10. CASE Drain
  BY <1>10 DEF Drain
<1>11. CASE Backlog
  BY <1>11 DEF Backlog
<1>12. CASE StartWorkers
  BY <1>12 DEF StartWorkers, Up
<1>13. CASE Healthy
  BY <1>13 DEF Healthy
<1>14. CASE StopService
  BY <1>14 DEF StopService
<1>15. CASE Outage
  BY <1>15 DEF Outage
<1>16. CASE Restore
  BY <1>16 DEF Restore, AfterRestore, RecreatesWorker
<1>17. CASE Recreate
  BY <1>17 DEF Recreate, AfterRestore, RecreatesWorker
<1>18. CASE Recovery
  BY <1>18 DEF Recovery
<1>19. CASE Audit
  BY <1>19 DEF Audit
<1>20. CASE Except
  BY <1>20 DEF Except, Armed
<1>21. CASE Probe
  BY <1>21 DEF Probe, SeemsHealthy
<1>22. CASE Logs
  BY <1>22 DEF Logs
<1>23. CASE StopAll
  BY <1>23 DEF StopAll, Found
<1>24. CASE Summarize
  BY <1>24 DEF Summarize
<1>25. CASE LoadStarts
  BY <1>25 DEF LoadStarts
<1>26. CASE LoadEnds
  BY <1>26 DEF LoadEnds
<1>27. CASE WorkerExits
  BY <1>27 DEF WorkerExits
<1>28. CASE Kill
  BY <1>28 DEF Kill, Over
<1>29. CASE Recover
  BY <1>29 DEF Recover, Command, Over
<1>30. CASE Stop
  BY <1>30 DEF Stop, Command, Over, Found
<1>31. CASE UNCHANGED vars
  BY <1>31 DEF vars
<1> QED
  BY <1>1, <1>2, <1>3, <1>4, <1>5, <1>6, <1>7, <1>8, <1>9, <1>10, <1>11,
      <1>12, <1>13, <1>14, <1>15, <1>16, <1>17, <1>18, <1>19, <1>20, <1>21,
      <1>22, <1>23, <1>24, <1>25, <1>26, <1>27, <1>28, <1>29, <1>30, <1>31 DEF
      Next, Controller

\* What TypeOK says of the variables that Raises may change.
ControlTyped ==
  /\ pc \in Labels /\ frame \in Frames
  /\ exc \in Exceptions \cup {None}
  /\ events \subseteq {"laboratory_ready", "failure_start", "service_stopped",
        "dependency_restored", "worker_restarted", "worker_drain_started",
        "experiment_complete", "experiment_interrupted", "automatic_restore_failed",
        "log_collection_failed", "automatic_stop_failed",
        "manual_recovery_complete", "manual_stop"}
  /\ lost \subseteq {"restore", "cleanup", "lookup"}

\* Whichever handler takes over, it leaves them typed.
LEMMA RaisesTyped ==
  ASSUME TypeOK, NEW e \in Exceptions, Raises(e)
  PROVE  ControlTyped'
<1> USE DEF TypeOK, Enter, Record, ControlTyped, Labels, Frames, Exceptions,
    None
<1>1. CASE frame = "step" /\ pc \notin {"stop_load", "await_load"}
  BY <1>1 DEF Raises
<1>2. CASE frame = "outage" /\ pc \in {"stop_service", "outage"}
  BY <1>2 DEF Raises
<1>3. CASE frame = "except"
  BY <1>3 DEF Raises
<1>4. CASE frame = "final"
  BY <1>4 DEF Raises
<1>5. CASE /\ ~(frame = "step" /\ pc \notin {"stop_load", "await_load"})
           /\ ~(frame = "outage" /\ pc \in {"stop_service", "outage"})
           /\ frame \notin {"except", "final"}
  BY <1>5 DEF Raises
<1> QED
  BY <1>1, <1>2, <1>3, <1>4, <1>5

\* The budget of faults is never overdrawn.
LEMMA FaultTyped ==
  ASSUME TypeOK, NEW e, Fault(e)
  PROVE  faults' \in 0..MaxFaults
BY BoundsAssumption DEF TypeOK, Fault

\* The statement, the frame, the exception and what is recorded keep their types.
LEMMA LaboratoryControlTyped ==
  ASSUME TypeOK, [Next]_vars
  PROVE  ControlTyped'
<1> USE DEF TypeOK, ControlTyped, Labels, Frames, None, Exceptions, At, Goto,
    Enter, Record, Quiet, Fails, containers, client, fixed
<1>1. CASE Preflight
  BY <1>1, RaisesTyped DEF Preflight
<1>2. CASE Prepare
  BY <1>2, RaisesTyped DEF Prepare, Up
<1>3. CASE Migrate
  BY <1>3, RaisesTyped DEF Migrate
<1>4. CASE Application
  BY <1>4, RaisesTyped DEF Application, Up
<1>5. CASE Launch
  BY <1>5, RaisesTyped DEF Launch, LoadFrame, FirstWait
<1>6. CASE Warmup
  BY <1>6, RaisesTyped DEF Warmup
<1>7. CASE Measure
  BY <1>7, RaisesTyped DEF Measure
<1>8. CASE StopLoad
  BY <1>8, RaisesTyped DEF StopLoad
<1>9. CASE AwaitLoad
  BY <1>9, RaisesTyped DEF AwaitLoad, AfterLoad, Awaits, Holder
<1>10. CASE Drain
  BY <1>10, RaisesTyped DEF Drain
<1>11. CASE Backlog
  BY <1>11, RaisesTyped DEF Backlog
<1>12. CASE StartWorkers
  BY <1>12, RaisesTyped DEF StartWorkers, Up
<1>13. CASE Healthy
  BY <1>13, RaisesTyped DEF Healthy
<1>14. CASE StopService
  BY <1>14, RaisesTyped DEF StopService
<1>15. CASE Outage
  BY <1>15, RaisesTyped DEF Outage
<1>16. CASE Restore
  BY <1>16, RaisesTyped DEF Restore, AfterRestore, RecreatesWorker
<1>17. CASE Recreate
  BY <1>17, RaisesTyped DEF Recreate, AfterRestore, RecreatesWorker
<1>18. CASE Recovery
  BY <1>18, RaisesTyped DEF Recovery
<1>19. CASE Audit
  BY <1>19, RaisesTyped DEF Audit
<1>20. CASE Except
  BY <1>20, RaisesTyped DEF Except, Armed
<1>21. CASE Probe
  BY <1>21, RaisesTyped DEF Probe, SeemsHealthy
<1>22. CASE Logs
  BY <1>22, RaisesTyped DEF Logs
<1>23. CASE StopAll
  BY <1>23, RaisesTyped DEF StopAll, Found
<1>24. CASE Summarize
  BY <1>24, RaisesTyped DEF Summarize
<1>25. CASE LoadStarts
  BY <1>25, RaisesTyped DEF LoadStarts
<1>26. CASE LoadEnds
  BY <1>26, RaisesTyped DEF LoadEnds
<1>27. CASE WorkerExits
  BY <1>27, RaisesTyped DEF WorkerExits
<1>28. CASE Kill
  BY <1>28, RaisesTyped DEF Kill, Over
<1>29. CASE Recover
  BY <1>29, RaisesTyped DEF Recover, Command, Over
<1>30. CASE Stop
  BY <1>30, RaisesTyped DEF Stop, Command, Over, Found
<1>31. CASE UNCHANGED vars
  BY <1>31 DEF vars
<1> QED
  BY <1>1, <1>2, <1>3, <1>4, <1>5, <1>6, <1>7, <1>8, <1>9, <1>10, <1>11,
      <1>12, <1>13, <1>14, <1>15, <1>16, <1>17, <1>18, <1>19, <1>20, <1>21,
      <1>22, <1>23, <1>24, <1>25, <1>26, <1>27, <1>28, <1>29, <1>30, <1>31 DEF
      Next, Controller

\* So do the counters; left is positive wherever a step takes one.
LEMMA LaboratoryCounted ==
  ASSUME TypeOK, Placed, [Next]_vars
  PROVE  (faults \in 0..MaxFaults /\ commands \in 0..MaxCommands /\ left \in 0..Steps)'
<1> USE DEF TypeOK, Placed, Exceptions, At, Goto, Enter, Record, Quiet, Fails,
    containers, client, fixed
<1>1. CASE Preflight
  BY <1>1, FaultTyped, BoundsAssumption DEF Preflight
<1>2. CASE Prepare
  BY <1>2, FaultTyped, BoundsAssumption DEF Prepare, Up
<1>3. CASE Migrate
  BY <1>3, FaultTyped, BoundsAssumption DEF Migrate
<1>4. CASE Application
  BY <1>4, FaultTyped, BoundsAssumption DEF Application, Up
<1>5. CASE Launch
  BY <1>5, FaultTyped, BoundsAssumption DEF Launch, LoadFrame, FirstWait
<1>6. CASE Warmup
  BY <1>6, FaultTyped, BoundsAssumption DEF Warmup
<1>7. CASE Measure
  BY <1>7, FaultTyped, BoundsAssumption DEF Measure
<1>8. CASE StopLoad
  BY <1>8, FaultTyped, BoundsAssumption DEF StopLoad
<1>9. CASE AwaitLoad
  BY <1>9, FaultTyped, BoundsAssumption DEF AwaitLoad, AfterLoad, Awaits, Holder
<1>10. CASE Drain
  BY <1>10, FaultTyped, BoundsAssumption DEF Drain
<1>11. CASE Backlog
  BY <1>11, FaultTyped, BoundsAssumption DEF Backlog
<1>12. CASE StartWorkers
  BY <1>12, FaultTyped, BoundsAssumption DEF StartWorkers, Up
<1>13. CASE Healthy
  BY <1>13, FaultTyped, BoundsAssumption DEF Healthy
<1>14. CASE StopService
  BY <1>14, FaultTyped, BoundsAssumption DEF StopService
<1>15. CASE Outage
  BY <1>15, FaultTyped, BoundsAssumption DEF Outage
<1>16. CASE Restore
  BY <1>16, FaultTyped, BoundsAssumption DEF Restore, AfterRestore,
      RecreatesWorker
<1>17. CASE Recreate
  BY <1>17, FaultTyped, BoundsAssumption DEF Recreate, AfterRestore,
      RecreatesWorker
<1>18. CASE Recovery
  BY <1>18, FaultTyped, BoundsAssumption DEF Recovery
<1>19. CASE Audit
  BY <1>19, FaultTyped, BoundsAssumption DEF Audit
<1>20. CASE Except
  BY <1>20, FaultTyped, BoundsAssumption DEF Except, Armed
<1>21. CASE Probe
  BY <1>21, FaultTyped, BoundsAssumption DEF Probe, SeemsHealthy
<1>22. CASE Logs
  BY <1>22, FaultTyped, BoundsAssumption DEF Logs
<1>23. CASE StopAll
  BY <1>23, FaultTyped, BoundsAssumption DEF StopAll, Found
<1>24. CASE Summarize
  BY <1>24, FaultTyped, BoundsAssumption DEF Summarize
<1>25. CASE LoadStarts
  BY <1>25, FaultTyped, BoundsAssumption DEF LoadStarts
<1>26. CASE LoadEnds
  BY <1>26, FaultTyped, BoundsAssumption DEF LoadEnds
<1>27. CASE WorkerExits
  BY <1>27, FaultTyped, BoundsAssumption DEF WorkerExits
<1>28. CASE Kill
  BY <1>28, FaultTyped, BoundsAssumption DEF Kill, Over
<1>29. CASE Recover
  BY <1>29, FaultTyped, BoundsAssumption DEF Recover, Command, Over
<1>30. CASE Stop
  BY <1>30, FaultTyped, BoundsAssumption DEF Stop, Command, Over, Found
<1>31. CASE UNCHANGED vars
  BY <1>31 DEF vars
<1> QED
  BY <1>1, <1>2, <1>3, <1>4, <1>5, <1>6, <1>7, <1>8, <1>9, <1>10, <1>11,
      <1>12, <1>13, <1>14, <1>15, <1>16, <1>17, <1>18, <1>19, <1>20, <1>21,
      <1>22, <1>23, <1>24, <1>25, <1>26, <1>27, <1>28, <1>29, <1>30, <1>31 DEF
      Next, Controller

\* Only known services are created, and only created ones run: a restore or a
\* recreation starts containers that exist.
LEMMA LaboratoryContainers ==
  ASSUME TypeOK, Placed, Flows, Created, [Next]_vars
  PROVE  created' \subseteq Services /\ running' \subseteq created'
<1> USE DEF TypeOK, Placed, Flows, Created, At, Goto, Enter, Record, Quiet,
    Fails, containers, client, fixed
<1>1. CASE Preflight
  BY <1>1 DEF Preflight
<1>2. CASE Prepare
  BY <1>2 DEF Prepare, Up, Services, Dependencies
<1>3. CASE Migrate
  BY <1>3 DEF Migrate
<1>4. CASE Application
  <2>1. Base \subseteq Services
    BY ServicesKnown DEF Base, Services
  <2> QED
    BY <1>4, <2>1 DEF Application, Up
<1>5. CASE Launch
  BY <1>5 DEF Launch, LoadFrame, FirstWait
<1>6. CASE Warmup
  BY <1>6 DEF Warmup
<1>7. CASE Measure
  BY <1>7 DEF Measure
<1>8. CASE StopLoad
  BY <1>8 DEF StopLoad
<1>9. CASE AwaitLoad
  BY <1>9 DEF AwaitLoad, AfterLoad, Awaits, Holder
<1>10. CASE Drain
  BY <1>10 DEF Drain
<1>11. CASE Backlog
  BY <1>11 DEF Backlog
<1>12. CASE StartWorkers
  BY <1>12, ServicesKnown DEF StartWorkers, Up, Services, Dependencies
<1>13. CASE Healthy
  BY <1>13 DEF Healthy
<1>14. CASE StopService
  BY <1>14 DEF StopService
<1>15. CASE Outage
  BY <1>15 DEF Outage
<1>16. CASE Restore
  BY <1>16 DEF Restore, AfterRestore, RecreatesWorker, Target, DependsOn,
      Outages, Services, Dependencies
<1>17. CASE Recreate
  BY <1>17 DEF Recreate, AfterRestore, RecreatesWorker, DependsOn, Services,
      Dependencies
<1>18. CASE Recovery
  BY <1>18 DEF Recovery
<1>19. CASE Audit
  BY <1>19 DEF Audit
<1>20. CASE Except
  BY <1>20 DEF Except, Armed
<1>21. CASE Probe
  BY <1>21 DEF Probe, SeemsHealthy
<1>22. CASE Logs
  BY <1>22 DEF Logs
<1>23. CASE StopAll
  BY <1>23 DEF StopAll, Found
<1>24. CASE Summarize
  BY <1>24 DEF Summarize
<1>25. CASE LoadStarts
  BY <1>25 DEF LoadStarts, Services, Dependencies
<1>26. CASE LoadEnds
  BY <1>26 DEF LoadEnds
<1>27. CASE WorkerExits
  BY <1>27 DEF WorkerExits
<1>28. CASE Kill
  BY <1>28 DEF Kill, Over
<1>29. CASE Recover
  BY <1>29, ServicesKnown DEF Recover, Command, Over, Services, Dependencies
<1>30. CASE Stop
  BY <1>30 DEF Stop, Command, Over, Found
<1>31. CASE UNCHANGED vars
  BY <1>31 DEF vars
<1> QED
  BY <1>1, <1>2, <1>3, <1>4, <1>5, <1>6, <1>7, <1>8, <1>9, <1>10, <1>11,
      <1>12, <1>13, <1>14, <1>15, <1>16, <1>17, <1>18, <1>19, <1>20, <1>21,
      <1>22, <1>23, <1>24, <1>25, <1>26, <1>27, <1>28, <1>29, <1>30, <1>31 DEF
      Next, Controller

\* And so do the variables of the client, the phase and the arguments.
LEMMA LaboratoryRest ==
  ASSUME TypeOK, [Next]_vars
  PROVE  /\ scenario' \in Scenarios /\ replicas' \in 1..2
         /\ load' \in {None, "launching", "running", "exited"}
         /\ handle' \in {None, "step", "main"}
         /\ phase' \in {None, "warmup", "measure", "prefill", "drain", "healthy",
                        "failure", "recovery"}
         /\ fresh' \in BOOLEAN
<1> USE DEF TypeOK, None, At, Goto, Enter, Record, Quiet, Fails, containers,
    client, fixed
<1>1. CASE Preflight
  BY <1>1 DEF Preflight
<1>2. CASE Prepare
  BY <1>2 DEF Prepare, Up
<1>3. CASE Migrate
  BY <1>3 DEF Migrate
<1>4. CASE Application
  BY <1>4 DEF Application, Up
<1>5. CASE Launch
  BY <1>5 DEF Launch, LoadFrame, FirstWait
<1>6. CASE Warmup
  BY <1>6 DEF Warmup
<1>7. CASE Measure
  BY <1>7 DEF Measure
<1>8. CASE StopLoad
  BY <1>8 DEF StopLoad
<1>9. CASE AwaitLoad
  BY <1>9 DEF AwaitLoad, AfterLoad, Awaits, Holder
<1>10. CASE Drain
  BY <1>10 DEF Drain
<1>11. CASE Backlog
  BY <1>11 DEF Backlog
<1>12. CASE StartWorkers
  BY <1>12 DEF StartWorkers, Up
<1>13. CASE Healthy
  BY <1>13 DEF Healthy
<1>14. CASE StopService
  BY <1>14 DEF StopService
<1>15. CASE Outage
  BY <1>15 DEF Outage
<1>16. CASE Restore
  BY <1>16 DEF Restore, AfterRestore, RecreatesWorker
<1>17. CASE Recreate
  <2>1. fresh' \in BOOLEAN
    <3>1. fresh' = (Target \in running) \/ UNCHANGED fresh
      BY <1>17 DEF Recreate
    <3>2. (Target \in running) \in BOOLEAN
      OBVIOUS
    <3> QED
      BY <3>1, <3>2
  <2> QED
    BY <1>17, <2>1 DEF Recreate, AfterRestore
<1>18. CASE Recovery
  BY <1>18 DEF Recovery
<1>19. CASE Audit
  BY <1>19 DEF Audit
<1>20. CASE Except
  BY <1>20 DEF Except, Armed
<1>21. CASE Probe
  BY <1>21 DEF Probe, SeemsHealthy
<1>22. CASE Logs
  BY <1>22 DEF Logs
<1>23. CASE StopAll
  BY <1>23 DEF StopAll, Found
<1>24. CASE Summarize
  BY <1>24 DEF Summarize
<1>25. CASE LoadStarts
  BY <1>25 DEF LoadStarts
<1>26. CASE LoadEnds
  BY <1>26 DEF LoadEnds
<1>27. CASE WorkerExits
  BY <1>27 DEF WorkerExits
<1>28. CASE Kill
  BY <1>28 DEF Kill, Over
<1>29. CASE Recover
  BY <1>29 DEF Recover, Command, Over
<1>30. CASE Stop
  BY <1>30 DEF Stop, Command, Over, Found
<1>31. CASE UNCHANGED vars
  BY <1>31 DEF vars
<1> QED
  BY <1>1, <1>2, <1>3, <1>4, <1>5, <1>6, <1>7, <1>8, <1>9, <1>10, <1>11,
      <1>12, <1>13, <1>14, <1>15, <1>16, <1>17, <1>18, <1>19, <1>20, <1>21,
      <1>22, <1>23, <1>24, <1>25, <1>26, <1>27, <1>28, <1>29, <1>30, <1>31 DEF
      Next, Controller

-----------------------------------------------------------------------------
(* Progress *)

\* How far the controller is from the end of the run: a handler is nearer to it
\* than any statement it takes over from, and only a load step goes back.
Position ==
  CASE pc = "preflight" -> 32
    [] pc = "prepare" -> 31
    [] pc = "migrate" -> 30
    [] pc = "application" -> 29
    [] pc = "warmup" -> 28
    [] pc \in {"measure", "prefill"} -> 27
    [] pc = "stop_load" /\ frame = "step" -> 26
    [] pc = "await_load" /\ frame = "step" -> 25
    [] pc = "launch" -> 24
    [] pc = "healthy" -> 23
    [] pc = "stop_service" -> 22
    [] pc = "outage" -> 21
    [] pc = "restore" /\ frame = "outage" -> 20
    [] pc = "recreate" /\ frame = "outage" -> 19
    [] pc = "recovery" -> 18
    [] pc = "backlog" -> 17
    [] pc = "workers" -> 16
    [] pc = "drain" -> 15
    [] pc = "stop_load" /\ frame = "main" -> 14
    [] pc = "await_load" /\ frame = "main" -> 13
    [] pc = "audit" -> 12
    [] pc = "except" -> 11
    [] pc = "probe" -> 10
    [] pc = "restore" /\ frame = "except" -> 9
    [] pc = "recreate" /\ frame = "except" -> 8
    [] pc = "stop_load" /\ frame = "final" -> 7
    [] pc = "await_load" /\ frame = "final" -> 6
    [] pc = "logs" -> 5
    [] pc = "stop_all" -> 4
    [] pc = "summarize" -> 3
    [] OTHER -> 0

Remaining == 40 * left + Position

\* Every step of the controller goes on, whatever it meets: there is no way back
\* from a handler, and a load step that begins uses up one of those left.
LEMMA ControllerAdvances ==
  ASSUME TypeOK, Placed, Flows, Controller
  PROVE  Remaining' < Remaining
<1> USE DEF Placed, Remaining, Position, Exceptions, At, Goto, Enter, Record,
    Quiet, Fault, Fails, Raises, containers, client, fixed
<1>1. CASE Preflight
  BY <1>1, BoundsAssumption DEF TypeOK, Preflight
<1>2. CASE Prepare
  BY <1>2, BoundsAssumption DEF TypeOK, Prepare, Up
<1>3. CASE Migrate
  BY <1>3, BoundsAssumption DEF TypeOK, Migrate
<1>4. CASE Application
  BY <1>4, BoundsAssumption DEF TypeOK, Application, Up
<1>5. CASE Launch
  BY <1>5, BoundsAssumption DEF TypeOK, Launch, LoadFrame, FirstWait
<1>6. CASE Warmup
  BY <1>6, BoundsAssumption DEF TypeOK, Warmup
<1>7. CASE Measure
  BY <1>7, BoundsAssumption DEF TypeOK, Measure
<1>8. CASE StopLoad
  BY <1>8, BoundsAssumption DEF TypeOK, StopLoad
<1>9. CASE AwaitLoad
  BY <1>9, BoundsAssumption DEF TypeOK, AwaitLoad, AfterLoad, Awaits, Holder
<1>10. CASE Drain
  BY <1>10, BoundsAssumption DEF TypeOK, Drain
<1>11. CASE Backlog
  BY <1>11, BoundsAssumption DEF TypeOK, Backlog
<1>12. CASE StartWorkers
  BY <1>12, BoundsAssumption DEF TypeOK, StartWorkers, Up
<1>13. CASE Healthy
  BY <1>13, BoundsAssumption DEF TypeOK, Healthy
<1>14. CASE StopService
  BY <1>14, BoundsAssumption DEF TypeOK, StopService
<1>15. CASE Outage
  BY <1>15, BoundsAssumption DEF TypeOK, Outage
<1>16. CASE Restore
  BY <1>16, BoundsAssumption DEF TypeOK, Restore, AfterRestore, RecreatesWorker
<1>17. CASE Recreate
  BY <1>17, BoundsAssumption DEF TypeOK, Recreate, AfterRestore, RecreatesWorker
<1>18. CASE Recovery
  BY <1>18, BoundsAssumption DEF TypeOK, Recovery
<1>19. CASE Audit
  BY <1>19, BoundsAssumption DEF TypeOK, Audit
<1>20. CASE Except
  BY <1>20, BoundsAssumption DEF TypeOK, Except, Armed
<1>21. CASE Probe
  BY <1>21, BoundsAssumption DEF TypeOK, Probe, SeemsHealthy
<1>22. CASE Logs
  BY <1>22, BoundsAssumption DEF TypeOK, Logs
<1>23. CASE StopAll
  BY <1>23, BoundsAssumption DEF TypeOK, StopAll, Found
<1>24. CASE Summarize
  BY <1>24, BoundsAssumption DEF TypeOK, Summarize
<1> QED
  BY <1>1, <1>2, <1>3, <1>4, <1>5, <1>6, <1>7, <1>8, <1>9, <1>10, <1>11,
      <1>12, <1>13, <1>14, <1>15, <1>16, <1>17, <1>18, <1>19, <1>20, <1>21,
      <1>22, <1>23, <1>24 DEF Controller

\* Locust, the worker, a kill and the operator take nothing of that back.
LEMMA OthersKeepProgress ==
  ASSUME TypeOK,
         LoadStarts \/ LoadEnds \/ WorkerExits \/ Kill \/ Recover \/ Stop \/ UNCHANGED vars
  PROVE  Remaining' <= Remaining
<1>1. left \in Nat /\ Position \in Nat
  BY BoundsAssumption DEF TypeOK, Position
<1>2. CASE LoadStarts \/ LoadEnds \/ WorkerExits \/ UNCHANGED vars
  BY <1>1, <1>2 DEF LoadStarts, LoadEnds, WorkerExits, client, fixed, vars,
      Remaining, Position
<1>3. CASE Kill \/ Recover \/ Stop
  <2>1. UNCHANGED left /\ (UNCHANGED <<pc, frame>> \/ pc' \in {"killed", "recovered", "stopped"})
    BY <1>3 DEF Kill, Recover, Stop, Command
  <2>2. Position' \in {Position, 0}
    <3>1. CASE UNCHANGED <<pc, frame>>
      BY <3>1 DEF Position
    <3>2. CASE pc' \in {"killed", "recovered", "stopped"}
      BY <3>2 DEF Position
    <3> QED
      BY <2>1, <3>1, <3>2
  <2>3. left' = left
    BY <2>1
  <2>4. \A a, b, c \in Nat : c \in {b, 0} => 40 * a + c <= 40 * a + b
    OBVIOUS
  <2>5. Position' \in Nat
    BY <1>1, <2>2
  <2>6. 40 * left + Position' <= 40 * left + Position
    BY <1>1, <2>2, <2>4, <2>5
  <2> QED
    BY <2>3, <2>6 DEF Remaining
<1> QED
  BY <1>2, <1>3

-----------------------------------------------------------------------------
(* The invariant *)

\* A run begins with nothing created, nothing running and no client.
LEMMA LaboratoryBegins == Init => LaboratoryInv
<1> SUFFICES ASSUME Init
             PROVE  LaboratoryInv
  OBVIOUS
<1>1. replicas \in 1..2
  BY DEF Init, AllowedReplicas
<1>2. left \in 0..Steps /\ left > 0
  BY BoundsAssumption DEF Init
<1>3. 0 \in 0..MaxFaults /\ 0 \in 0..MaxCommands
  BY BoundsAssumption
<1>4. TypeOK
  BY <1>1, <1>2, <1>3 DEF Init, TypeOK, Labels, Frames, Exceptions, None
<1>5. Placed /\ Flows /\ Created /\ ClientIsHeld /\ CleanedUp /\ OutageKnown
  BY <1>2 DEF Init, Placed, Flows, Created, ClientIsHeld, LoadIsLive,
      CleanedUp, OutageKnown, None
<1>6. LeftRunningIsExplained /\ RestoredOrReported /\ RecoveryHasAFreshWorker
  BY DEF Init, LeftRunningIsExplained, RestoredOrReported,
      RecoveryHasAFreshWorker
<1> QED
  BY <1>4, <1>5, <1>6 DEF LaboratoryInv

\* Every step of the controller, of Locust, of the worker and of the operator
\* keeps it.
LEMMA LaboratoryStep == LaboratoryInv /\ [Next]_vars => LaboratoryInv'
<1> SUFFICES ASSUME LaboratoryInv, [Next]_vars
             PROVE  LaboratoryInv'
  OBVIOUS
<1> USE DEF LaboratoryInv
<1>1. TypeOK'
  BY LaboratoryControlTyped, LaboratoryCounted, LaboratoryContainers,
      LaboratoryRest
  DEF TypeOK, ControlTyped
<1>2. Placed' /\ Flows'
  BY LaboratoryPlaced
<1>3. Created'
  BY LaboratoryCreated
<1>4. ClientIsHeld'
  BY LaboratoryClient
<1>5. CleanedUp' /\ LeftRunningIsExplained'
  BY LaboratoryCleaned
<1>6. OutageKnown' /\ RestoredOrReported'
  BY LaboratoryOutage
<1>7. RecoveryHasAFreshWorker'
  BY LaboratoryFresh
<1> QED
  BY <1>1, <1>2, <1>3, <1>4, <1>5, <1>6, <1>7

\* It holds in every state of a run.
LEMMA LaboratoryInvariant == Spec => []LaboratoryInv
  BY LaboratoryBegins, LaboratoryStep, PTL DEF Spec

-----------------------------------------------------------------------------
(* Theorems *)

\* Every variable of the laboratory keeps its type; in particular the
\* controller never starts or stops a container it has not created, and never
\* launches a load step when none is left.
THEOREM LaboratoryTypes == Spec => []TypeOK
<1>1. LaboratoryInv => TypeOK
  BY DEF LaboratoryInv
<1> QED
  BY <1>1, LaboratoryInvariant, PTL

\* Whatever fails, times out or is interrupted, and however often, the controller
\* comes nearer to the end of the run with each of its statements and nothing
\* takes it back: no run is endless (execute, _restore, _stop_locust).
THEOREM RunsAreBounded ==
  Spec => /\ [](Remaining \in Nat)
          /\ [][IF Controller THEN Remaining' < Remaining
                               ELSE Remaining' <= Remaining]_vars
<1> DEFINE Advances == IF Controller THEN Remaining' < Remaining
                                     ELSE Remaining' <= Remaining
<1>1. LaboratoryInv => Remaining \in Nat
  BY BoundsAssumption DEF LaboratoryInv, TypeOK, Remaining, Position
<1>2. LaboratoryInv /\ [Next]_vars => [Advances]_vars
  BY ControllerAdvances, OthersKeepProgress DEF LaboratoryInv, Next
<1> QED
  BY <1>1, <1>2, LaboratoryInvariant, PTL DEF Spec

\* The audit of a run counts rows and blobs that no client can still add to, in
\* every scenario, for any number of load steps and of faults (_stop_locust).
THEOREM LoadEndsFirst == Spec => []LoadEndsBeforeAudit
<1>1. LaboratoryInv => LoadEndsBeforeAudit
  BY DEF LaboratoryInv, ClientIsHeld, LoadIsLive, LoadEndsBeforeAudit
<1> QED
  BY <1>1, LaboratoryInvariant, PTL

\* A container that a finished run has left running is explained by the timeline
\* or by a failed lookup (execute, _stop_all, _existing_services).
THEOREM LeftoversAreExplained == Spec => []LeftRunningIsExplained
<1>1. LaboratoryInv => LeftRunningIsExplained
  BY DEF LaboratoryInv
<1> QED
  BY <1>1, LaboratoryInvariant, PTL

\* However often the outage, its restore and the automatic restore fail, the
\* cleanup begins with the service running or the failure on record (execute's
\* handlers, _restore).
THEOREM OutageIsUndone == Spec => []RestoredOrReported
<1>1. LaboratoryInv => RestoredOrReported
  BY DEF LaboratoryInv
<1> QED
  BY <1>1, LaboratoryInvariant, PTL

\* The recovery of broker or database is measured with a worker created after
\* the service was back (_restore).
THEOREM RecoveryMeasuresANewWorker == Spec => []RecoveryHasAFreshWorker
<1>1. LaboratoryInv => RecoveryHasAFreshWorker
  BY DEF LaboratoryInv
<1> QED
  BY <1>1, LaboratoryInvariant, PTL

=============================================================================
