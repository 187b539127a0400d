---------------------------- MODULE MCLaboratory ----------------------------
(***************************************************************************)
(* Instances of Laboratory: every scenario with two faults, and runs that  *)
(* meet one interrupt and nothing else.                                    *)
(***************************************************************************)
EXTENDS Laboratory

TestScenarios == {"rabbitmq", "postgres", "worker", "progressive", "worker-scale", "api-scale"}
OneFailure == {"rabbitmq"}
Interrupts == {"interrupt"}
=============================================================================
