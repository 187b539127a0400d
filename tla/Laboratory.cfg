SPECIFICATION FairSpec
CONSTANTS
  Scenarios <- TestScenarios
  Steps = 2
  Faults <- Exceptions
  MaxFaults = 2
  MaxCommands = 1
CHECK_DEADLOCK FALSE
INVARIANTS
  LoadEndsBeforeAudit
  LeftRunningIsExplained
  RestoredOrReported
  RecoveryHasAFreshWorker
PROPERTY RunEnds
