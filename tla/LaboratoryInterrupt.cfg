SPECIFICATION Spec
CONSTANTS
  Scenarios <- OneFailure
  Steps = 2
  Faults <- Interrupts
  MaxFaults = 1
  MaxCommands = 0
CHECK_DEADLOCK FALSE
INVARIANT InterruptStopsContainers
