\* Two uploads, two faults, and a reconciliation beside them.
SPECIFICATION Spec
CONSTANTS
  Requests = {r1, r2}
  BlockCount = 2
  RetryTotal = 1
  MaxFaults = 2
SYMMETRY Symmetry
INVARIANTS
  AcknowledgedIsDurable
  RegisteredIsWhole
  RefusedLeavesNothing
  LeftoversAreReported
PROPERTIES
  RegisteredIsNoOrphan
  ImplementsService
