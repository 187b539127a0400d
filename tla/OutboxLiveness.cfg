\* No event is forgotten: two workers share a backlog of two events in batches
\* of two, and nobody requeues.
SPECIFICATION FairSpec
CONSTANTS
  Workers = {w1, w2}
  Operators = {}
  Events = {1, 2}
  MaxAttempts = 2
  BatchSize = 2
  MaxFaults = 1
  None = None
INVARIANTS
  EachFaultCostsOneCopy
PROPERTIES
  EveryEventSettles
