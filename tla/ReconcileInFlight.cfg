\* An upload in flight is reported as an orphan and registered afterwards.
SPECIFICATION Spec
CONSTANTS
  Requests = {r1}
  BlockCount = 1
  RetryTotal = 0
  MaxFaults = 0
INVARIANTS
  OrphansStayUnregistered
