\* Two workers, which may end and be started again, retry one event; the delay
\* doubles once and is then capped.
SPECIFICATION Spec
CONSTANTS
  Workers = {w1, w2}
  Events = {e1}
  MaxAttempts = 3
  Backoff = 1
  MaxDelay = 3
  MaxTime = 6
  None = None
SYMMETRY Symmetry
PROPERTIES
  AttemptsAreSpaced
CHECK_DEADLOCK FALSE
