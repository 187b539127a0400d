\* Two uploads, a query and a scrape meet an API process that has just started;
\* at its end three calls of shutdown(), one of them the interpreter's, meet an
\* exporter that may hang.
SPECIFICATION ProcessFairSpec
CONSTANTS
  Posts = {p1, p2}
  Gets = {g1}
  Scrapes = {s1}
  MaxFaults = 2
  None = None
  Callers = {lifespan, other, atexit}
  Lifespan = lifespan
  AtExit = atexit
  Timeout = 2
  MaxTime = 1
  Unset = Unset
INVARIANTS
  ServedIsComplete
  NothingEscapesClose
  DeadlineIsShared
  LossIsReportedOnce
  SpansAreSettled
PROPERTIES
  EveryRequestEnds
  ProcessEnds
CHECK_DEADLOCK FALSE
