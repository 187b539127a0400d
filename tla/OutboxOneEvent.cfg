\* Two workers and two requeue commands contend for one event, in as many
\* rounds of requeues as the operators like.
SPECIFICATION FairSpec
CONSTANTS
  Workers = {w1, w2}
  Operators = {o1, o2}
  Events = {1}
  MaxAttempts = 2
  BatchSize = 1
  MaxFaults = 2
  None = None
INVARIANTS
  TypeOK
  PublishedOnlyIfConfirmed
  OwnedRowIsAsRead
  ActorsAndRowsAgree
  DuplicatesAreInterruptions
PROPERTIES
  PublishedIsFinal
  OnlyExhaustedIsRequeued
  ImplementsDelivery
  DoomedWorkerExits
