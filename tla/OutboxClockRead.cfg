\* A worker that read its clock before the API did dates the publication before
\* the document's creation.
SPECIFICATION Spec
CONSTANTS
  Workers = {w1}
  Events = {e1}
  MaxAttempts = 1
  Backoff = 1
  MaxDelay = 1
  MaxTime = 1
  None = None
INVARIANTS
  ExistingDocumentIsFound
CHECK_DEADLOCK FALSE
