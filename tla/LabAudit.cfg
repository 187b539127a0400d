\* Two uploads, a message of another run, two audits with or without a drain.
SPECIFICATION Spec
CONSTANTS
  Uploads = {u1, u2}
  Foreign = {f1}
  MaxCopies = 2
  MaxFaults = 1
  MaxAudits = 2
  None = None
SYMMETRY Symmetry
INVARIANTS
  NothingIsLost
  AcceptedIsPersisted
PROPERTIES
  PublishedIsAudited
CHECK_DEADLOCK FALSE
