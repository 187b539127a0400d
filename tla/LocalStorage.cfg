\* Two keys and two temporary names, so that a key can be tried again; one power
\* cut.
SPECIFICATION Spec
CONSTANTS
  Keys = {k1, k2}
  Temps = {t1, t2}
  MaxCuts = 1
  None = None
SYMMETRY Symmetry
INVARIANTS
  AbandonedIsListed
PROPERTIES
  ImplementsPort
CHECK_DEADLOCK FALSE
