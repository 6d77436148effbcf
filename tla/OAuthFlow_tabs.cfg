SPECIFICATION Spec
CONSTANTS
  Flows = {f1, f2}
  Callbacks = {c1, c2, c3}
  None = None
  MaxAge = 1
  Failures = TRUE
  MaxClock = 2
CHECK_DEADLOCK FALSE
INVARIANTS SessionHasFlow OneSessionPerFlow StateRefusedForCause
SYMMETRY Symmetry
