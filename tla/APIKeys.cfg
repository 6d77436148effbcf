SPECIFICATION Spec
CONSTANTS
  Requests = {r1, r2, r3}
  Keys = {k1, k2}
  Prefixes = {p1}
  Actors = {a, root}
  Tenants = {t1}
  SuperAdmins = {root}
  None = None
  TTL = 1
  Failures = TRUE
  MaxClock = 2
CHECK_DEADLOCK FALSE
INVARIANTS EndIsFinal LastUsedIsTrue
SYMMETRY Symmetry
