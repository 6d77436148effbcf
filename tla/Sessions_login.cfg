SPECIFICATION Spec
CONSTANTS
  Callers = {r1, r2, r3, r4}
  Sessions = {s1, s2}
  None = None
  Failures = TRUE
CHECK_DEADLOCK FALSE
INVARIANTS NoAccessAfterDeletion LogoutIsFinal AuditedBeforeUse
SYMMETRY Symmetry
