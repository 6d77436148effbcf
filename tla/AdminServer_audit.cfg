SPECIFICATION Spec
CONSTANTS
  r1 = r1
  r2 = r2
  r3 = r3
  Requests = {r1, r2}
  A = A
  B = B
  i = i
  j = j
  v = v
  Ids = {i}
  Tenants = {A, B}
  Values = {v}
  NoValue = NoValue
  Seed = Seed
  TenantScoped = TRUE
  Calls <- UpdateDeleteCalls
  Failures = FALSE
CHECK_DEADLOCK FALSE
INVARIANT ChangesAreAudited
