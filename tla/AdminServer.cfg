SPECIFICATION MattersSpec
CONSTANTS
  Requests = {r1, r2, r3}
  r1 = r1
  r2 = r2
  r3 = r3
  A = A
  B = B
  i = i
  j = j
  v = v
  Ids = {i, j}
  Tenants = {A, B}
  Values = {v}
  NoValue = NoValue
  Seed = Seed
  TenantScoped = TRUE
  Calls <- AllCalls
  Failures = TRUE
CHECK_DEADLOCK FALSE
INVARIANTS GoneOnceAudited RefusalHasNoEffect AuditWithinTenant LocksInTransaction
PROPERTIES ImplementsTable BegunIsAnswered
