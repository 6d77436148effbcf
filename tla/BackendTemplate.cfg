SPECIFICATION AdapterSpec
CONSTANTS
  Requests = {r1, r2, r3}
  root = root
  ann = ann
  bob = bob
  other = other
  fresh = fresh
  line = line
  Records = {root, ann, bob, other, fresh, line}
  Users = {root, ann, bob}
  Seeded = {root, ann, bob, other}
  SuperAdmins = {root}
  TenantOf <- TwoTenants
  ParentOf <- NoParents
  TableOf <- ItsTable
  Statuses = {"active", "blocked"}
  Names = {"n", "m"}
  None = None
  AnEvent = AnEvent
  Number = Number
  Workloads <- Matters
CHECK_DEADLOCK FALSE
INVARIANTS EventsWereReal UpdatesAreIndependent DeletedStaysDeleted ChangesAreAudited LoginWasActive
PROPERTY TenantsAreApart
SYMMETRY Symmetry
