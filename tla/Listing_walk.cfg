SPECIFICATION MattersSpec
CONSTANTS
  Ids = {i1, i2, i3}
  Tenants = {t1, none}
  NoTenant = none
  None = None
  Values = {5, 7, 12}
  Cap = 2
  Default = 1
  PerPages = {0, 1, 2, 3}
  Filters <- SomeFilters
  Budgets = {0, 1, 2}
CHECK_DEADLOCK FALSE
INVARIANTS QuietWalkIsComplete ArrivalsHideNothing ReadingIsWhole
SYMMETRY Symmetry
