SPECIFICATION GeneratorSpec
CONSTANTS
  readme = readme
  server = server
  resources = resources
  spec = spec
  user = user
  Commands = {p1, p2}
  Stems = {user}
  User = User
  Nothing = Nothing
  Calls <- SomeCalls
  Top = {readme}
  Inner = {server, resources}
  Output <- OpenAPI_json
  MaxFaults = 2
CHECK_DEADLOCK FALSE
INVARIANTS CreatedIsComplete FailureCleansUp
PROPERTIES KeepsWhatWasThere ReportIsTrue
SYMMETRY Symmetry
