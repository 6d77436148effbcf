SPECIFICATION LimiterSpec
CONSTANTS
  c1 = c1
  c2 = c2
  c3 = c3
  c4 = c4
  host = host
  proxy = proxy
  Calls = {c1, c2, c3, c4}
  Hosts = {host, proxy}
  NoHeader = NoHeader
  Origins <- TwoHosts
  ConfiguredLimit = 2
  ConfiguredWindow = 0
  Minute = 3
  Delay = 1
  MaxClock = 5
CHECK_DEADLOCK FALSE
INVARIANTS LimitPerWindow RefusedForCause
SYMMETRY Symmetry
