SPECIFICATION MattersSpec
CONSTANTS
  Callers = {c1, c2, c3}
  Sessions = {s1, s2}
  Keys = {s1, s2}
  Values <- Times
  Kinds = {"memory", "postgres", "cache", "redis"}
  TTL = 2
  Skew = 1
  MaxEnds = 1
  MaxClock = 4
  Missing = Missing
  Forever = Forever
  NoKey = NoKey
  None = None
  Configs <- Config
CHECK_DEADLOCK FALSE
INVARIANT NewIsAllOrNothing
PROPERTIES LosesNoLiveSession ImplementsSessionStore
SYMMETRY Symmetry
