SPECIFICATION Spec
CONSTANTS
  c1 = c1
  w1 = w1
  w2 = w2
  Conns = {c1, c2}
  Workers = {w1, w2}
  Tiles = {"north", "south"}
  Around <- OneAround
  Loads <- SixLoads
  RetryLimit = 1
  FreshArgs = 1
  MaxCacheSize = 2
  ToLeave = 1
  MaxPermits = 1
INVARIANT NoneClosedWorking
CHECK_DEADLOCK FALSE
