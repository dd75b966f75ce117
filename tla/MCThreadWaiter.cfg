SPECIFICATION FairSpec
CONSTANTS
  Threads = {t1, t2, t3}
  Ops <- AllOps
  MaxCalls <- CallsWithAndWithout
INVARIANTS CountExact ReleaseCoversBlocked
PROPERTIES OpenGateLetsOut
CHECK_DEADLOCK FALSE
