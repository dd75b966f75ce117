SPECIFICATION Spec
CONSTANTS
  kept = kept
  erased = erased
  p = p
  q = q
  Bars = {kept, erased}
  Kept = {kept}
  Empties <- MCEmpties
  Users = {p, q}
  Updaters = {w1, w2}
  MaxCalls = 5
  None = None
INVARIANTS RemovedOnce OneUpdater OnlyEmptyBarsRaise
PROPERTIES CallsReturn ShownBarsAreDrawn
CHECK_DEADLOCK FALSE
