SPECIFICATION Spec
CONSTANTS
  boss = boss
  painter = painter
  counter = counter
  Main = Main
  TheBoss = boss
  Staff <- MCStaff
  Subs <- MCSubs
  Programs <- MCPrograms
INVARIANTS NoCallLost WaitAfterWork
PROPERTIES WorkersGoHome
CHECK_DEADLOCK FALSE
