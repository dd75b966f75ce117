SPECIFICATION FormatsSpec
CONSTANTS
  Heaps <- SmallHeaps
  Messages <- SmallMessages
  Behind = 3
INVARIANTS ReadsBackEqual CutIsNoticed FrameReadsBack FailsOnlyForSigns
CHECK_DEADLOCK FALSE
