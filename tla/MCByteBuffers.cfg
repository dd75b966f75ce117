SPECIFICATION Spec
CONSTANTS
  Buffers <- MCBuffers
  Byte <- MCByte
  NewLine <- MCNewLine
  Threshold = 3
  Start <- MCStart
  Data <- MCData
  MaxLength = 3
  MaxCalls = 4
INVARIANTS ReadsLikeASequence WritesLikeASequence ResizeIsNoticed
CHECK_DEADLOCK FALSE
