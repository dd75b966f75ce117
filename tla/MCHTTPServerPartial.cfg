SPECIFICATION Spec
CONSTANTS
  Scripts <- PlainScript
  MaxPushes = 1
PROPERTY PartialRequestAsksForMore
CHECK_DEADLOCK FALSE
