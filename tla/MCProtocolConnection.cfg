SPECIFICATION FairSpec
CONSTANTS
  Users = {u1}
  Receiver = receiver
  Frames <- MixedFrames
  Chunks = 2
  MaxCalls = 2
INVARIANTS MessagesAreContiguous
PROPERTIES ImplementsChannel ArrivedFramesAreHandled SendEnds PeerEndClosesConnection
CHECK_DEADLOCK FALSE
