SPECIFICATION FairSpec
CONSTANTS
  Scripts <- AllScripts
  MaxPushes = 2
INVARIANTS MessagesAssembled Conversation
PROPERTY EndedConnectionsAreUnlisted
CHECK_DEADLOCK FALSE
