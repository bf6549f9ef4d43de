SPECIFICATION FairSpec
CONSTANTS
  Size = 5
  MaxInter = 3
  MayFail <- EveryCall
  Killable = {"daemon", "server"}
  ErrAtStart = {"OK", "FAIL"}
INVARIANTS
  MessagesIntact
  SafeShutdownDelivers
  SocketsExact
PROPERTIES
  ConnectionEnds
  SessionCompletes
