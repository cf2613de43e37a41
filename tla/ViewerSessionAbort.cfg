SPECIFICATION Spec
CONSTANTS
  Clients = {a}
  Kinds = {"line", "surface"}
  Lives = TRUE
  MaxStatements = 4
  MaxHandles = 2
  MaxCloseAlls = 1
  MaxAborts = 1
  MaxCrashes = 1
  WireRoom = 2
  ReplyRoom = 2
  QueueRoom = 1
INVARIANTS
  TypeOK
  CutIsLast
  RepliesInStep
  FiguresApart
  SyncedArrives
PROPERTIES
  StatementsReturn
CHECK_DEADLOCK FALSE
