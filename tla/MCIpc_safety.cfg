SPECIFICATION Spec
CONSTANTS
  Threads = {t1, t2}
  NoThread = nothread
  Kinds = {"Rerank", "Ping", "RecordCommit", "ResetConnection"}
  IdSpace = 1
  Room = 1
  HostIgnoresSigpipe = FALSE
  MaxCalls = 3
  MaxConns = 2
  MaxCrashes = 1
  MaxExits = 1
INVARIANTS
  AnswersOwnCall
  OneReplyOwed
  FramingInSync
  RecordedOnce
PROPERTIES
  ImplementsService
CHECK_DEADLOCK FALSE
SYMMETRY ThreadSymmetry
