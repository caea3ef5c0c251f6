SPECIFICATION Spec
CONSTANTS
  Threads = {t1}
  NoThread = nothread
  Kinds = {"Rerank", "RecordCommit"}
  IdSpace = 2
  Room = 1
  HostIgnoresSigpipe = FALSE
  MaxCalls = 3
  MaxConns = 2
  MaxCrashes = 1
  MaxExits = 0
INVARIANTS HostSurvivesCalls
CHECK_DEADLOCK FALSE
