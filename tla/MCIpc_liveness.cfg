SPECIFICATION FairSpec
CONSTANTS
  Threads = {t1, t2}
  NoThread = nothread
  Kinds = {"Rerank", "RecordCommit"}
  IdSpace = 2
  Room = 1
  HostIgnoresSigpipe = TRUE
  MaxCalls = 3
  MaxConns = 1
  MaxCrashes = 1
  MaxExits = 0
PROPERTIES
  LockReleased
  AbandonedWorkersEnd
  AbandonedCommitsRecorded
CHECK_DEADLOCK FALSE
