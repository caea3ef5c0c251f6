SPECIFICATION FairSpec
CONSTANTS
  WordEntries = {1, 2}
  TypedWords = {}
  SpelledWords = {1}
  Faults = {"count", "read", "codec", "dict", "ngram", "rime", "throw", "deploy"}
  Testing = TRUE
  MaxEntries = 2
  MaxFaults = 1
  MaxStarts = 2
  MaxClockSets = 1
INVARIANTS
  AnnouncedDeployed
  RoundsNeedEntries
PROPERTIES
  FilesNeverShrink
  WaitingEntriesLearned
  StopReturns
CHECK_DEADLOCK FALSE
