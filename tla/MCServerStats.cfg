SPECIFICATION Spec
CONSTANTS
  Workers = {w1, w2}
  Latencies = {1, 2}
  Version = 1
  Kinds = {"Rerank", "Commit", "Stats", "Malformed"}
  MaxMessages = 3
INVARIANTS
  SnapshotsCoverReplies
  QuietExact
PROPERTIES
  CountersMonotonic
SYMMETRY WorkerSymmetry
CHECK_DEADLOCK FALSE
