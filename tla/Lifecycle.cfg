SPECIFICATION Spec
CONSTANTS
  Job = Job
  Hand = Hand
  Clients = {c}
  Shells = {u, v}
  Backends = {"deterministic", "llama_cpp"}
  Fallback = "deterministic"
  MaxWaits = 1
  MaxTries = 2
  MaxEvents = 3
INVARIANTS
  AloneReachable
  LoadedIsCurrent
PROPERTIES
  StopsWhenAsked
  LoadedServes
CHECK_DEADLOCK FALSE
