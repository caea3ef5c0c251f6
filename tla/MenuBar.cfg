SPECIFICATION AllSpec
CONSTANTS
  Job = Job
  Hand = Hand
  Clients = {}
  Shells = {u}
  Timer = Timer
  Mock = "mock"
  Backends = {"deterministic", "llama_cpp"}
  Fallback = "deterministic"
  MaxWaits = 1
  MaxTries = 1
  MaxEvents = 2
  MaxFollowUps = 2
PROPERTIES
  MenuSettles
CHECK_DEADLOCK FALSE
