SPECIFICATION FairSpec
CONSTANTS
  Daemons = {d}
  Clients = {a, b, c}
  Instances = {1, 2, 3, 4}
  Nobody = nobody
  Gone = gone
INVARIANTS
  ListenersAttended
PROPERTIES
  NobodyTurnedAway
  StopEnds
