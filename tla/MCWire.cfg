SPECIFICATION Spec
CONSTANTS
  Messages <- MCMessages
  Others <- MCOthers
  MaxBody = 23
  Capacity = 3
  MaxSends = 2
INVARIANTS
  SameVersion
PROPERTIES
  ImplementsChannel
  SentArrives
CHECK_DEADLOCK FALSE
