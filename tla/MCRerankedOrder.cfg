SPECIFICATION AllSpec
CONSTANTS
  OptionSets <- SomeOptions
  Indices <- SomeIndices
  MaxN = 4
  MaxReply = 4
  Scores = {0, 1}
INVARIANTS
  NothingLost
  ProtectedStay
  ReplyRespected
  BestFirst
