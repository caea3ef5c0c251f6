SPECIFICATION Spec
CONSTANTS
  Chars = {"ni", "hao", "x"}
  Keys = {"p", "q", "i", "v", "b", "x"}
  Commits <- SomeCommits
  WubiFiles <- SomeFiles
  Unreadable = unreadable
  Blanks = {}
  Ascii = {"x"}
  Window = 3
  MinFrequency = 2
  MaxGap = 2
  Moves <- SomeMoves
  MaxRows = 4
  MaxLate = 1
INVARIANTS
  CountsExact
  BigramsAgree
  CodesExplained
CHECK_DEADLOCK FALSE
