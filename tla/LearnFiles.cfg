SPECIFICATION Spec
CONSTANTS
  Daemons = {d}
  Clis = {c}
  Parts = 2
  CommitToGit = TRUE
  MaxEntries = 1
  MaxRounds = 2
  MaxMishaps = 1
INVARIANTS
  CopiesWhole
  CountsExplained
  HeadIsCurrent
PROPERTIES
  ImplementsAtomicFiles
  NeverOlder
CHECK_DEADLOCK FALSE
