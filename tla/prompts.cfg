SPECIFICATION FairSpec
CONSTANTS
  w1 = w1
  w2 = w2
  i1 = i1
  r1 = r1
  r2 = r2
  None = None
  Watcher = {w1}
  Identity = {i1}
  Resolver = {}
  SharedSeconds = TRUE
  MaxBatch = 4
  MaxMoves = 3
  MaxFaults = 2
INVARIANTS
  PromptStands
PROPERTIES
  EventuallyPrompted
CHECK_DEADLOCK FALSE
