SPECIFICATION Spec
CONSTANTS
  w1 = w1
  w2 = w2
  i1 = i1
  r1 = r1
  r2 = r2
  None = None
  Watcher = {w1}
  Identity = {i1}
  Resolver = {r1}
  SharedSeconds = FALSE
  MaxBatch = 2
  MaxMoves = 2
  MaxFaults = 2
INVARIANTS
  PromptedWasDelivered
CHECK_DEADLOCK FALSE
