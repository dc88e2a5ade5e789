SPECIFICATION Spec
CONSTANTS
  w1 = w1
  w2 = w2
  i1 = i1
  r1 = r1
  r2 = r2
  None = None
  Watcher = {w1, w2}
  Identity = {i1}
  Resolver = {r1, r2}
  SharedSeconds = FALSE
  MaxBatch = 2
  MaxMoves = 3
  MaxFaults = 1
INVARIANTS
  OnePromptPending
  PromptedWasIssued
PROPERTIES
  ImplementsPromise
SYMMETRY Symmetry
CHECK_DEADLOCK FALSE
