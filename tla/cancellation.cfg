SPECIFICATION FairSpec
CONSTANTS
  e1 = e1
  e2 = e2
  NoCard = NoCard
  Executor = {e1}
  Parents <- Single
  Level = 4
  AllowLocalCommit = TRUE
  MaxRun = 2
  FailureLimit = 2
  BlockLimit = 2
  MaxVerifierRetries = 1
  MaxCommitRetries = 1
  MaxFaults = 0
PROPERTIES
  CancellationCompletes
