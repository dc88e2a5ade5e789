SPECIFICATION SpecUnlocked
CONSTANTS
  e1 = e1
  e2 = e2
  NoCard = NoCard
  Executor = {e1, e2}
  Parents <- Chain
  Level = 3
  AllowLocalCommit = TRUE
  MaxRun = 1
  FailureLimit = 2
  BlockLimit = 2
  MaxVerifierRetries = 0
  MaxCommitRetries = 0
  MaxFaults = 0
INVARIANTS
  ParentGate
  VerifiedIsSettled
PROPERTIES
  LeaseNeverRevived
