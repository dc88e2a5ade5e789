SPECIFICATION FairSpec
CONSTANTS
  x = x
  y = y
  Edit <- MCEdit
  Untracked <- MCUntracked
  Clean = Clean
  None = None
  Authority <- MCAuthority
  MaxAdvance = 1
  MaxVerifierRetries = 1
  MaxCommitRetries = 2
  MaxFaults = 1
INVARIANTS
  EnvironmentAdoptable
  SucceededIsSealed
  CommitRecordedOnce
  AdoptionSucceeds
  RollbackRestores
PROPERTIES
  BaseIsFrozen
  ImplementsPromise
  PhasesEnd
CHECK_DEADLOCK FALSE
