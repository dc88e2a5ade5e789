SPECIFICATION FairSpec
CONSTANTS
  e1 = e1
  e2 = e2
  NoCard = NoCard
  Executor = {e1}
  Parents <- Single
  Level = 4
  AllowLocalCommit = TRUE
  MaxRun = 2
  FailureLimit = 2
  BlockLimit = 2
  MaxVerifierRetries = 1
  MaxCommitRetries = 0
  MaxFaults = 1
INVARIANTS
  NoLateWrite
  RunsInvariant
  LeaseIsJournaled
  PausedIsQuiet
  TerminalIsSettled
  VerifiedIsSettled
  PauseMarkerIsCurrent
PROPERTIES
  OrphanIsReconciled
  LeaseNeverRevived
  WorkerBlockSurvivesResume
  ImplementsLeases
