SPECIFICATION FairSpec
CONSTANTS
  CardId <- Four
  Root = Root
  None = None
  MaxTasks = 2
  MaxManual = 2
  MaxSecond = 1
  MaxFaults = 2
INVARIANTS
  OneCardPerKey
  PlanAdoptable
  AcceptedGraph
  NothingElseReleased
PROPERTIES
  ManifestIsFinal
  StoredPlanCompletes
CHECK_DEADLOCK FALSE
