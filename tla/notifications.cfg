SPECIFICATION FairSpec
CONSTANTS
  a = a
  b = b
  Chat = {a, b}
  Gateway = {"one", "two"}
  Setups <- Instances
  MaxSendFailures = 2
  MaxEvents = 2
  Owner = {a}
  MaxCommands = 2
  MaxFaults = 2
INVARIANTS
  NothingIsLost
  RepeatedOnlyAfterFailure
PROPERTY
  EventuallyTold
CHECK_DEADLOCK FALSE
