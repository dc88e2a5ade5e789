SPECIFICATION Spec
CONSTANTS
  u = u
  v = v
  short = short
  long = long
  None = None
  Writer = {u, v}
  Content = {short, long}
  Size <- Bytes
  EvidenceBytes = 2
  MaxRows = 3
  MaxFaults = 2
INVARIANTS
  LogIsSound
  NoFalseAlarm
  PassedIsGenuine
  BudgetIsKept
SYMMETRY Symmetry
