SPECIFICATION FairSpec
CONSTANTS
  Owners = {p}
  Mains = {p}
  Jobs = {j1, j2}
  None = none
  MaxRunning = 1
  MaxWaits = 2
  MaxTurns = 2
CHECK_DEADLOCK FALSE
INVARIANTS
  RunningCap
  NoLostWakeup
PROPERTY HoldEnds
