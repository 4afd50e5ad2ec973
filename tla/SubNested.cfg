SPECIFICATION Spec
CONSTANTS
  Owners = {p, s}
  Mains = {p}
  Jobs = {j1, j2}
  None = none
  MaxRunning = 2
  MaxWaits = 1
  MaxTurns = 1
CHECK_DEADLOCK FALSE
SYMMETRY JobSymmetry
INVARIANTS
  FinalLeavesNoneRunning
  JobsDieWithTurn
  ResultKept
