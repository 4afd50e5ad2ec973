CONSTANTS
  MaxAgents = 4
  MaxDepth = 2
  MaxCrashes = 1
  MaxClears = 1
  Overlap = FALSE
  None = None
SPECIFICATION FairSpec
CHECK_DEADLOCK FALSE

  
PROPERTIES
  OverStaysOver
  RootSettles
