SPECIFICATION FairSpec
CONSTANTS
  p = p  q = q  a = a  b = b
  Peers = {p, q}
  Callers = {a, b}
  Settings <- MCApart
  Calls <- MCCalls
  Dirs <- MCDirs
  Cwd <- MCCwd
  Configured = p
  NewDirs <- MCNewDirs
  None = None

  
PROPERTIES
  WaitEnds
