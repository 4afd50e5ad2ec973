SPECIFICATION PartsSpec
CONSTANTS
  Peers = {"p"}
  Subs = {"s"}
  ResetCalls = {"r"}
  ResetOf <- MCResetOf
  Aliases = {"a", "b"}
  HostOf <- MCHostOf
  SlotsOf <- MCSlotsOf
  MaxEvents = 1
  None = "none"
CHECK_DEADLOCK FALSE
INVARIANTS
  
  
  
  
  CallsAreWritten
  
  
