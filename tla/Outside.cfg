SPECIFICATION OutsideSpec
CONSTANTS
  Pids = {1, 2}
  MaxCommands = 2
  MaxPending = 2
  Turns = {"t", "u"}
  Aliases = {"a", "b"}
  First = "a"
  Failures = 2
  MaxSwitches = 3
  Tasks = {1, 2}
  Agents = {"a", "b"}
  ParentOf <- MCParentOf
  Main = "main"
  Limit = 1
  None = "none"
CHECK_DEADLOCK FALSE
INVARIANTS
  OneBuiltAgent
  
  OneRunEach
  
PROPERTIES
  BegunIsEnded
  WatchdogHeals
  
