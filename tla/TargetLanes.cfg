SPECIFICATION FairSpec
CONSTANTS
  Agents = {a, b}
  Jobs = {j1, j2, j3}
  None = none
INVARIANTS
  OnePumpPerLane
PROPERTIES
  PositionIsHonest
  LanesFair
