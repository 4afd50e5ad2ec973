SPECIFICATION Spec
CONSTANTS
  Keep = 2
  PruneProtect = 1
  PruneMinimum = 2
  ToolCap = 2
  Sigs = {"a", "b"}
  Sizes = {3}
  Pins <- MCNoPins
  Usages = {0}
  Batches <- MCBatches
  Embedded = FALSE
  Reviews = {"a"}
  Threshold = 5
  SpecAt = 4
  Window = 6
  MaxMalformed = 1
  MaxContinuations = 1
  Settings <- MCSettings
INVARIANTS
  CallsAreSettled
  HistoryIsTold
PROPERTIES
  TurnIsRecorded
  
