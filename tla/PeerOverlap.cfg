SPECIFICATION Spec
CONSTANTS
  Texts = {m1, m2}
  Pins = {}
  Notes = {}
  Resets = {r}
  Boot = boot
  NoTurn = noTurn
  InitialResume = {boot}
  MaxHandlers = 2
  MaxRounds = 1
  MaxCrashes = 1
CHECK_DEADLOCK FALSE
CONSTRAINT OneTextLess
SYMMETRY TextSymmetry
INVARIANTS
  OneLiveTurn
  ClaimedOrSteered
  AdmittedIsAccountedFor
PROPERTIES
  ResetCancelsLiveTurn
