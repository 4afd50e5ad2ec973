SPECIFICATION FairSpec
CONSTANTS
  Texts = {m1, m2}
  Pins = {}
  Notes = {n}
  Resets = {}
  Boot = boot
  NoTurn = noTurn
  InitialResume = {noTurn}
  MaxHandlers = 2
  MaxRounds = 2
  MaxCrashes = 0
CHECK_DEADLOCK FALSE
INVARIANTS
  SteeredOnce
  ResumeCoversTurn
PROPERTY AdmittedIsRecorded
