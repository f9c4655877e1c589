SPECIFICATION FairSpec
CONSTANTS
  Runs = {r1, r2, r3}
  OwnEnv = OwnEnv
  MaxPending = 2
  MaxInstructions = 3
INVARIANTS
  TypeOK
  EnvBelongsToRun
  InstructionGivenOnce
  NewestInstructionsStay
PROPERTIES
  RunRestoresEnv
  PauseTakesEffect
  EveryCallEnds
CHECK_DEADLOCK FALSE
