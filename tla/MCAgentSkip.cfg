SPECIFICATION Spec
CONSTANTS
  Runs = {r1, r2}
  OwnEnv = OwnEnv
  MaxPending = 2
  MaxInstructions = 2
INVARIANTS
  InstructionsReachARun
CHECK_DEADLOCK FALSE
