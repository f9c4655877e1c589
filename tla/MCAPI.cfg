SPECIFICATION Spec
CONSTANTS
  MaxRuns = 3
  MaxTable = 1
  Clients = {c1, c2}
SYMMETRY Symmetric
INVARIANTS
  TypeOK
  StopSettlesRuns
PROPERTIES
  AnswersGoForward
