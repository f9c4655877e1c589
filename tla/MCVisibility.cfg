SPECIFICATION Spec
CONSTANTS
  Agent = agent
  Viewers = {viewer}
  Confirmed = {none, some}
  MaxRecords = 3
  MaxCached = 1
  Threshold = 2
  Cost = 1
  Limit = 2
  MaxSpent = 1
  FailPolicy = "close"
SYMMETRY Symmetric
INVARIANTS
  TypeOK
  OneTrialPerRecovery
  ReservationsFit
