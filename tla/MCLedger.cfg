SPECIFICATION FairSpec
CONSTANTS
  QueueMax = 2
  BatchSize = 2
  MaxRetries = 3
  MaxRecords = 4
  MaxStops = 2
INVARIANTS
  TypeOK
  NoSilentLoss
  SettledOnce
PROPERTIES
  EventuallySettled
  StopTerminates
  ImplementsAuditLog
  ImplementsView
CHECK_DEADLOCK FALSE
