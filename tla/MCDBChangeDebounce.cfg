SPECIFICATION Spec
CONSTANTS
  MaxEvents = 2
  BatchSize = 2
  MaxBuffer = 2
  RetryQueueMax = 1
  MaxAttempts = 2
  MaxStarts = 1
INVARIANTS
  NothingCancelledWhileRunning
CHECK_DEADLOCK FALSE
