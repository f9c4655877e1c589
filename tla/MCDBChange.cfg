SPECIFICATION FairSpec
CONSTANTS
  MaxEvents = 4
  BatchSize = 2
  MaxBuffer = 2
  RetryQueueMax = 1
  MaxAttempts = 2
  MaxStarts = 2
INVARIANTS
  TypeOK
  EveryEventOnce
  OldestFirst
PROPERTIES
  EventuallyTaken
  RetriesEnd
CHECK_DEADLOCK FALSE
