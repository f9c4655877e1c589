SPECIFICATION Spec
CONSTANTS
  order = order
  garbled = garbled
  empty = empty
  broken = broken
  Messages <- MCSettled
  Ids <- MCSettled
  IdOf <- MCOwnId
  DedupOf <- MCOwnId
  Unparsable <- MCUnparsable
  Breaking <- MCBreaking
  Unreadable <- MCUnreadable
  MaxLog = 2
  MaxWorkers = 2
  MaxRetries = 1
  MaxStarts = 1
  MaxFaults = 0
INVARIANTS
  CommittedIsDone
CHECK_DEADLOCK FALSE
