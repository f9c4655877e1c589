SPECIFICATION FairSpec
CONSTANTS
  order = order
  garbled = garbled
  empty = empty
  broken = broken
  Messages <- MCMessages
  Ids <- MCIds
  IdOf <- MCIdOf
  DedupOf <- MCIdOf
  Unparsable <- MCUnparsable
  Breaking <- MCBreaking
  Unreadable <- MCUnreadable
  MaxLog = 2
  MaxWorkers = 2
  MaxRetries = 1
  MaxStarts = 2
  MaxFaults = 1
INVARIANTS
  TypeOK
  SingleWorkerLosesNothing
  AgentRunsBounded
  DedupDropsOnlyRepeats
PROPERTIES
  NoLossWhileConnected
  EventuallyHandled
  StopCompletes
CHECK_DEADLOCK FALSE
