SPECIFICATION Spec
CONSTANTS
  MaxRequests = 3
  Keys = {k1, k2}
  MaxEntries = 1
  MaxAttempts = 2
  None = None
INVARIANTS
  TypeOK
  OneRunPerKey
PROPERTIES
  EveryRequestEnds
