SPECIFICATION Spec
CONSTANTS
  MaxFires = 2
  MaxRecords = 4
  MaxDays = 2
  Window = 2
  LookBack = 2
  MaxDailyRuns = 1
  HasCooldown = TRUE
  Paths = {"agent", "fallback"}
  Strategy = "on_failure"
  HasFallback = TRUE
INVARIANTS
  TypeOK
  RunsGuarded
  DailyLimitWhenSeen
PROPERTIES
  BreakerLatches
  SlotComesBack
CHECK_DEADLOCK FALSE
