SPECIFICATION Spec
CONSTANTS
  MaxFresh = 1
  MaxCalls = 1
  MaxEvents = 2
  MaxTroubles = 1
CHECK_DEADLOCK FALSE
INVARIANT RefusedLogIsForeign
