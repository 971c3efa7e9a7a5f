SPECIFICATION Spec
CONSTANTS
  MaxFresh = 2
  MaxCalls = 1
  MaxEvents = 2
  MaxTroubles = 1
CHECK_DEADLOCK FALSE
INVARIANTS
  StoreInv
  AckedIsStored
  StoreFollowsOwner
  CloseIsQuiescent
PROPERTY StoredOnlyGrows
