SPECIFICATION FairSpec
CONSTANTS
  Msg = {m1, m2}
  MaxSteps = 2
  MaxRetries = 1
  MaxMaintenance = 1
  Decisions = {"enter", "empty", "reject"}
CHECK_DEADLOCK FALSE
INVARIANTS
  TypeOK
  DriverInv
  OneHome
  WakeIsNotLost
  LiveTurnDrains
  TeardownWaits
PROPERTIES
  AbortStopsModelWork
  ImplementsSessionTrace
  CancelConverges
  DisposalFinishes
