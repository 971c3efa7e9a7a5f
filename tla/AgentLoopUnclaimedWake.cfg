SPECIFICATION Spec
CONSTANTS
  Msg = {m1, m2}
  MaxSteps = 1
  MaxRetries = 0
  MaxMaintenance = 0
  Decisions = {"enter", "empty"}
SYMMETRY MsgSymmetry
CHECK_DEADLOCK FALSE
INVARIANT LiveDriverClaimsQueuedWork
