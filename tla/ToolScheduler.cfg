SPECIFICATION FairSpec
CONSTANTS
  N = 3
  MaxParallel = 2
  MaxReclassify = 1
CHECK_DEADLOCK FALSE
INVARIANTS
  SchedulerInv
  ModelOrder
  EveryCallIsAnswered
  ExclusiveRunsAlone
PROPERTIES
  AppendsAreLegal
  SchedulerFinishes
