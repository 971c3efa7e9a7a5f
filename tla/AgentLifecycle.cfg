SPECIFICATION FairSpec
CONSTANTS
  Life = {l1, l2}
  Owner = {o1}
  None = None
CHECK_DEADLOCK FALSE
INVARIANTS
  LifecycleInv
  FailureLeavesNothing
  FactoryTeardownIsQuiescent
PROPERTIES
  AbortedCreationAnswers
  FactoryTeardownFinishes
