SPECIFICATION Spec
CONSTANTS
  Life = {l1}
  Owner = {o1}
  None = None
CHECK_DEADLOCK FALSE
INVARIANT OwnerUnloadIsQuiescent
