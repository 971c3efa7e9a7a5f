SPECIFICATION FairSpec
CONSTANTS
  Job = {j1, j2}
  Owner = {o1}
  NoOwner = NoOwner
  Waiter = {w1, w2}
  MaxActive = 1
  Outcomes = {"completed"}
CHECK_DEADLOCK FALSE
INVARIANTS
  RegistryInv
  SuppressedNoticeHasReader
  NoticeIsNotRepeated
PROPERTIES
  WaitsReturn
  OwnerTeardownFinishes
