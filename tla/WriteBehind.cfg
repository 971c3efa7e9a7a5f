SPECIFICATION FairSpec
CONSTANTS
  Caller = {c1, c2}
  MaxEvents = 3
  MaxSeed = 1
CHECK_DEADLOCK FALSE
INVARIANT QueueInv
PROPERTIES
  ImplementsDurableLog
  FlushAnswers
  EventsBecomeDurable
