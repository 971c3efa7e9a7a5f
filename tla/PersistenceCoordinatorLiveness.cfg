SPECIFICATION FairSpec
CONSTANTS
  MaxFresh = 0
  MaxCalls = 2
  MaxEvents = 2
  MaxTroubles = 1
CHECK_DEADLOCK FALSE
PROPERTIES
  CallsAnswer
  DisposalCloses
