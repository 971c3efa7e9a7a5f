SPECIFICATION Spec
CONSTANTS
  MaxEvents = 11
  MaxCalls = 2
CHECK_DEADLOCK FALSE
INVARIANTS
  RepairIsLegal
  RepairResumes
  InterruptedCallsAnswered
