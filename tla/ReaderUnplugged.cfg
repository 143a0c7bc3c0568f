SPECIFICATION Spec
CONSTANTS
  MaxCalls = 1
  MaxData = 1
INVARIANTS
  LostIsTold
CHECK_DEADLOCK FALSE
