SPECIFICATION FairSpec
CONSTANTS
  MaxCalls = 1
  MaxData = 1
INVARIANTS
  TypeOK
  LostIsToldBySerialExceptions
PROPERTIES
  ClosesIdlePort
  CallsReturn
  EnterReturnsOrLostRaised
CHECK_DEADLOCK FALSE
