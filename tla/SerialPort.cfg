SPECIFICATION FairSpec
CONSTANTS
  Programs <- MCPrograms
  None = None
  Handshake = Handshake
  Custom = {250000}
  Refused <- MCRefused
INVARIANTS
  ClosedHoldsNothing
  InForce
  LinesTold
PROPERTIES
  RestoreEnds
CHECK_DEADLOCK FALSE
