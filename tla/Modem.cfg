SPECIFICATION FairSpec
CONSTANTS
  cts = cts
  Lines <- MCLines
  Mask <- MCMask
  MaxChanges = 2
  MaxInFlight = 1
INVARIANTS
  OneThreadComparesWithLastSent
  AnswerIsThere
PROPERTIES
  DeltasTellChanges
  ClientCatchesUp
  PollingHeals
CHECK_DEADLOCK FALSE
