SPECIFICATION FairSpec
CONSTANTS
  MaxSize = 2
  MaxCalls = 2
  MaxFed = 3
  MaxCancels = 2
  Room = 2
INVARIANTS
  RtsFollowsData
  BytesKept
  WriteTellsWhatWasSent
PROPERTIES
  RaisesForCause
  CallsEnd
CHECK_DEADLOCK FALSE
