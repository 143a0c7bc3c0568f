SPECIFICATION QueueFairSpec
CONSTANTS
  MaxSize = 2
  MaxReads = 2
  MaxFed = 3
  BufferSize = 2
INVARIANTS
  NothingVanishes
PROPERTIES
  EndsAreTold
CHECK_DEADLOCK FALSE
