SPECIFICATION FramingSpec
CONSTANTS
  Setups <- MCSetups
  MaxInput = 6
  MaxChunk = 3
INVARIANTS
  ChunksDoNotMatter
  LinesAreTheStream
CHECK_DEADLOCK FALSE
