\* Fifteen values over leaves of four: 14 bits of switches and 18 of ranks fill
\* one word of the buffer, and take two and three bytes of the file.
SPECIFICATION PipelineSpec
CONSTANTS
  MiddleGroupLog2 = 2
  Counts <- Fifteen
  Placements <- AllPlacements
  Inputs <- Reversed
  Hosts <- AllHosts
  Lanes = 4
  BlockSize = 4
  MaxBlocks = 2
  BatchMax = 5
  UintMax = 31
INVARIANTS
  FileIsCanonical
\* A compression ends.
CHECK_DEADLOCK FALSE
