\* Leaves of two below up to four levels, every format.  Launches of the 64-bit
\* hosts are cut after four or five elements; 32-bit numbers end at 63.
SPECIFICATION PipelineSpec
CONSTANTS
  MiddleGroupLog2 = 1
  Counts <- SmallAndDeep
  Placements <- AllPlacements
  Inputs <- AllOrSome
  Hosts <- AllHosts
  Lanes = 2
  BlockSize = 2
  MaxBlocks = 2
  BatchMax = 5
  UintMax = 63
INVARIANTS
  UsedBitsAreCanonical
  ReadsAreFresh
  PartsAreApart
\* A compression ends.
CHECK_DEADLOCK FALSE
