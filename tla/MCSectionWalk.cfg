\* Leaves of four, whose ranks take none, one, three or five bits, below up to
\* four levels; every pair of cluster lists.  32-bit numbers have seven
\* bits, and the 32-bit kernels encode up to 63 values.
SPECIFICATION Spec
CONSTANTS
  MiddleGroupLog2 = 2
  UintMax = 127
  Counts <- Networks
  Placements <- AllPlacements
INVARIANTS
  SectionsAreFilled
  PacketsAreContiguous
  DeviceAgrees
  CacheSuffices
\* The walk ends.
CHECK_DEADLOCK FALSE
