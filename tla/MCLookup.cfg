\* Leaves of four, every format: every permutation of up to five values, some of
\* nine and seventeen, where packets span several levels and clusters begin
\* inside the network; and every file of up to five values, of which some hold
\* ranks that no permutation has.
SPECIFICATION Spec
CONSTANTS
  MiddleGroupLog2 = 2
  Counts <- SmallAndDeep
  Placements <- AllPlacements
  Inputs <- AllOrSome
  AnyFile <- UpToFive
INVARIANTS
  AnswersThePermutation
  DirectionsAgree
  NeverThrows
\* The lookups end.
CHECK_DEADLOCK FALSE
