\* Three threads on seven values, relaxed loads, weak swaps.
SPECIFICATION FairSpec
CONSTANTS
  Count = 7
  Inputs <- Seven
  RelaxedLoads = TRUE
  WeakCas = TRUE
INVARIANTS
  TypeOK
  ParityAgrees
  JoinsHold
  ChildrenArePermutations
PROPERTIES
  LinkedForGood
  ImplementsNodeColoring
  Terminates
\* The kernels end.
CHECK_DEADLOCK FALSE
