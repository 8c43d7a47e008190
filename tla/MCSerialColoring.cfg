\* Every permutation of five values.
SPECIFICATION Spec
CONSTANTS
  Count = 5
  Inputs <- AllPermutations
INVARIANTS
  NeverThrows
  FrontierSeparates
PROPERTIES
  ImplementsNodeColoring
\* The search ends.
CHECK_DEADLOCK FALSE
