\* Leaves of up to five values.  Half words of three bits: a rank of seven bits
\* goes on into the second word.  Registers of three lanes: a leaf of four or
\* five values takes both.
SPECIFICATION LeafSpec
CONSTANTS
  Sizes <- SmallLeaves
  HalfBits = 3
  Lanes = 3
INVARIANTS
  RankIsPosition
  BlockComesBack
  EveryRankDecodes
  VectorAgrees
\* The leaf has been read.
CHECK_DEADLOCK FALSE
