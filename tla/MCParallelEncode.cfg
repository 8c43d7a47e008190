\* Nodes of four and more values are split, those of three are not.
SPECIFICATION FairSpec
CONSTANTS
  LargestLeaf = 2
  SplitFrom = 4
  Jobs <- SomeJobs
  Requests <- SomeRequests
  Cores = 0
INVARIANTS
  ReturnsWhole
  FramesOutliveCalls
  CachesAreApart
  ThreadsWithinLimit
PROPERTIES
  Ends
\* A compression ends.
CHECK_DEADLOCK FALSE
