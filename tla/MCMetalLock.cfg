\* Values of two bits; a load and two swaps, one
\* of which changes both words and may be tried by several threads.
SPECIFICATION LockFairSpec
CONSTANTS
  t1 = t1
  t2 = t2
  t3 = t3
  Threads <- AllThreads
  Group <- TwoGroups
  Words = {0, 1}
  Requests <- SomeRequests
  MaxCalls = 4
PROPERTIES
  ImplementsAtomicEntry
  CallsEnd
\* The calls are bounded.
CHECK_DEADLOCK FALSE
