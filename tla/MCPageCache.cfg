\* Room for two of the three pages.
SPECIFICATION CacheFairSpec
CONSTANTS
  Threads = {t1, t2}
  None = none
  Contents <- FileBytes
  FileSize = 5
  Ranges <- SomeRanges
  PageSize = 2
  PageLimit = 2
  MaxReads = 3
INVARIANTS
  WithinLimit
  SourcePageStays
PROPERTIES
  EvictsLeastRecent
  ReadsEnd
  ImplementsByteSource
\* The reads are bounded.
CHECK_DEADLOCK FALSE
