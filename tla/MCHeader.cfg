\* The header has room for four clusters, so that some formats need more.
SPECIFICATION Spec
CONSTANTS
  Options <- SomeOptions
  Files <- SomeFiles
  Ones <- OneBit
  MaxClusterBytes = 4
INVARIANTS
  WrittenOpens
  ViewsAgree
  NothingIsHidden
\* The files are open or rejected.
CHECK_DEADLOCK FALSE
