CONSTANTS
  c1 = c1
  Client = {c1}
  Script <- MCScript
  Routes <- MCRoutes
  Body <- MCBody
  BufferSize = 2
  OutputSize = 2
  Descriptor = {3, 4, 5}
  MaxOrphans = 1
  Tls = {TRUE, FALSE}
SPECIFICATION FairSpec
INVARIANTS TypeOK DescriptorsOwned SlabsBalanced RepliesInOrder ReadyToRead FreedAfterThread
PROPERTIES KillReturns ThreadEnds
CHECK_DEADLOCK FALSE
