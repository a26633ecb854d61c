SPECIFICATION FairSpec
CONSTANTS
  Scripts <- MCScripts
  Short = 2
  Medium = 4
  BufferSize = 6
  Gaps = {0, 3}
INVARIANTS FramesAsSent FramesReturned
PROPERTIES ReaderEnds
CHECK_DEADLOCK FALSE
