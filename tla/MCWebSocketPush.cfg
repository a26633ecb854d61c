SPECIFICATION FairSpec
CONSTANTS
  Senders = {s1, s2}
  NoSender = NoSender
  Frame <- MCFrame
  CloseFrame <- MCCloseFrame
  Short = 2
  Medium = 4
  BufferSize = 14
  UnlockArgs <- MCUnlock
  MaxPushes = 3
INVARIANTS TypeOK WireIsFrames PushedIsWhole
PROPERTIES MutexComesBack
CHECK_DEADLOCK FALSE
