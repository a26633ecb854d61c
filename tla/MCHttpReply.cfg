CONSTANTS
  Replies <- MCReplies
  Size = 16
  Base = 4
SPECIFICATION Spec
INVARIANT OffsetAtFrame
CHECK_DEADLOCK FALSE
