SPECIFICATION Spec
CONSTANTS
  Buffer <- MCBuffer
  Byte <- MCByte
  NUL = 0
  Filler = 1
  Size <- MCSize
  MaxLen = 4
INVARIANTS TypeOK OffsetsOrdered EmptyHasRoom
PROPERTIES ImplementsQueue
