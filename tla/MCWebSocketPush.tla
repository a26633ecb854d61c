--------------------------- MODULE MCWebSocketPush ---------------------------
(* Instances of WebSocketPush.  Lengths up to 2 are short, 3 and 4 take two *)
(* bytes, more takes eight; the buffer just holds the longest header.       *)
EXTENDS WebSocketPush

FrameOf(opcode, length, mask) ==
  [opcode |-> opcode, length |-> length, mask |-> mask]

MCCloseFrame == FrameOf("close", 2, FALSE)

\* Every class of length but the one that equals the first marker (126 in the
\* code, 3 here): its frame has the marker and no bytes of length.
MCFrame ==
  {MCCloseFrame, FrameOf("pong", 0, TRUE), FrameOf("text", 4, FALSE),
   FrameOf("binary", 5, FALSE)}

MCUnlock == {TRUE}
=============================================================================
