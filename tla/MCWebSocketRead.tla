--------------------------- MODULE MCWebSocketRead ---------------------------
(* Lengths up to 2 are short, 3 and 4 take two bytes, more takes eight.     *)
EXTENDS WebSocketRead

FrameOf(opcode, length, mask) == [opcode |-> opcode, length |-> length, mask |-> mask]

MCScripts ==
  {<<FrameOf("ping", 2, TRUE), FrameOf("text", 0, TRUE)>>,
   <<FrameOf("ping", 0, FALSE), FrameOf("text", 1, FALSE)>>,
   <<FrameOf("close", 2, FALSE), FrameOf("text", 4, TRUE)>>,
   <<FrameOf("binary", 3, FALSE), FrameOf("pong", 1, FALSE), FrameOf("ping", 1, TRUE)>>,
   <<FrameOf("text", 5, FALSE)>>}
=============================================================================
