----------------------------- MODULE MCPushPull -----------------------------
(* The instance of PushPull that TLC checks: a buffer of three bytes and    *)
(* one of two, so that the second is full while the first still has data.   *)
EXTENDS PushPull

MCBuffer == {"in", "out"}
MCByte   == 0..1
MCSize   == [b \in MCBuffer |-> IF b = "in" THEN 3 ELSE 2]
=============================================================================
