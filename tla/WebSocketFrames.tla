--------------------------- MODULE WebSocketFrames ---------------------------
(***************************************************************************)
(* The bytes of a web socket frame, for the half of src/websocket.c that   *)
(* sends them and the one that reads them.  A byte is a token that names   *)
(* what it carries.  The 7-bit length field is scaled down: lengths up to  *)
(* Short stand for themselves (125 in the code), the next two values       *)
(* announce 2 and 8 bytes of length (126 and 127), and Medium is the       *)
(* longest length of 2 bytes (65535).                                      *)
(***************************************************************************)
EXTENDS Integers, Sequences, SequencesExt

CONSTANTS Short, Medium

ASSUME LengthAssumption ==
  Short \in Nat /\ Medium \in Nat /\ Short + 1 < Medium

Marker16 == Short + 1
Marker64 == Short + 2

\* The low w bytes of the length n, most significant first.
SizeBytes(n, w) == [i \in 1..w |-> <<"size", n, w - i>>]
KeyBytes(f)     == IF f.mask THEN [i \in 1..4 |-> <<"key", f.opcode, i>>] ELSE <<>>
Payload(f)      == [i \in 1..f.length |-> <<"byte", f.opcode, i>>]
FirstByte(f)    == <<"op", f.opcode>>

Marker(f) == IF f.length <= Short THEN f.length
             ELSE IF f.length <= Medium THEN Marker16 ELSE Marker64

\* What the diagram in websocket.c (RFC 6455) asks for.
Encoding(f) ==
  <<FirstByte(f), <<"len", f.mask, Marker(f)>>>>
  \o (CASE Marker(f) = Marker16 -> SizeBytes(f.length, 2)
        [] Marker(f) = Marker64 -> SizeBytes(f.length, 8)
        [] OTHER -> <<>>)
  \o KeyBytes(f) \o Payload(f)

=============================================================================
