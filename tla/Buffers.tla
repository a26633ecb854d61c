------------------------------- MODULE Buffers -------------------------------
(***************************************************************************)
(* Push-pull buffers for the modules that fill and drain them: a buffer is *)
(* its data and the gap before it, bytes of the block that have been       *)
(* delivered.  PushPull models the buffers themselves, offset by offset.   *)
(***************************************************************************)
EXTENDS Integers, Sequences, SequencesExt, FiniteSetsExt

Empty == [gap |-> 0, data |-> <<>>]

\* CS_PP_onStaticBuffer: a buffer that is full of s.
Holding(s) == [gap |-> 0, data |-> s]

room(b, size) == size - b.gap - Len(b.data)

Put(b, s) == [b EXCEPT !.data = @ \o s]

\* The first n bytes leave a buffer; a buffer that is drained starts over.
Drop(b, n) ==
  IF n = Len(b.data) THEN Empty
  ELSE [gap |-> b.gap + n, data |-> SubSeq(b.data, n + 1, Len(b.data))]

makeRoom(b) == [b EXCEPT !.gap = 0]

BufferOK(b, size) == /\ b.gap \in 0..size
                     /\ b.gap + Len(b.data) <= size
=============================================================================
