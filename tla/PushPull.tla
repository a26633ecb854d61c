------------------------------ MODULE PushPull ------------------------------
(***************************************************************************)
(* The push-pull buffers of src/pushpull.c, through which every byte of a  *)
(* connection goes: a block of Size[b] bytes, the offset at which the next *)
(* byte comes in (currentReadOffset) and the offset at which the next byte *)
(* goes out (currentWriteOffset).  Several buffers, because the server, the*)
(* pipes and the web sockets move data from one to another.                *)
(*                                                                         *)
(* The descriptors, TLS connections and FILEs at the other end are the     *)
(* outside world: they give any bytes, take any part of what is offered, or*)
(* fail.  Callers pass no negative length.                                 *)
(***************************************************************************)
EXTENDS Integers, Sequences, FiniteSets

CONSTANTS Buffer,   (* the buffers                                          *)
          Byte,     (* the values of a byte                                 *)
          NUL,      (* the terminator snprintf writes                       *)
          Filler,   (* what BACKFILL writes                                 *)
          Size,     (* Size[b]: bytes of buffer b                           *)
          MaxLen    (* bound on the lengths callers ask for                 *)

ASSUME PushPullAssumption ==
  /\ NUL \in Byte /\ Filler \in Byte
  /\ Size \in [Buffer -> Nat]
  /\ MaxLen \in Nat

VARIABLES
  mem,                 (* mem[b][i]: byte i of the block, from 1            *)
  currentReadOffset,   (* where bytes come in                               *)
  currentWriteOffset,  (* where bytes go out                                *)
  err                  (* whether err is set                                *)

vars == <<mem, currentReadOffset, currentWriteOffset, err>>

Lengths == 0..MaxLen
Least(m, n) == IF m <= n THEN m ELSE n

dataSize(b) == currentReadOffset[b] - currentWriteOffset[b]
bufferRemaining(b) == Size[b] - currentReadOffset[b]

\* CS_PP_init, or CS_PP_onStaticBuffer around bytes that are already there.
Init ==
  /\ mem \in {m \in [Buffer -> UNION {[1..Size[b] -> Byte] : b \in Buffer}] :
               \A b \in Buffer : DOMAIN m[b] = 1..Size[b]}
  /\ \E full \in SUBSET Buffer :
       currentReadOffset = [b \in Buffer |-> IF b \in full THEN Size[b] ELSE 0]
  /\ currentWriteOffset = [b \in Buffer |-> 0]
  /\ err = [b \in Buffer |-> FALSE]

\* The block of b with the bytes s stored from offset o on.
Stored(b, o, s) ==
  [i \in 1..Size[b] |-> IF i \in (o + 1)..(o + Len(s)) THEN s[i - o] ELSE mem[b][i]]

\* The n bytes that go out next.
Front(b, n) == [i \in 1..n |-> mem[b][currentWriteOffset[b] + i]]

\* n bytes have gone out; a drained buffer starts again at offset 0.
Drained(b, n) == currentWriteOffset[b] + n = currentReadOffset[b]
Advance(b, n) ==
  /\ currentWriteOffset' =
       [currentWriteOffset EXCEPT ![b] = IF Drained(b, n) THEN 0 ELSE @ + n]
  /\ currentReadOffset' =
       [currentReadOffset EXCEPT ![b] = IF Drained(b, n) THEN 0 ELSE @]

-----------------------------------------------------------------------------
(* Bytes come in                                                            *)

\* CS_PP_readFromFile, Socket, SSL, FILE that deliver something.
ReadFrom(b) ==
  /\ \E n \in 1..bufferRemaining(b) :
       /\ \E s \in [1..n -> Byte] :
            mem' = [mem EXCEPT ![b] = Stored(b, currentReadOffset[b], s)]
       /\ currentReadOffset' = [currentReadOffset EXCEPT ![b] = @ + n]
  /\ err' = [err EXCEPT ![b] = FALSE]
  /\ UNCHANGED currentWriteOffset

\* ... that meet the end or an error, or find the buffer full.
ReadNothing(b) ==
  /\ \E e \in BOOLEAN :
       /\ e => bufferRemaining(b) > 0
       /\ err' = [err EXCEPT ![b] = e]
  /\ UNCHANGED <<mem, currentReadOffset, currentWriteOffset>>

\* Mutant: the length asked for is not cut to the room there is.
ReadFromBufferUncut(b) ==
  /\ bufferRemaining(b) > 0
  /\ \E n \in Lengths : currentReadOffset' = [currentReadOffset EXCEPT ![b] = @ + n]
  /\ UNCHANGED <<mem, currentWriteOffset, err>>

\* CS_PP_readFromBuffer: n bytes of the caller, or (source NULL, CS_PP_read)
\* n bytes the caller has stored at endOfData before.
ReadFromBuffer(b) ==
  /\ \E n \in Lengths :
       LET pulled == Least(n, bufferRemaining(b)) IN
       /\ \E s \in [1..pulled -> Byte] :
            mem' = [mem EXCEPT ![b] = Stored(b, currentReadOffset[b], s)]
       /\ currentReadOffset' = [currentReadOffset EXCEPT ![b] = @ + pulled]
  /\ UNCHANGED <<currentWriteOffset, err>>

\* CS_PP_printf: snprintf keeps the last byte of the room for its NUL but
\* answers the length of the whole text, so a text that fills the room, or
\* would go past it, leaves the NUL in the data.
Printf(b) ==
  /\ \E n \in Lengths :
       LET room == bufferRemaining(b)
           pulled == Least(n, room) IN
       /\ \E s \in [1..Least(n + 1, room) -> Byte] :
            /\ s # <<>> => s[Len(s)] = NUL
            /\ mem' = [mem EXCEPT ![b] = Stored(b, currentReadOffset[b], s)]
       /\ currentReadOffset' = [currentReadOffset EXCEPT ![b] = @ + pulled]
  /\ UNCHANGED <<currentWriteOffset, err>>

\* CS_PP_setFull
SetFull(b) ==
  /\ currentReadOffset' = [currentReadOffset EXCEPT ![b] = Size[b]]
  /\ UNCHANGED <<mem, currentWriteOffset, err>>

-----------------------------------------------------------------------------
(* Bytes go out                                                             *)

\* Mutant: a descriptor that takes everything leaves the offsets at the end.
WriteToNoRestart(b) ==
  /\ \E n \in 0..dataSize(b) :
       currentWriteOffset' = [currentWriteOffset EXCEPT ![b] = @ + n]
  /\ err' = [err EXCEPT ![b] = FALSE]
  /\ UNCHANGED <<mem, currentReadOffset>>

\* CS_PP_writeToFile, Socket, SSL, FILE: the other end takes a part, or all;
\* a buffer without data is left as it is.
WriteTo(b) ==
  /\ \/ dataSize(b) > 0 /\ \E n \in 0..dataSize(b) : Advance(b, n)
     \/ dataSize(b) = 0 /\ UNCHANGED <<currentReadOffset, currentWriteOffset>>
  /\ err' = [err EXCEPT ![b] = FALSE]
  /\ UNCHANGED mem

\* ... or fails.
WriteFails(b) ==
  /\ dataSize(b) > 0
  /\ err' = [err EXCEPT ![b] = TRUE]
  /\ UNCHANGED <<mem, currentReadOffset, currentWriteOffset>>

\* CS_PP_writeToBuffer and, without a destination, CS_PP_write.
WriteToBuffer(b) ==
  /\ dataSize(b) > 0
  /\ \E n \in Lengths : Advance(b, Least(n, dataSize(b)))
  /\ UNCHANGED <<mem, err>>

\* Mutant: the bytes are not copied before the source lets go of them.
MoveBufferUncopied(b, c) ==
  /\ dataSize(b) > 0 /\ bufferRemaining(c) > 0
  /\ \E max \in Lengths :
       LET n == Least(max, Least(dataSize(b), bufferRemaining(c))) IN
       /\ currentReadOffset' =
            [currentReadOffset EXCEPT ![b] = IF Drained(b, n) THEN 0 ELSE @, ![c] = @ + n]
       /\ currentWriteOffset' =
            [currentWriteOffset EXCEPT ![b] = IF Drained(b, n) THEN 0 ELSE @ + n]
  /\ UNCHANGED <<mem, err>>

\* CS_PP_moveBuffer and, with a maximum, CS_PP_moveBufferExplicit.
MoveBuffer(b, c) ==
  /\ dataSize(b) > 0 /\ bufferRemaining(c) > 0
  /\ \E max \in Lengths :
       LET n == Least(max, Least(dataSize(b), bufferRemaining(c))) IN
       /\ mem' = [mem EXCEPT ![c] = Stored(c, currentReadOffset[c], Front(b, n))]
       /\ currentReadOffset' =
            [currentReadOffset EXCEPT ![b] = IF Drained(b, n) THEN 0 ELSE @, ![c] = @ + n]
       /\ currentWriteOffset' =
            [currentWriteOffset EXCEPT ![b] = IF Drained(b, n) THEN 0 ELSE @ + n]
  /\ UNCHANGED err

-----------------------------------------------------------------------------
(* Editing in place                                                         *)

\* Mutant: the chunk is compared with the block, not with the data in it.
RemoveChunkUnchecked(b) ==
  /\ \E o, n \in Lengths :
       /\ o + n <= currentReadOffset[b]
       /\ currentReadOffset' = [currentReadOffset EXCEPT ![b] = @ - n]
  /\ UNCHANGED <<mem, currentWriteOffset, err>>

\* CS_PP_removeChunk: n bytes at offset o of the data; MOVE closes the gap,
\* BACKFILL covers the end.  CS_PP_removeOffEnd is the same for the last n.
RemoveChunk(b) ==
  /\ \E o, n \in Lengths :
       LET at == currentWriteOffset[b] + o
           end == currentReadOffset[b] - n IN
       /\ o + n <= dataSize(b)
       /\ mem' = [mem EXCEPT ![b] =
            [i \in 1..Size[b] |->
               IF i \in (end + 1)..currentReadOffset[b] THEN Filler
               ELSE IF i \in (at + 1)..end THEN mem[b][i + n] ELSE mem[b][i]]]
       /\ currentReadOffset' = [currentReadOffset EXCEPT ![b] = end]
  /\ UNCHANGED <<currentWriteOffset, err>>

\* CS_PP_makeRoom
MakeRoom(b) ==
  /\ currentWriteOffset[b] > 0
  /\ mem' = [mem EXCEPT ![b] = Stored(b, 0, Front(b, dataSize(b)))]
  /\ currentWriteOffset' = [currentWriteOffset EXCEPT ![b] = 0]
  /\ currentReadOffset' = [currentReadOffset EXCEPT ![b] = dataSize(b)]
  /\ UNCHANGED err

\* CS_PP_toothpaste.  On a buffer at its start the count is believed (the
\* header: "Assumes you know what you are doing"): it is one that fits.
Toothpaste(b) ==
  /\ \E n \in Lengths :
       IF currentReadOffset[b] = 0 /\ currentWriteOffset[b] = 0
       THEN /\ n <= Size[b]
            /\ currentReadOffset' = [currentReadOffset EXCEPT ![b] = n]
            /\ UNCHANGED currentWriteOffset
       ELSE /\ n <= currentWriteOffset[b]
            /\ currentWriteOffset' = [currentWriteOffset EXCEPT ![b] = @ - n]
            /\ UNCHANGED currentReadOffset
  /\ UNCHANGED <<mem, err>>

\* CS_PP_rewind
Rewind(b) ==
  /\ currentWriteOffset' = [currentWriteOffset EXCEPT ![b] = 0]
  /\ UNCHANGED <<mem, currentReadOffset, err>>

\* CS_PP_reset
Reset(b) ==
  /\ currentReadOffset' = [currentReadOffset EXCEPT ![b] = 0]
  /\ currentWriteOffset' = [currentWriteOffset EXCEPT ![b] = 0]
  /\ UNCHANGED <<mem, err>>

Operation(b) ==
  \/ ReadFrom(b) \/ ReadNothing(b) \/ ReadFromBuffer(b) \/ Printf(b) \/ SetFull(b)
  \/ WriteTo(b) \/ WriteFails(b) \/ WriteToBuffer(b)
  \/ RemoveChunk(b) \/ MakeRoom(b) \/ Toothpaste(b) \/ Rewind(b) \/ Reset(b)

Next == \E b \in Buffer :
          Operation(b) \/ (\E c \in Buffer \ {b} : MoveBuffer(b, c))

Spec == Init /\ [][Next]_vars

-----------------------------------------------------------------------------
TypeOK ==
  /\ DOMAIN mem = Buffer /\ \A b \in Buffer : mem[b] \in [1..Size[b] -> Byte]
  /\ currentReadOffset \in [Buffer -> Nat]
  /\ currentWriteOffset \in [Buffer -> Nat]
  /\ err \in [Buffer -> BOOLEAN]
  /\ \A b \in Buffer : currentReadOffset[b] <= Size[b]

\* pushpull.h: "readOffset should always be >= writeOffset", whatever the
\* order in which the operations edit, rewind and drain the buffer.
OffsetsOrdered == \A b \in Buffer : currentWriteOffset[b] <= currentReadOffset[b]

\* An empty buffer has room.  A read into a full buffer answers 0, which the
\* callers (FillIncomingBuffer, the file stages of the pipes) take for the
\* end of the stream: a buffer drained at its far end would end it.
EmptyHasRoom ==
  \A b \in Buffer : (dataSize(b) = 0 /\ Size[b] > 0) => bufferRemaining(b) > 0

\* The buffers are bounded queues: see ByteQueue.
Data(b)   == Front(b, dataSize(b))
Behind(b) == SubSeq(mem[b], 1, currentWriteOffset[b])

Queue == INSTANCE ByteQueue WITH data <- [b \in Buffer |-> Data(b)],
                                 behind <- [b \in Buffer |-> Behind(b)]

\* Compaction, in-place editing, put-back and moves between buffers keep
\* every byte in its order.
ImplementsQueue == Queue!QueueSpec

IInv == TypeOK /\ OffsetsOrdered /\ EmptyHasRoom
=============================================================================
