--------------------------- MODULE PushPullProofs ---------------------------
(***************************************************************************)
(* The offsets of the push-pull buffers stay ordered and inside the block, *)
(* and an empty buffer has room, for any number of buffers of any size.    *)
(* IInv (PushPull) is inductive as it stands: the order of the offsets     *)
(* needs their types, EmptyHasRoom needs the order.  The buffers implement *)
(* the queues of ByteQueue.                                                *)
(***************************************************************************)
EXTENDS PushPull, SequenceTheorems, TLAPS

LEMMA InitIInv == Init => IInv
<1> SUFFICES ASSUME Init PROVE IInv
    OBVIOUS
<1>1. TypeOK
  <2>1. DOMAIN mem = Buffer /\ \A b \in Buffer : mem[b] \in [1..Size[b] -> Byte]
    <3>1. /\ mem \in [Buffer -> UNION {[1..Size[b] -> Byte] : b \in Buffer}]
          /\ \A b \in Buffer : DOMAIN mem[b] = 1..Size[b]
        BY DEF Init
    <3>2. ASSUME NEW b \in Buffer PROVE mem[b] \in [1..Size[b] -> Byte]
      <4>1. PICK c \in Buffer : mem[b] \in [1..Size[c] -> Byte]
          BY <3>1
      <4> QED BY <3>1, <4>1
    <3> QED BY <3>1, <3>2
  <2>2. /\ currentReadOffset \in [Buffer -> Nat]
        /\ \A b \in Buffer : currentReadOffset[b] <= Size[b]
      BY PushPullAssumption DEF Init
  <2> QED BY <2>1, <2>2 DEF Init, TypeOK
<1>2. OffsetsOrdered
  <2>1. ASSUME NEW b \in Buffer PROVE 0 <= currentReadOffset[b] /\ currentWriteOffset[b] = 0
      BY PushPullAssumption DEF Init
  <2> QED BY <2>1 DEF OffsetsOrdered
<1>3. EmptyHasRoom
    BY PushPullAssumption DEF Init, EmptyHasRoom, dataSize, bufferRemaining
<1> QED BY <1>1, <1>2, <1>3 DEF IInv

-----------------------------------------------------------------------------
(* Every operation changes the offsets of one buffer (a move: of two) and   *)
(* stores bytes in one block.  The lemmas here split the invariant along    *)
(* that line.                                                               *)

\* What the invariant says of the two offsets of one buffer.
OffsetsOf(b, r, w) ==
  /\ r \in Nat /\ w \in Nat
  /\ w <= r /\ r <= Size[b]
  /\ (r = w /\ Size[b] > 0) => r < Size[b]

MemoryOK == DOMAIN mem = Buffer /\ \A b \in Buffer : mem[b] \in [1..Size[b] -> Byte]

LEMMA IInvByBuffer ==
  IInv <=> /\ MemoryOK
            /\ (err \in [Buffer -> BOOLEAN])
            /\ (currentReadOffset \in [Buffer -> Nat])
            /\ (currentWriteOffset \in [Buffer -> Nat])
            /\ \A b \in Buffer : OffsetsOf(b, currentReadOffset[b], currentWriteOffset[b])
<1> SUFFICES ASSUME (currentReadOffset \in [Buffer -> Nat]),
                    (currentWriteOffset \in [Buffer -> Nat])
             PROVE  (\A b \in Buffer :
                       OffsetsOf(b, currentReadOffset[b], currentWriteOffset[b]))
                    <=> /\ \A b \in Buffer : currentReadOffset[b] <= Size[b]
                        /\ OffsetsOrdered /\ EmptyHasRoom
    BY DEF IInv, TypeOK, MemoryOK
<1>1. ASSUME NEW b \in Buffer
      PROVE  OffsetsOf(b, currentReadOffset[b], currentWriteOffset[b])
             <=> /\ currentReadOffset[b] <= Size[b]
                 /\ currentWriteOffset[b] <= currentReadOffset[b]
                 /\ (dataSize(b) = 0 /\ Size[b] > 0) => bufferRemaining(b) > 0
  <2>1. /\ currentReadOffset[b] \in Nat /\ currentWriteOffset[b] \in Nat
        /\ Size[b] \in Nat
      BY PushPullAssumption
  <2> QED BY <2>1 DEF OffsetsOf, dataSize, bufferRemaining
<1> QED BY <1>1 DEF OffsetsOrdered, EmptyHasRoom

\* The same of the next state.
LEMMA IInvByBufferNext ==
  IInv' <=> /\ MemoryOK'
            /\ (err \in [Buffer -> BOOLEAN])'
            /\ (currentReadOffset \in [Buffer -> Nat])'
            /\ (currentWriteOffset \in [Buffer -> Nat])'
            /\ \A b \in Buffer : OffsetsOf(b, currentReadOffset'[b], currentWriteOffset'[b])
<1> SUFFICES ASSUME (currentReadOffset \in [Buffer -> Nat])',
                    (currentWriteOffset \in [Buffer -> Nat])'
             PROVE  (\A b \in Buffer :
                       OffsetsOf(b, currentReadOffset'[b], currentWriteOffset'[b]))
                    <=> /\ \A b \in Buffer : currentReadOffset'[b] <= Size[b]
                        /\ OffsetsOrdered' /\ EmptyHasRoom'
    BY DEF IInv, TypeOK, MemoryOK
<1>1. ASSUME NEW b \in Buffer
      PROVE  OffsetsOf(b, currentReadOffset'[b], currentWriteOffset'[b])
             <=> /\ currentReadOffset'[b] <= Size[b]
                 /\ currentWriteOffset'[b] <= currentReadOffset'[b]
                 /\ (dataSize(b)' = 0 /\ Size[b] > 0) => bufferRemaining(b)' > 0
  <2>1. /\ currentReadOffset'[b] \in Nat /\ currentWriteOffset'[b] \in Nat
        /\ Size[b] \in Nat
      BY PushPullAssumption
  <2> QED BY <2>1 DEF OffsetsOf, dataSize, bufferRemaining
<1> QED BY <1>1 DEF OffsetsOrdered, EmptyHasRoom

\* A block with bytes stored in it is a block.
LEMMA StoredType ==
  ASSUME MemoryOK, NEW b \in Buffer, NEW o \in Nat, NEW n \in Nat,
         NEW s \in [1..n -> Byte]
  PROVE  Stored(b, o, s) \in [1..Size[b] -> Byte]
<1>1. s \in Seq(Byte) /\ Len(s) = n
    OBVIOUS
<1>2. ASSUME NEW i \in (o + 1)..(o + n) PROVE s[i - o] \in Byte
    OBVIOUS
<1> QED BY <1>1, <1>2, PushPullAssumption DEF Stored, MemoryOK

LEMMA FrontType ==
  ASSUME IInv, NEW b \in Buffer, NEW n \in Nat, n <= dataSize(b)
  PROVE  Front(b, n) \in [1..n -> Byte]
<1>1. ASSUME NEW i \in 1..n PROVE mem[b][currentWriteOffset[b] + i] \in Byte
  <2>1. currentWriteOffset[b] + i \in 1..Size[b]
      BY PushPullAssumption DEF IInv, TypeOK, OffsetsOrdered, dataSize
  <2> QED BY <2>1 DEF IInv, TypeOK
<1> QED BY <1>1 DEF Front

\* Putting a block of the right kind in place of another keeps the memory.
LEMMA MemoryUpdate ==
  ASSUME MemoryOK, NEW b \in Buffer, NEW m \in [1..Size[b] -> Byte],
         mem' = [mem EXCEPT ![b] = m]
  PROVE  MemoryOK'
BY DEF MemoryOK

\* Changing the offsets of one buffer to ordered ones keeps the rest.
LEMMA OffsetsUpdate ==
  ASSUME IInv, NEW b \in Buffer, NEW r, NEW w, OffsetsOf(b, r, w),
         MemoryOK', (err \in [Buffer -> BOOLEAN])',
         currentReadOffset' = [currentReadOffset EXCEPT ![b] = r],
         currentWriteOffset' = [currentWriteOffset EXCEPT ![b] = w]
  PROVE  IInv'
<1>1. /\ currentReadOffset \in [Buffer -> Nat]
      /\ currentWriteOffset \in [Buffer -> Nat]
      /\ \A c \in Buffer : OffsetsOf(c, currentReadOffset[c], currentWriteOffset[c])
    BY IInvByBuffer
<1>2. r \in Nat /\ w \in Nat
    BY DEF OffsetsOf
<1>3. (currentReadOffset \in [Buffer -> Nat] /\ currentWriteOffset \in [Buffer -> Nat])'
    BY <1>1, <1>2
<1>4. ASSUME NEW c \in Buffer
      PROVE  OffsetsOf(c, currentReadOffset'[c], currentWriteOffset'[c])
  <2>1. CASE c = b
      BY <1>1, <2>1
  <2>2. CASE c # b
      BY <1>1, <2>2
  <2> QED BY <2>1, <2>2
<1> QED BY <1>3, <1>4, IInvByBufferNext

-----------------------------------------------------------------------------
(* What the invariant gives for one buffer before a step.                   *)

LEMMA OffsetsNow ==
  ASSUME IInv, NEW b \in Buffer
  PROVE  /\ currentReadOffset[b] \in Nat /\ currentWriteOffset[b] \in Nat
         /\ Size[b] \in Nat
         /\ currentWriteOffset[b] <= currentReadOffset[b]
         /\ currentReadOffset[b] <= Size[b]
         /\ (currentReadOffset[b] = currentWriteOffset[b] /\ Size[b] > 0)
               => currentReadOffset[b] < Size[b]
BY IInvByBuffer, PushPullAssumption DEF OffsetsOf

\* Functions that are left alone are updated to what they are.
LEMMA Unchanged1 ==
  ASSUME IInv, NEW b \in Buffer
  PROVE  /\ currentReadOffset = [currentReadOffset EXCEPT ![b] = @]
         /\ currentWriteOffset = [currentWriteOffset EXCEPT ![b] = @]
BY DEF IInv, TypeOK

\* Bytes that come in: the read offset grows by no more than the room.
LEMMA Grow ==
  ASSUME IInv, NEW b \in Buffer, NEW n \in Nat, n <= bufferRemaining(b),
         MemoryOK', (err \in [Buffer -> BOOLEAN])',
         currentReadOffset' = [currentReadOffset EXCEPT ![b] = @ + n],
         currentWriteOffset' = currentWriteOffset
  PROVE  IInv'
<1>1. OffsetsOf(b, currentReadOffset[b] + n, currentWriteOffset[b])
    BY OffsetsNow DEF OffsetsOf, bufferRemaining
<1> QED BY <1>1, OffsetsUpdate, Unchanged1

\* Bytes that go out: the write offset moves on, or both restart at 0.
LEMMA AdvanceOffsets ==
  ASSUME IInv, NEW b \in Buffer, NEW n \in Nat, n <= dataSize(b)
  PROVE  OffsetsOf(b, IF Drained(b, n) THEN 0 ELSE currentReadOffset[b],
                      IF Drained(b, n) THEN 0 ELSE currentWriteOffset[b] + n)
<1>1. CASE Drained(b, n)
    BY <1>1, OffsetsNow DEF OffsetsOf
<1>2. CASE ~Drained(b, n)
    BY <1>2, OffsetsNow DEF OffsetsOf, Drained, dataSize
<1> QED BY <1>1, <1>2

LEMMA Shrink ==
  ASSUME IInv, NEW b \in Buffer, NEW n \in Nat, n <= dataSize(b), Advance(b, n),
         UNCHANGED mem, (err \in [Buffer -> BOOLEAN])'
  PROVE  IInv'
<1>1. MemoryOK'
    BY IInvByBuffer DEF MemoryOK
<1> QED BY <1>1, AdvanceOffsets, OffsetsUpdate DEF Advance

LEMMA Room ==
  ASSUME IInv, NEW b \in Buffer
  PROVE  bufferRemaining(b) \in Nat /\ dataSize(b) \in Nat
BY OffsetsNow DEF bufferRemaining, dataSize

-----------------------------------------------------------------------------
(* One lemma per operation.                                                 *)

LEMMA ReadFromStep == ASSUME IInv, NEW b \in Buffer, ReadFrom(b) PROVE IInv'
<1>1. PICK n \in 1..bufferRemaining(b) :
        /\ \E s \in [1..n -> Byte] :
             mem' = [mem EXCEPT ![b] = Stored(b, currentReadOffset[b], s)]
        /\ currentReadOffset' = [currentReadOffset EXCEPT ![b] = @ + n]
    BY DEF ReadFrom
<1>2. n \in Nat /\ n <= bufferRemaining(b)
    BY Room
<1>3. MemoryOK'
    BY <1>1, <1>2, IInvByBuffer, OffsetsNow, StoredType, MemoryUpdate
<1>4. (err \in [Buffer -> BOOLEAN])'
    BY IInvByBuffer DEF ReadFrom
<1> QED BY <1>1, <1>2, <1>3, <1>4, Grow DEF ReadFrom

LEMMA ReadNothingStep == ASSUME IInv, NEW b \in Buffer, ReadNothing(b) PROVE IInv'
<1>1. MemoryOK' /\ (err \in [Buffer -> BOOLEAN])'
    BY IInvByBuffer DEF ReadNothing, MemoryOK
<1> QED BY <1>1, IInvByBuffer, IInvByBufferNext DEF ReadNothing

LEMMA ReadFromBufferStep ==
  ASSUME IInv, NEW b \in Buffer, ReadFromBuffer(b) PROVE IInv'
<1>1. PICK n \in Lengths :
        /\ \E s \in [1..Least(n, bufferRemaining(b)) -> Byte] :
             mem' = [mem EXCEPT ![b] = Stored(b, currentReadOffset[b], s)]
        /\ currentReadOffset' =
             [currentReadOffset EXCEPT ![b] = @ + Least(n, bufferRemaining(b))]
    BY DEF ReadFromBuffer
<1>2. /\ Least(n, bufferRemaining(b)) \in Nat
      /\ Least(n, bufferRemaining(b)) <= bufferRemaining(b)
  <2>1. n \in Nat /\ bufferRemaining(b) \in Nat
      BY Room, PushPullAssumption DEF Lengths
  <2> QED BY <2>1 DEF Least
<1>3. MemoryOK'
    BY <1>1, <1>2, IInvByBuffer, OffsetsNow, StoredType, MemoryUpdate
<1>4. (err \in [Buffer -> BOOLEAN])'
    BY IInvByBuffer DEF ReadFromBuffer
<1> QED BY <1>1, <1>2, <1>3, <1>4, Grow DEF ReadFromBuffer

LEMMA PrintfStep == ASSUME IInv, NEW b \in Buffer, Printf(b) PROVE IInv'
<1>1. PICK n \in Lengths :
        /\ \E s \in [1..Least(n + 1, bufferRemaining(b)) -> Byte] :
             mem' = [mem EXCEPT ![b] = Stored(b, currentReadOffset[b], s)]
        /\ currentReadOffset' =
             [currentReadOffset EXCEPT ![b] = @ + Least(n, bufferRemaining(b))]
    BY DEF Printf
<1>2. /\ Least(n, bufferRemaining(b)) \in Nat
      /\ Least(n, bufferRemaining(b)) <= bufferRemaining(b)
      /\ Least(n + 1, bufferRemaining(b)) \in Nat
  <2>1. n \in Nat /\ bufferRemaining(b) \in Nat
      BY Room, PushPullAssumption DEF Lengths
  <2> QED BY <2>1 DEF Least
<1>3. MemoryOK'
    BY <1>1, <1>2, IInvByBuffer, OffsetsNow, StoredType, MemoryUpdate
<1>4. (err \in [Buffer -> BOOLEAN])'
    BY IInvByBuffer DEF Printf
<1> QED BY <1>1, <1>2, <1>3, <1>4, Grow DEF Printf

LEMMA SetFullStep == ASSUME IInv, NEW b \in Buffer, SetFull(b) PROVE IInv'
<1>1. OffsetsOf(b, Size[b], currentWriteOffset[b])
    BY OffsetsNow DEF OffsetsOf
<1>2. MemoryOK' /\ (err \in [Buffer -> BOOLEAN])'
    BY IInvByBuffer DEF SetFull, MemoryOK
<1> QED BY <1>1, <1>2, OffsetsUpdate, Unchanged1 DEF SetFull

LEMMA WriteToStep == ASSUME IInv, NEW b \in Buffer, WriteTo(b) PROVE IInv'
<1>1. (err \in [Buffer -> BOOLEAN])'
    BY IInvByBuffer DEF WriteTo
<1>2. ASSUME NEW n \in 0..dataSize(b), Advance(b, n) PROVE IInv'
  <2>1. n \in Nat /\ n <= dataSize(b)
      BY Room
  <2> QED BY <1>1, <1>2, <2>1, Shrink DEF WriteTo
<1>3. CASE UNCHANGED <<currentReadOffset, currentWriteOffset>>
  <2>1. MemoryOK'
      BY <1>3, IInvByBuffer DEF WriteTo, MemoryOK
  <2> QED BY <1>1, <1>3, <2>1, IInvByBuffer, IInvByBufferNext
<1> QED BY <1>2, <1>3 DEF WriteTo

LEMMA WriteFailsStep == ASSUME IInv, NEW b \in Buffer, WriteFails(b) PROVE IInv'
<1>1. MemoryOK' /\ (err \in [Buffer -> BOOLEAN])'
    BY IInvByBuffer DEF WriteFails, MemoryOK
<1> QED BY <1>1, IInvByBuffer, IInvByBufferNext DEF WriteFails

LEMMA WriteToBufferStep ==
  ASSUME IInv, NEW b \in Buffer, WriteToBuffer(b) PROVE IInv'
<1>1. PICK n \in Lengths : Advance(b, Least(n, dataSize(b)))
    BY DEF WriteToBuffer
<1>2. Least(n, dataSize(b)) \in Nat /\ Least(n, dataSize(b)) <= dataSize(b)
  <2>1. n \in Nat /\ dataSize(b) \in Nat
      BY Room, PushPullAssumption DEF Lengths
  <2> QED BY <2>1 DEF Least
<1>3. (err \in [Buffer -> BOOLEAN])'
    BY IInvByBuffer DEF WriteToBuffer
<1> QED BY <1>1, <1>2, <1>3, Shrink DEF WriteToBuffer

LEMMA RemoveChunkStep == ASSUME IInv, NEW b \in Buffer, RemoveChunk(b) PROVE IInv'
<1>1. PICK o \in Lengths, n \in Lengths :
        /\ o + n <= dataSize(b)
        /\ mem' = [mem EXCEPT ![b] =
             [i \in 1..Size[b] |->
                IF i \in (currentReadOffset[b] - n + 1)..currentReadOffset[b] THEN Filler
                ELSE IF i \in (currentWriteOffset[b] + o + 1)..(currentReadOffset[b] - n)
                     THEN mem[b][i + n] ELSE mem[b][i]]]
        /\ currentReadOffset' = [currentReadOffset EXCEPT ![b] = currentReadOffset[b] - n]
    BY DEF RemoveChunk
<1>2. o \in Nat /\ n \in Nat
    BY PushPullAssumption DEF Lengths
<1>3. OffsetsOf(b, currentReadOffset[b] - n, currentWriteOffset[b])
    BY <1>1, <1>2, OffsetsNow DEF OffsetsOf, dataSize
<1>4. ASSUME NEW i \in (currentWriteOffset[b] + o + 1)..(currentReadOffset[b] - n)
      PROVE  i + n \in 1..Size[b]
    BY <1>1, <1>2, OffsetsNow
<1>5. MemoryOK'
    BY <1>1, <1>4, IInvByBuffer, MemoryUpdate, PushPullAssumption DEF MemoryOK
<1>6. (err \in [Buffer -> BOOLEAN])'
    BY IInvByBuffer DEF RemoveChunk
<1> QED BY <1>1, <1>3, <1>5, <1>6, OffsetsUpdate, Unchanged1 DEF RemoveChunk

LEMMA MakeRoomStep == ASSUME IInv, NEW b \in Buffer, MakeRoom(b) PROVE IInv'
<1>1. OffsetsOf(b, dataSize(b), 0)
    BY OffsetsNow DEF OffsetsOf, dataSize, MakeRoom
<1>2. Front(b, dataSize(b)) \in [1..dataSize(b) -> Byte]
    BY Room, FrontType
<1>3. MemoryOK'
    BY <1>2, Room, IInvByBuffer, StoredType, MemoryUpdate DEF MakeRoom
<1>4. (err \in [Buffer -> BOOLEAN])'
    BY IInvByBuffer DEF MakeRoom
<1> QED BY <1>1, <1>3, <1>4, OffsetsUpdate DEF MakeRoom

LEMMA ToothpasteStep == ASSUME IInv, NEW b \in Buffer, Toothpaste(b) PROVE IInv'
<1>1. MemoryOK' /\ (err \in [Buffer -> BOOLEAN])'
    BY IInvByBuffer DEF Toothpaste, MemoryOK
<1>2. CASE currentReadOffset[b] = 0 /\ currentWriteOffset[b] = 0
  <2>1. PICK n \in Lengths :
          /\ n <= Size[b]
          /\ currentReadOffset' = [currentReadOffset EXCEPT ![b] = n]
          /\ UNCHANGED currentWriteOffset
      BY <1>2 DEF Toothpaste
  <2>2. OffsetsOf(b, n, currentWriteOffset[b])
      BY <1>2, <2>1, PushPullAssumption, OffsetsNow DEF Lengths, OffsetsOf
  <2> QED BY <1>1, <2>1, <2>2, OffsetsUpdate, Unchanged1
<1>3. CASE ~(currentReadOffset[b] = 0 /\ currentWriteOffset[b] = 0)
  <2>1. PICK n \in Lengths :
          /\ n <= currentWriteOffset[b]
          /\ currentWriteOffset' = [currentWriteOffset EXCEPT ![b] = @ - n]
          /\ UNCHANGED currentReadOffset
      BY <1>3 DEF Toothpaste
  <2>2. OffsetsOf(b, currentReadOffset[b], currentWriteOffset[b] - n)
      BY <2>1, PushPullAssumption, OffsetsNow DEF Lengths, OffsetsOf
  <2> QED BY <1>1, <2>1, <2>2, OffsetsUpdate, Unchanged1
<1> QED BY <1>2, <1>3

LEMMA RewindStep == ASSUME IInv, NEW b \in Buffer, Rewind(b) PROVE IInv'
<1>1. OffsetsOf(b, currentReadOffset[b], 0)
    BY OffsetsNow DEF OffsetsOf
<1>2. MemoryOK' /\ (err \in [Buffer -> BOOLEAN])'
    BY IInvByBuffer DEF Rewind, MemoryOK
<1> QED BY <1>1, <1>2, OffsetsUpdate, Unchanged1 DEF Rewind

LEMMA ResetStep == ASSUME IInv, NEW b \in Buffer, Reset(b) PROVE IInv'
<1>1. OffsetsOf(b, 0, 0)
    BY OffsetsNow DEF OffsetsOf
<1>2. MemoryOK' /\ (err \in [Buffer -> BOOLEAN])'
    BY IInvByBuffer DEF Reset, MemoryOK
<1> QED BY <1>1, <1>2, OffsetsUpdate DEF Reset

\* A move drains one buffer and grows another.
LEMMA MoveBufferStep ==
  ASSUME IInv, NEW b \in Buffer, NEW c \in Buffer \ {b}, MoveBuffer(b, c)
  PROVE  IInv'
<1> DEFINE upTo(max) == Least(max, Least(dataSize(b), bufferRemaining(c)))
<1>1. PICK max \in Lengths :
        /\ mem' = [mem EXCEPT ![c] = Stored(c, currentReadOffset[c], Front(b, upTo(max)))]
        /\ currentReadOffset' =
             [currentReadOffset EXCEPT ![b] = IF Drained(b, upTo(max)) THEN 0 ELSE @,
                                       ![c] = @ + upTo(max)]
        /\ currentWriteOffset' =
             [currentWriteOffset EXCEPT ![b] = IF Drained(b, upTo(max)) THEN 0 ELSE @ + upTo(max)]
    BY DEF MoveBuffer
<1> DEFINE n == upTo(max)
<1>2. n \in Nat /\ n <= dataSize(b) /\ n <= bufferRemaining(c)
  <2>1. /\ dataSize(b) \in Nat /\ bufferRemaining(c) \in Nat /\ max \in Nat
      BY Room, PushPullAssumption DEF Lengths
  <2> QED BY <2>1 DEF Least
<1> HIDE DEF n, upTo
<1>3. MemoryOK'
  <2>1. Front(b, n) \in [1..n -> Byte]
      BY <1>2, FrontType
  <2> QED BY <1>1, <1>2, <2>1, IInvByBuffer, OffsetsNow, StoredType, MemoryUpdate DEF n
<1>4. (err \in [Buffer -> BOOLEAN])'
    BY IInvByBuffer DEF MoveBuffer
<1> DEFINE r == IF Drained(b, n) THEN 0 ELSE currentReadOffset[b]
           w == IF Drained(b, n) THEN 0 ELSE currentWriteOffset[b] + n
<1>5. OffsetsOf(b, r, w)
    BY <1>2, AdvanceOffsets
<1>6. OffsetsOf(c, currentReadOffset[c] + n, currentWriteOffset[c])
    BY <1>2, OffsetsNow DEF OffsetsOf, bufferRemaining
<1>7. r \in Nat /\ w \in Nat /\ currentReadOffset[c] + n \in Nat
    BY <1>5, <1>6 DEF OffsetsOf
<1>8. /\ currentReadOffset' = [currentReadOffset EXCEPT ![b] = r, ![c] = @ + n]
      /\ currentWriteOffset' = [currentWriteOffset EXCEPT ![b] = w]
    BY <1>1 DEF n
<1> HIDE DEF r, w
<1>9. (currentReadOffset \in [Buffer -> Nat] /\ currentWriteOffset \in [Buffer -> Nat])'
    BY <1>7, <1>8, IInvByBuffer
<1>10. ASSUME NEW d \in Buffer
       PROVE  OffsetsOf(d, currentReadOffset'[d], currentWriteOffset'[d])
  <2>1. CASE d = b
      BY <1>5, <1>8, <2>1, IInvByBuffer
  <2>2. CASE d = c
      BY <1>6, <1>8, <2>2, IInvByBuffer
  <2>3. CASE d # b /\ d # c
      BY <1>8, <2>3, IInvByBuffer
  <2> QED BY <2>1, <2>2, <2>3
<1> QED BY <1>3, <1>4, <1>9, <1>10, IInvByBufferNext

LEMMA StepIInv == IInv /\ [Next]_vars => IInv'
<1> SUFFICES ASSUME IInv, [Next]_vars PROVE IInv'
    OBVIOUS
<1>1. ASSUME NEW b \in Buffer, Operation(b) PROVE IInv'
    BY <1>1, ReadFromStep, ReadNothingStep, ReadFromBufferStep, PrintfStep, SetFullStep,
       WriteToStep, WriteFailsStep, WriteToBufferStep, RemoveChunkStep, MakeRoomStep,
       ToothpasteStep, RewindStep, ResetStep
    DEF Operation
<1>2. ASSUME NEW b \in Buffer, NEW c \in Buffer \ {b}, MoveBuffer(b, c) PROVE IInv'
    BY <1>2, MoveBufferStep
<1>3. ASSUME UNCHANGED vars PROVE IInv'
    BY <1>3 DEF vars, IInv, TypeOK, OffsetsOrdered, EmptyHasRoom, dataSize, bufferRemaining
<1> QED BY <1>1, <1>2, <1>3 DEF Next

LEMMA Inductive == Spec => []IInv
BY InitIInv, StepIInv, PTL DEF Spec

\* The offsets and the bytes keep their types and stay inside the block.
THEOREM TypeCorrect == Spec => []TypeOK
BY Inductive, PTL DEF IInv

\* pushpull.h: "readOffset should always be >= writeOffset".
THEOREM Ordered == Spec => []OffsetsOrdered
BY Inductive, PTL DEF IInv

\* A drained buffer takes more data: no reader mistakes it for a stream that
\* has ended.
THEOREM RoomWhenEmpty == Spec => []EmptyHasRoom
BY Inductive, PTL DEF IInv

-----------------------------------------------------------------------------
(***************************************************************************)
(* The buffers implement the bounded queues of ByteQueue.                  *)
(***************************************************************************)

QData   == [b \in Buffer |-> Data(b)]
QBehind == [b \in Buffer |-> Behind(b)]

\* A step that leaves the queues of all buffers but those of B alone.
Elsewhere(B) ==
  \A c \in Buffer \ B : Data(c)' = Data(c) /\ Behind(c)' = Behind(c)

-----------------------------------------------------------------------------
(* The two parts of a block as sequences.                                   *)

LEMMA Views ==
  IInv => \A b \in Buffer :
    /\ Data(b) \in Seq(Byte) /\ Len(Data(b)) = dataSize(b)
    /\ \A i \in 1..dataSize(b) : Data(b)[i] = mem[b][currentWriteOffset[b] + i]
    /\ Behind(b) \in Seq(Byte) /\ Len(Behind(b)) = currentWriteOffset[b]
    /\ \A i \in 1..currentWriteOffset[b] : Behind(b)[i] = mem[b][i]
<1> SUFFICES ASSUME IInv, NEW b \in Buffer
             PROVE  /\ Data(b) \in Seq(Byte) /\ Len(Data(b)) = dataSize(b)
                    /\ \A i \in 1..dataSize(b) :
                         Data(b)[i] = mem[b][currentWriteOffset[b] + i]
                    /\ Behind(b) \in Seq(Byte)
                    /\ Len(Behind(b)) = currentWriteOffset[b]
                    /\ \A i \in 1..currentWriteOffset[b] : Behind(b)[i] = mem[b][i]
    OBVIOUS
<1>1. dataSize(b) \in Nat /\ Data(b) \in [1..dataSize(b) -> Byte]
    BY Room, FrontType DEF Data
<1>2. Data(b) \in Seq(Byte) /\ Len(Data(b)) = dataSize(b)
    BY <1>1
<1>3. \A i \in 1..dataSize(b) : Data(b)[i] = mem[b][currentWriteOffset[b] + i]
    BY DEF Data, Front
<1>4. /\ currentWriteOffset[b] \in Nat
      /\ \A i \in 1..currentWriteOffset[b] : mem[b][i] \in Byte
  <2>1. mem[b] \in [1..Size[b] -> Byte]
      BY IInvByBuffer DEF MemoryOK
  <2> QED BY <2>1, OffsetsNow
<1>5. /\ Behind(b) \in Seq(Byte) /\ Len(Behind(b)) = currentWriteOffset[b]
      /\ \A i \in 1..currentWriteOffset[b] : Behind(b)[i] = mem[b][i]
  <2> DEFINE w == currentWriteOffset[b]
  <2>1. /\ SubSeq(mem[b], 1, w) \in Seq(Byte)
        /\ Len(SubSeq(mem[b], 1, w)) = IF 1 <= w THEN w - 1 + 1 ELSE 0
        /\ \A i \in 1..(w - 1 + 1) : SubSeq(mem[b], 1, w)[i] = mem[b][1 + i - 1]
      BY <1>4, SubSeqProperties
  <2> QED BY <1>4, <2>1 DEF Behind
<1> QED BY <1>2, <1>3, <1>5

\* The same of the next state.
LEMMA ViewsNext ==
  IInv' => \A b \in Buffer :
    /\ Data(b)' \in Seq(Byte) /\ Len(Data(b)') = dataSize(b)'
    /\ \A i \in 1..dataSize(b)' : Data(b)'[i] = mem'[b][currentWriteOffset'[b] + i]
    /\ Behind(b)' \in Seq(Byte) /\ Len(Behind(b)') = currentWriteOffset'[b]
    /\ \A i \in 1..currentWriteOffset'[b] : Behind(b)'[i] = mem'[b][i]
<1>1. (IInv => \A b \in Buffer :
         /\ Data(b) \in Seq(Byte) /\ Len(Data(b)) = dataSize(b)
         /\ \A i \in 1..dataSize(b) : Data(b)[i] = mem[b][currentWriteOffset[b] + i]
         /\ Behind(b) \in Seq(Byte) /\ Len(Behind(b)) = currentWriteOffset[b]
         /\ \A i \in 1..currentWriteOffset[b] : Behind(b)[i] = mem[b][i])'
    BY Views, PTL
<1> QED BY <1>1

\* To know the queue of the next state it is enough to know its bytes.
LEMMA DataIs ==
  ASSUME IInv', NEW b \in Buffer, NEW s \in Seq(Byte), Len(s) = dataSize(b)',
         \A i \in 1..Len(s) : s[i] = mem'[b][currentWriteOffset'[b] + i]
  PROVE  Data(b)' = s
<1>1. /\ Data(b)' \in Seq(Byte) /\ Len(Data(b)') = Len(s)
      /\ \A i \in 1..Len(s) : Data(b)'[i] = s[i]
    BY ViewsNext, SMTT(20)
<1> QED BY <1>1, SeqEqual

LEMMA BehindIs ==
  ASSUME IInv', NEW b \in Buffer, NEW s \in Seq(Byte),
         Len(s) = currentWriteOffset'[b],
         \A i \in 1..Len(s) : s[i] = mem'[b][i]
  PROVE  Behind(b)' = s
<1>1. /\ Behind(b)' \in Seq(Byte) /\ Len(Behind(b)') = Len(s)
      /\ \A i \in 1..Len(s) : Behind(b)'[i] = s[i]
    BY ViewsNext
<1> QED BY <1>1, SeqEqual

\* A buffer whose block and offsets stay keeps its queue.
LEMMA SameView ==
  ASSUME NEW c \in Buffer, mem'[c] = mem[c],
         currentReadOffset'[c] = currentReadOffset[c],
         currentWriteOffset'[c] = currentWriteOffset[c]
  PROVE  Data(c)' = Data(c) /\ Behind(c)' = Behind(c)
BY DEF Data, Front, dataSize, Behind

\* What was delivered stays as long as its bytes and the offset do.
LEMMA BehindStays ==
  ASSUME IInv, IInv', NEW b \in Buffer,
         currentWriteOffset'[b] = currentWriteOffset[b],
         \A i \in 1..currentWriteOffset[b] : mem'[b][i] = mem[b][i]
  PROVE  Behind(b)' = Behind(b)
<1>1. /\ Behind(b) \in Seq(Byte) /\ Len(Behind(b)) = currentWriteOffset[b]
      /\ \A i \in 1..currentWriteOffset[b] : Behind(b)[i] = mem[b][i]
    BY Views
<1> QED BY <1>1, BehindIs

LEMMA DataStays ==
  ASSUME IInv, IInv', NEW b \in Buffer, dataSize(b)' = dataSize(b),
         \A i \in 1..dataSize(b) : mem'[b][currentWriteOffset'[b] + i]
                                      = mem[b][currentWriteOffset[b] + i]
  PROVE  Data(b)' = Data(b)
<1>1. /\ Data(b) \in Seq(Byte) /\ Len(Data(b)) = dataSize(b)
      /\ \A i \in 1..dataSize(b) : Data(b)[i] = mem[b][currentWriteOffset[b] + i]
    BY Views
<1> QED BY <1>1, DataIs

LEMMA BehindForgotten ==
  ASSUME IInv', NEW b \in Buffer, currentWriteOffset'[b] = 0
  PROVE  Behind(b)' = <<>>
<1>1. Behind(b)' \in Seq(Byte) /\ Len(Behind(b)') = 0
    BY ViewsNext
<1> QED BY <1>1, EmptySeq

\* One buffer changes: the queues are updated in one place.
LEMMA OneQueue ==
  ASSUME NEW b \in Buffer, Elsewhere({b})
  PROVE  /\ QData' = [QData EXCEPT ![b] = Data(b)']
         /\ QBehind' = [QBehind EXCEPT ![b] = Behind(b)']
         /\ QData[b] = Data(b) /\ QBehind[b] = Behind(b)
         /\ Data(b)' = Data(b) => QData' = QData
         /\ Behind(b)' = Behind(b) => QBehind' = QBehind
BY DEF QData, QBehind, Elsewhere

\* Bytes stored at the end of the data leave the data alone.
LEMMA StoredBehind ==
  ASSUME IInv, NEW b \in Buffer, NEW n \in Nat, n <= bufferRemaining(b),
         NEW k \in Nat, n <= k, NEW s \in [1..k -> Byte],
         mem'[b] = Stored(b, currentReadOffset[b], s)
  PROVE  /\ \A i \in 1..currentReadOffset[b] : mem'[b][i] = mem[b][i]
         /\ \A i \in 1..n : mem'[b][currentReadOffset[b] + i] = s[i]
<1> DEFINE r == currentReadOffset[b]
<1>1. r \in Nat /\ Size[b] \in Nat /\ r + n <= Size[b]
    BY OffsetsNow DEF bufferRemaining
<1>2. Len(s) = k
    OBVIOUS
<1>3. mem'[b] = [i \in 1..Size[b] |->
                   IF i \in (r + 1)..(r + k) THEN s[i - r] ELSE mem[b][i]]
    BY <1>2 DEF Stored
<1> HIDE DEF r
<1>4. ASSUME NEW i \in 1..r PROVE mem'[b][i] = mem[b][i]
  <2>1. i \in 1..Size[b] /\ i \notin (r + 1)..(r + k)
      BY <1>1
  <2> QED BY <1>3, <2>1
<1>5. ASSUME NEW i \in 1..n PROVE mem'[b][r + i] = s[i]
  <2>1. r + i \in 1..Size[b] /\ r + i \in (r + 1)..(r + k) /\ (r + i) - r = i
      BY <1>1
  <2> QED BY <1>3, <2>1
<1> QED BY <1>4, <1>5 DEF r

\* Buffers other than b keep their queues when only b changes.
LEMMA OnlyOne ==
  ASSUME IInv, NEW b \in Buffer, NEW r, NEW w,
         \A c \in Buffer \ {b} : mem'[c] = mem[c],
         currentReadOffset' = [currentReadOffset EXCEPT ![b] = r],
         currentWriteOffset' = [currentWriteOffset EXCEPT ![b] = w]
  PROVE  /\ Elsewhere({b})
         /\ currentReadOffset'[b] = r /\ currentWriteOffset'[b] = w
<1>1. /\ currentReadOffset'[b] = r /\ currentWriteOffset'[b] = w
      /\ \A c \in Buffer \ {b} : /\ currentReadOffset'[c] = currentReadOffset[c]
                                 /\ currentWriteOffset'[c] = currentWriteOffset[c]
    BY IInvByBuffer
<1> QED BY <1>1, SameView DEF Elsewhere

-----------------------------------------------------------------------------
(* Bytes that come in join the queue.                                       *)

\* The n bytes s come to lie behind the data of b.
Appended(b, n, s) ==
  /\ currentReadOffset'[b] = currentReadOffset[b] + n
  /\ currentWriteOffset'[b] = currentWriteOffset[b]
  /\ \A i \in 1..currentReadOffset[b] : mem'[b][i] = mem[b][i]
  /\ \A i \in 1..n : mem'[b][currentReadOffset[b] + i] = s[i]

LEMMA AppendedView ==
  ASSUME IInv, IInv', NEW b \in Buffer, NEW n \in Nat, NEW s \in [1..n -> Byte],
         Appended(b, n, s)
  PROVE  Data(b)' = Data(b) \o s /\ Behind(b)' = Behind(b)
<1> USE DEF Appended
<1>1. /\ currentReadOffset[b] \in Nat /\ currentWriteOffset[b] \in Nat
      /\ currentWriteOffset[b] <= currentReadOffset[b]
    BY OffsetsNow
<1>2. /\ Data(b) \in Seq(Byte)
      /\ Len(Data(b)) = currentReadOffset[b] - currentWriteOffset[b]
      /\ \A i \in 1..Len(Data(b)) : Data(b)[i] = mem[b][currentWriteOffset[b] + i]
    BY Views DEF dataSize
<1>3. Behind(b)' = Behind(b)
    BY <1>1, BehindStays
<1>4. s \in Seq(Byte) /\ Len(s) = n
    OBVIOUS
<1>5. /\ Data(b) \o s \in Seq(Byte)
      /\ Len(Data(b) \o s) = Len(Data(b)) + n
      /\ \A i \in 1..(Len(Data(b)) + n) :
           (Data(b) \o s)[i] = IF i <= Len(Data(b)) THEN Data(b)[i]
                               ELSE s[i - Len(Data(b))]
    BY <1>2, <1>4, ConcatProperties
<1>6. dataSize(b)' = Len(Data(b)) + n
    BY <1>1, <1>2 DEF dataSize
<1>7. ASSUME NEW i \in 1..(Len(Data(b)) + n)
      PROVE  (Data(b) \o s)[i] = mem'[b][currentWriteOffset'[b] + i]
  <2>1. CASE i <= Len(Data(b))
    <3>1. (Data(b) \o s)[i] = mem[b][currentWriteOffset[b] + i]
        BY <1>2, <1>5, <2>1
    <3>2. currentWriteOffset[b] + i \in 1..currentReadOffset[b]
        BY <1>1, <1>2, <2>1
    <3> QED BY <3>1, <3>2
  <2>2. CASE ~(i <= Len(Data(b)))
    <3>1. /\ i - Len(Data(b)) \in 1..n
          /\ currentReadOffset[b] + (i - Len(Data(b))) = currentWriteOffset[b] + i
        BY <1>1, <1>2, <2>2, SMTT(20)
    <3> QED BY <1>5, <2>2, <3>1
  <2> QED BY <2>1, <2>2
<1> QED BY <1>3, <1>5, <1>6, <1>7, DataIs

LEMMA Joins ==
  ASSUME IInv, IInv', NEW b \in Buffer, NEW n \in Nat, 0 < n,
         n <= bufferRemaining(b), NEW s \in [1..n -> Byte],
         Appended(b, n, s), Elsewhere({b})
  PROVE  Queue!Join(b)
<1>1. Data(b)' = Data(b) \o s /\ Behind(b)' = Behind(b)
    BY AppendedView
<1>2. /\ QData' = [QData EXCEPT ![b] = QData[b] \o s] /\ QBehind' = QBehind
      /\ QData[b] = Data(b) /\ QBehind[b] = Behind(b)
    BY <1>1, OneQueue
<1>3. n \in 1..Size[b] /\ Len(QBehind[b]) + Len(QData[b]) + n <= Size[b]
    BY <1>2, OffsetsNow, Views, SMTT(20) DEF bufferRemaining, dataSize
<1> QED BY <1>2, <1>3 DEF Queue!Join, Queue!Fits, QData, QBehind

\* The same when the bytes are stored at the end of the data, of which the
\* first n count.
LEMMA StoredJoins ==
  ASSUME IInv, IInv', NEW b \in Buffer, NEW n \in Nat, n <= bufferRemaining(b),
         NEW k \in Nat, n <= k, NEW s \in [1..k -> Byte],
         mem' = [mem EXCEPT ![b] = Stored(b, currentReadOffset[b], s)],
         currentReadOffset' = [currentReadOffset EXCEPT ![b] = @ + n],
         currentWriteOffset' = currentWriteOffset
  PROVE  Queue!Join(b) \/ UNCHANGED <<QData, QBehind>>
<1>1. /\ currentReadOffset[b] \in Nat /\ currentWriteOffset[b] \in Nat
      /\ currentWriteOffset[b] <= currentReadOffset[b] /\ Size[b] \in Nat
      /\ currentReadOffset[b] + n <= Size[b]
    BY OffsetsNow DEF bufferRemaining
<1>2. /\ mem'[b] = Stored(b, currentReadOffset[b], s)
      /\ \A c \in Buffer \ {b} : mem'[c] = mem[c]
    BY IInvByBuffer DEF MemoryOK
<1>3. \A i \in 1..currentReadOffset[b] : mem'[b][i] = mem[b][i]
    BY <1>2, StoredBehind
<1>4. \A i \in 1..n : mem'[b][currentReadOffset[b] + i] = s[i]
    BY <1>2, StoredBehind
<1>5. CASE n = 0
  <2>1. /\ Elsewhere({b})
        /\ currentReadOffset'[b] = currentReadOffset[b]
        /\ currentWriteOffset'[b] = currentWriteOffset[b]
    <3>1. currentReadOffset' = currentReadOffset
        BY <1>5, IInvByBuffer
    <3> QED BY <1>2, <3>1, SameView DEF Elsewhere
  <2>2. Behind(b)' = Behind(b)
      BY <1>1, <1>3, <2>1, BehindStays
  <2>3. Data(b)' = Data(b)
    <3>1. dataSize(b)' = dataSize(b)
        BY <2>1 DEF dataSize
    <3>2. ASSUME NEW i \in 1..dataSize(b)
          PROVE  mem'[b][currentWriteOffset'[b] + i] = mem[b][currentWriteOffset[b] + i]
      <4>1. currentWriteOffset[b] + i \in 1..currentReadOffset[b]
          BY <1>1 DEF dataSize
      <4> QED BY <1>3, <2>1, <4>1
    <3> QED BY <3>1, <3>2, DataStays
  <2> QED BY <2>1, <2>2, <2>3, OneQueue
<1>6. CASE n # 0
  <2> DEFINE t == [i \in 1..n |-> s[i]]
  <2>1. t \in [1..n -> Byte] /\ \A i \in 1..n : t[i] = s[i]
      OBVIOUS
  <2> HIDE DEF t
  <2>a. /\ Elsewhere({b})
        /\ currentReadOffset'[b] = currentReadOffset[b] + n
        /\ currentWriteOffset'[b] = currentWriteOffset[b]
      BY <1>2, OnlyOne, Unchanged1
  <2>2. Appended(b, n, t)
      BY <1>3, <1>4, <2>1, <2>a DEF Appended
  <2>3. 0 < n
      BY <1>6
  <2> QED BY <2>1, <2>2, <2>3, <2>a, Joins
<1> QED BY <1>5, <1>6

LEMMA ReadFromQueue ==
  ASSUME IInv, IInv', NEW b \in Buffer, ReadFrom(b)
  PROVE  Queue!Join(b) \/ UNCHANGED <<QData, QBehind>>
<1>a. PICK n \in 1..bufferRemaining(b) :
        /\ \E s \in [1..n -> Byte] :
             mem' = [mem EXCEPT ![b] = Stored(b, currentReadOffset[b], s)]
        /\ currentReadOffset' = [currentReadOffset EXCEPT ![b] = @ + n]
    BY DEF ReadFrom
<1>1. PICK s \in [1..n -> Byte] :
        mem' = [mem EXCEPT ![b] = Stored(b, currentReadOffset[b], s)]
    BY <1>a
<1>2. n \in Nat /\ n <= bufferRemaining(b) /\ n <= n
    BY Room
<1>3. currentWriteOffset' = currentWriteOffset
    BY DEF ReadFrom
<1> QED BY <1>a, <1>1, <1>2, <1>3, StoredJoins

LEMMA ReadFromBufferQueue ==
  ASSUME IInv, IInv', NEW b \in Buffer, ReadFromBuffer(b)
  PROVE  Queue!Join(b) \/ UNCHANGED <<QData, QBehind>>
<1>a. PICK n \in Lengths :
        /\ \E s \in [1..Least(n, bufferRemaining(b)) -> Byte] :
             mem' = [mem EXCEPT ![b] = Stored(b, currentReadOffset[b], s)]
        /\ currentReadOffset' =
             [currentReadOffset EXCEPT ![b] = @ + Least(n, bufferRemaining(b))]
    BY DEF ReadFromBuffer
<1>1. PICK s \in [1..Least(n, bufferRemaining(b)) -> Byte] :
        mem' = [mem EXCEPT ![b] = Stored(b, currentReadOffset[b], s)]
    BY <1>a
<1>2. /\ Least(n, bufferRemaining(b)) \in Nat
      /\ Least(n, bufferRemaining(b)) <= bufferRemaining(b)
  <2>1. n \in Nat /\ bufferRemaining(b) \in Nat
      BY Room, PushPullAssumption DEF Lengths
  <2> QED BY <2>1 DEF Least
<1>3. /\ currentWriteOffset' = currentWriteOffset
      /\ Least(n, bufferRemaining(b)) <= Least(n, bufferRemaining(b))
    BY <1>2 DEF ReadFromBuffer
<1> QED BY <1>a, <1>1, <1>2, <1>3, StoredJoins

LEMMA PrintfQueue ==
  ASSUME IInv, IInv', NEW b \in Buffer, Printf(b)
  PROVE  Queue!Join(b) \/ UNCHANGED <<QData, QBehind>>
<1>a. PICK n \in Lengths :
        /\ \E s \in [1..Least(n + 1, bufferRemaining(b)) -> Byte] :
             mem' = [mem EXCEPT ![b] = Stored(b, currentReadOffset[b], s)]
        /\ currentReadOffset' =
             [currentReadOffset EXCEPT ![b] = @ + Least(n, bufferRemaining(b))]
    BY DEF Printf
<1>1. PICK s \in [1..Least(n + 1, bufferRemaining(b)) -> Byte] :
        mem' = [mem EXCEPT ![b] = Stored(b, currentReadOffset[b], s)]
    BY <1>a
<1>2. /\ Least(n, bufferRemaining(b)) \in Nat
      /\ Least(n, bufferRemaining(b)) <= bufferRemaining(b)
      /\ Least(n + 1, bufferRemaining(b)) \in Nat
      /\ Least(n, bufferRemaining(b)) <= Least(n + 1, bufferRemaining(b))
  <2>1. n \in Nat /\ bufferRemaining(b) \in Nat
      BY Room, PushPullAssumption DEF Lengths
  <2> QED BY <2>1 DEF Least
<1> QED BY <1>a, <1>1, <1>2, StoredJoins DEF Printf

\* The caller of CS_PP_setFull has put the bytes there before.
LEMMA SetFullQueue ==
  ASSUME IInv, IInv', NEW b \in Buffer, SetFull(b)
  PROVE  Queue!Join(b) \/ UNCHANGED <<QData, QBehind>>
<1> DEFINE n == bufferRemaining(b)
           s == [i \in 1..n |-> mem[b][currentReadOffset[b] + i]]
<1>1. /\ n \in Nat /\ currentReadOffset[b] + n = Size[b]
      /\ currentReadOffset[b] \in Nat
    BY Room, OffsetsNow DEF bufferRemaining
<1>2. s \in [1..n -> Byte]
  <2>1. mem[b] \in [1..Size[b] -> Byte]
      BY IInvByBuffer DEF MemoryOK
  <2>2. ASSUME NEW i \in 1..n PROVE currentReadOffset[b] + i \in 1..Size[b]
      BY <1>1
  <2> QED BY <2>1, <2>2
<1>3. \A i \in 1..n : s[i] = mem[b][currentReadOffset[b] + i]
    OBVIOUS
<1> HIDE DEF s
<1>4. currentReadOffset' = [currentReadOffset EXCEPT ![b] = @ + n]
    BY <1>1 DEF SetFull
<1>5. CASE n = 0
  <2>1. /\ Elsewhere({b})
        /\ currentReadOffset'[b] = currentReadOffset[b]
        /\ currentWriteOffset'[b] = currentWriteOffset[b]
        /\ mem' = mem
    <3>1. currentReadOffset' = currentReadOffset
        BY <1>1, <1>4, <1>5, IInvByBuffer
    <3> QED BY <3>1, SameView DEF SetFull, Elsewhere
  <2> QED BY <2>1, SameView, OneQueue
<1>6. CASE n # 0
  <2>a. /\ Elsewhere({b})
        /\ currentReadOffset'[b] = currentReadOffset[b] + n
        /\ currentWriteOffset'[b] = currentWriteOffset[b]
      BY <1>4, OnlyOne, Unchanged1 DEF SetFull
  <2>1. Appended(b, n, s)
      BY <1>3, <2>a DEF Appended, SetFull
  <2>2. 0 < n /\ n <= bufferRemaining(b)
      BY <1>1, <1>6
  <2> HIDE DEF n
  <2> QED BY <1>1, <1>2, <2>1, <2>2, <2>a, Joins
<1> QED BY <1>5, <1>6

-----------------------------------------------------------------------------
(* Bytes that go out leave at the front.                                    *)

\* A stretch of the data, as bytes of the block.
LEMMA Stretch ==
  ASSUME IInv, NEW b \in Buffer, NEW m \in Nat, NEW k \in Nat, k <= dataSize(b)
  PROVE  /\ SubSeq(Data(b), m + 1, k) \in Seq(Byte)
         /\ Len(SubSeq(Data(b), m + 1, k)) = IF m < k THEN k - m ELSE 0
         /\ \A i \in 1..(k - m) :
              SubSeq(Data(b), m + 1, k)[i] = mem[b][currentWriteOffset[b] + m + i]
<1>1. /\ Data(b) \in Seq(Byte) /\ Len(Data(b)) = dataSize(b) /\ dataSize(b) \in Nat
      /\ \A i \in 1..dataSize(b) : Data(b)[i] = mem[b][currentWriteOffset[b] + i]
      /\ currentWriteOffset[b] \in Nat
    BY Views, Room, OffsetsNow
<1>2. \A i \in (m + 1)..k : Data(b)[i] \in Byte
  <2>1. ASSUME NEW i \in (m + 1)..k PROVE i \in 1..Len(Data(b))
      BY <1>1
  <2> QED BY <1>1, <2>1, ElementOfSeq
<1>3. /\ SubSeq(Data(b), m + 1, k) \in Seq(Byte)
      /\ Len(SubSeq(Data(b), m + 1, k)) = IF m + 1 <= k THEN k - (m + 1) + 1 ELSE 0
      /\ \A i \in 1..(k - (m + 1) + 1) :
           SubSeq(Data(b), m + 1, k)[i] = Data(b)[(m + 1) + i - 1]
    BY <1>2, SubSeqProperties
<1>4. ASSUME NEW i \in 1..(k - m)
      PROVE  SubSeq(Data(b), m + 1, k)[i] = mem[b][currentWriteOffset[b] + m + i]
  <2>1. /\ i \in 1..(k - (m + 1) + 1) /\ (m + 1) + i - 1 = m + i
        /\ m + i \in 1..dataSize(b)
        /\ currentWriteOffset[b] + (m + i) = currentWriteOffset[b] + m + i
    <3>1. dataSize(b) \in Nat /\ currentWriteOffset[b] \in Nat
        BY <1>1
    <3> QED BY <3>1
  <2> QED BY <1>1, <1>3, <2>1
<1> QED BY <1>3, <1>4

\* What a consumer of n bytes leaves behind.
LEMMA Leaves ==
  ASSUME IInv, IInv', NEW b \in Buffer, NEW n \in Nat, n <= dataSize(b),
         mem'[b] = mem[b],
         currentReadOffset'[b] = IF Drained(b, n) THEN 0 ELSE currentReadOffset[b],
         currentWriteOffset'[b] = IF Drained(b, n) THEN 0 ELSE currentWriteOffset[b] + n
  PROVE  /\ Data(b)' = SubSeq(Data(b), n + 1, Len(Data(b)))
         /\ Behind(b)' = IF n = Len(Data(b)) THEN <<>>
                         ELSE Behind(b) \o SubSeq(Data(b), 1, n)
<1> DEFINE w == currentWriteOffset[b]
           r == currentReadOffset[b]
<1>1. /\ w \in Nat /\ r \in Nat /\ w <= r /\ dataSize(b) = r - w
      /\ Len(Data(b)) = dataSize(b)
      /\ Drained(b, n) <=> n = dataSize(b)
    BY OffsetsNow, Views DEF dataSize, Drained
<1>2. /\ SubSeq(Data(b), n + 1, dataSize(b)) \in Seq(Byte)
      /\ Len(SubSeq(Data(b), n + 1, dataSize(b)))
           = IF n < dataSize(b) THEN dataSize(b) - n ELSE 0
      /\ \A i \in 1..(dataSize(b) - n) :
           SubSeq(Data(b), n + 1, dataSize(b))[i] = mem[b][w + n + i]
  <2>1. dataSize(b) \in Nat /\ dataSize(b) <= dataSize(b)
      BY Room
  <2> QED BY <2>1, Stretch
<1>3. Data(b)' = SubSeq(Data(b), n + 1, dataSize(b))
  <2>1. dataSize(b)' = dataSize(b) - n
      BY <1>1 DEF dataSize
  <2> DEFINE t == SubSeq(Data(b), n + 1, dataSize(b))
  <2>2. t \in Seq(Byte) /\ Len(t) = dataSize(b) - n
      BY <1>1, <1>2
  <2>3. \A i \in 1..(dataSize(b) - n) : t[i] = mem'[b][currentWriteOffset'[b] + i]
    <3>1. ASSUME NEW i \in 1..(dataSize(b) - n)
          PROVE  currentWriteOffset'[b] + i = w + n + i
        BY <1>1
    <3> QED BY <1>2, <3>1
  <2> HIDE DEF t
  <2>4. Data(b)' = t
      BY <2>1, <2>2, <2>3, DataIs
  <2> QED BY <2>4 DEF t
<1>4. CASE n = dataSize(b)
  <2>1. Behind(b)' = <<>>
      BY <1>1, <1>4, BehindForgotten
  <2> QED BY <1>1, <1>3, <1>4, <2>1
<1>5. CASE n # dataSize(b)
  <2> DEFINE t == SubSeq(Data(b), 0 + 1, n)
  <2>1. /\ t \in Seq(Byte) /\ Len(t) = n
        /\ \A i \in 1..n : t[i] = mem[b][w + i]
    <3>1. /\ t \in Seq(Byte) /\ Len(t) = IF 0 < n THEN n - 0 ELSE 0
          /\ \A i \in 1..(n - 0) : t[i] = mem[b][w + 0 + i]
        BY Stretch
    <3>2. \A i \in 1..n : w + 0 + i = w + i /\ i \in 1..(n - 0)
        BY <1>1
    <3> HIDE DEF t
    <3> QED BY <3>1, <3>2
  <2> HIDE DEF t
  <2>2. /\ Behind(b) \in Seq(Byte) /\ Len(Behind(b)) = w
        /\ \A i \in 1..w : Behind(b)[i] = mem[b][i]
      BY Views
  <2>3. /\ Behind(b) \o t \in Seq(Byte) /\ Len(Behind(b) \o t) = w + n
        /\ \A i \in 1..(w + n) :
             (Behind(b) \o t)[i] = IF i <= w THEN Behind(b)[i] ELSE t[i - w]
    <3> DEFINE h == Behind(b)
    <3>1. h \in Seq(Byte) /\ Len(h) = w
        BY <2>2
    <3> HIDE DEF h, w
    <3>2. /\ h \o t \in Seq(Byte) /\ Len(h \o t) = w + n
          /\ \A i \in 1..(w + n) : (h \o t)[i] = IF i <= w THEN h[i] ELSE t[i - w]
        BY <2>1, <3>1, ConcatProperties
    <3> QED BY <3>2 DEF h
  <2>4. ASSUME NEW i \in 1..(w + n) PROVE (Behind(b) \o t)[i] = mem'[b][i]
    <3>1. CASE i <= w
        BY <1>1, <2>2, <2>3, <3>1
    <3>2. CASE ~(i <= w)
      <4>1. i - w \in 1..n /\ w + (i - w) = i
          BY <1>1, <3>2
      <4> QED BY <2>1, <2>3, <3>2, <4>1
    <3> QED BY <3>1, <3>2
  <2>5. Behind(b)' = Behind(b) \o t
    <3> DEFINE u == Behind(b) \o t
    <3>1. /\ u \in Seq(Byte) /\ Len(u) = w + n
          /\ \A i \in 1..(w + n) : u[i] = mem'[b][i]
        BY <2>3, <2>4
    <3>2. currentWriteOffset'[b] = w + n
        BY <1>1, <1>5
    <3> HIDE DEF u
    <3>3. Behind(b)' = u
        BY <3>1, <3>2, BehindIs
    <3> QED BY <3>3 DEF u
  <2>6. t = SubSeq(Data(b), 1, n)
      BY DEF t
  <2> QED BY <1>1, <1>3, <1>5, <2>5, <2>6
<1> QED BY <1>4, <1>5

LEMMA AdvanceQueue ==
  ASSUME IInv, IInv', NEW b \in Buffer, NEW n \in Nat, n <= dataSize(b),
         Advance(b, n), UNCHANGED mem
  PROVE  Queue!Deliver(b) \/ Queue!Forget(b) \/ UNCHANGED <<QData, QBehind>>
<1> DEFINE r == IF Drained(b, n) THEN 0 ELSE currentReadOffset[b]
           w == IF Drained(b, n) THEN 0 ELSE currentWriteOffset[b] + n
<1>1. /\ currentReadOffset' = [currentReadOffset EXCEPT ![b] = r]
      /\ currentWriteOffset' = [currentWriteOffset EXCEPT ![b] = w]
    BY DEF Advance
<1>2. Elsewhere({b}) /\ currentReadOffset'[b] = r /\ currentWriteOffset'[b] = w
  <2> HIDE DEF r, w
  <2> QED BY <1>1, OnlyOne
<1>3. /\ Data(b)' = SubSeq(Data(b), n + 1, Len(Data(b)))
      /\ Behind(b)' = IF n = Len(Data(b)) THEN <<>>
                      ELSE Behind(b) \o SubSeq(Data(b), 1, n)
  <2>1. mem'[b] = mem[b]
      OBVIOUS
  <2> QED BY <1>2, <2>1, Leaves
<1>4. /\ Data(b) \in Seq(Byte) /\ Len(Data(b)) \in Nat /\ Len(Data(b)) = dataSize(b)
      /\ Behind(b) \in Seq(Byte)
    BY Views, Room
<1>5. CASE n = 0
  <2>1. Data(b)' = Data(b)
      BY <1>3, <1>4, <1>5, SubSeqFull
  <2>2. Behind(b)' = <<>> \/ Behind(b)' = Behind(b)
    <3>1. SubSeq(Data(b), 1, n) = <<>>
        BY <1>5, SubSeqEmpty
    <3>2. Behind(b) \o <<>> = Behind(b)
        BY <1>4, ConcatEmptySeq
    <3> QED BY <1>3, <3>1, <3>2
  <2> QED BY <1>2, <2>1, <2>2, OneQueue DEF Queue!Forget, QData, QBehind
<1>6. CASE n # 0
  <2>1. /\ QData' = [QData EXCEPT ![b] = SubSeq(QData[b], n + 1, Len(QData[b]))]
        /\ QBehind' = [QBehind EXCEPT ![b] =
             IF n = Len(QData[b]) THEN <<>> ELSE QBehind[b] \o SubSeq(QData[b], 1, n)]
      BY <1>2, <1>3, OneQueue
  <2>2. n \in 1..Len(QData[b])
      BY <1>4, <1>6 DEF QData
  <2> QED BY <2>1, <2>2 DEF Queue!Deliver, Queue!Rest, Queue!First,
                            Queue!BehindAfter, QData, QBehind
<1> QED BY <1>5, <1>6

LEMMA WriteQueue ==
  ASSUME IInv, IInv', NEW b \in Buffer, WriteTo(b) \/ WriteToBuffer(b)
  PROVE  Queue!Deliver(b) \/ Queue!Forget(b) \/ UNCHANGED <<QData, QBehind>>
<1>1. CASE WriteTo(b)
  <2>1. ASSUME NEW n \in 0..dataSize(b), Advance(b, n)
        PROVE  Queue!Deliver(b) \/ Queue!Forget(b) \/ UNCHANGED <<QData, QBehind>>
    <3>1. n \in Nat /\ n <= dataSize(b)
        BY Room
    <3> QED BY <1>1, <2>1, <3>1, AdvanceQueue DEF WriteTo
  <2>2. CASE UNCHANGED <<currentReadOffset, currentWriteOffset>>
      BY <1>1, <2>2 DEF WriteTo, QData, QBehind, Data, Front, Behind, dataSize
  <2> QED BY <1>1, <2>1, <2>2 DEF WriteTo
<1>2. CASE WriteToBuffer(b)
  <2>1. PICK n \in Lengths : Advance(b, Least(n, dataSize(b)))
      BY <1>2 DEF WriteToBuffer
  <2>2. Least(n, dataSize(b)) \in Nat /\ Least(n, dataSize(b)) <= dataSize(b)
    <3>1. n \in Nat /\ dataSize(b) \in Nat
        BY Room, PushPullAssumption DEF Lengths
    <3> QED BY <3>1 DEF Least
  <2> QED BY <1>2, <2>1, <2>2, AdvanceQueue DEF WriteToBuffer
<1> QED BY <1>1, <1>2

-----------------------------------------------------------------------------
(* Bytes move from one queue to another.                                    *)

LEMMA MoveBufferQueue ==
  ASSUME IInv, IInv', NEW b \in Buffer, NEW c \in Buffer \ {b}, MoveBuffer(b, c)
  PROVE  Queue!Transfer(b, c) \/ UNCHANGED <<QData, QBehind>>
<1> DEFINE upTo(max) == Least(max, Least(dataSize(b), bufferRemaining(c)))
<1>1. PICK max \in Lengths :
        /\ mem' = [mem EXCEPT ![c] = Stored(c, currentReadOffset[c], Front(b, upTo(max)))]
        /\ currentReadOffset' =
             [currentReadOffset EXCEPT ![b] = IF Drained(b, upTo(max)) THEN 0 ELSE @,
                                       ![c] = @ + upTo(max)]
        /\ currentWriteOffset' =
             [currentWriteOffset EXCEPT ![b] = IF Drained(b, upTo(max)) THEN 0 ELSE @ + upTo(max)]
    BY DEF MoveBuffer
<1> DEFINE n == upTo(max)
           s == Front(b, n)
<1>2. n \in Nat /\ n <= dataSize(b) /\ n <= bufferRemaining(c)
  <2>1. /\ dataSize(b) \in Nat /\ bufferRemaining(c) \in Nat /\ max \in Nat
      BY Room, PushPullAssumption DEF Lengths
  <2> QED BY <2>1 DEF Least
<1>3. /\ mem' = [mem EXCEPT ![c] = Stored(c, currentReadOffset[c], s)]
      /\ currentReadOffset' =
           [currentReadOffset EXCEPT ![b] = IF Drained(b, n) THEN 0 ELSE @, ![c] = @ + n]
      /\ currentWriteOffset' =
           [currentWriteOffset EXCEPT ![b] = IF Drained(b, n) THEN 0 ELSE @ + n]
    BY <1>1
<1> HIDE DEF n, upTo
<1>4. s \in [1..n -> Byte] /\ s = SubSeq(Data(b), 1, n)
  <2>1. s \in [1..n -> Byte]
      BY <1>2, FrontType
  <2>2. s \in Seq(Byte) /\ Len(s) = n
      BY <1>2, <2>1
  <2>3. \A i \in 1..n : s[i] = mem[b][currentWriteOffset[b] + i]
      BY DEF Front
  <2> DEFINE t == SubSeq(Data(b), 0 + 1, n)
  <2>4. /\ t \in Seq(Byte) /\ Len(t) = IF 0 < n THEN n - 0 ELSE 0
        /\ \A i \in 1..(n - 0) : t[i] = mem[b][currentWriteOffset[b] + 0 + i]
      BY <1>2, Stretch
  <2>5. currentWriteOffset[b] \in Nat
      BY OffsetsNow
  <2> HIDE DEF t, s
  <2>6. Len(t) = n /\ \A i \in 1..n : s[i] = t[i]
      BY <1>2, <2>3, <2>4, <2>5
  <2>7. s = t
      BY <2>2, <2>4, <2>6, SeqEqual
  <2> QED BY <2>1, <2>7 DEF t
<1> HIDE DEF s
<1>5. /\ mem'[c] = Stored(c, currentReadOffset[c], s)
      /\ mem'[b] = mem[b]
      /\ \A d \in Buffer \ {b, c} :
           /\ mem'[d] = mem[d] /\ currentReadOffset'[d] = currentReadOffset[d]
           /\ currentWriteOffset'[d] = currentWriteOffset[d]
      /\ currentReadOffset'[b] = IF Drained(b, n) THEN 0 ELSE currentReadOffset[b]
      /\ currentWriteOffset'[b] = IF Drained(b, n) THEN 0 ELSE currentWriteOffset[b] + n
      /\ currentReadOffset'[c] = currentReadOffset[c] + n
      /\ currentWriteOffset'[c] = currentWriteOffset[c]
  <2>1. /\ mem'[c] = Stored(c, currentReadOffset[c], s)
        /\ \A d \in Buffer \ {c} : mem'[d] = mem[d]
      BY <1>3, IInvByBuffer DEF MemoryOK
  <2> QED BY <1>3, <2>1, IInvByBuffer
<1>6. /\ Data(b)' = SubSeq(Data(b), n + 1, Len(Data(b)))
      /\ Behind(b)' = IF n = Len(Data(b)) THEN <<>>
                      ELSE Behind(b) \o SubSeq(Data(b), 1, n)
    BY <1>2, <1>5, Leaves
<1>7. Data(c)' = Data(c) \o s /\ Behind(c)' = Behind(c)
  <2>1. c \in Buffer /\ n \in Nat /\ n <= n /\ s \in [1..n -> Byte]
      BY <1>2, <1>4
  <2>2. n <= bufferRemaining(c) /\ mem'[c] = Stored(c, currentReadOffset[c], s)
      BY <1>2, <1>5
  <2>3. /\ \A i \in 1..currentReadOffset[c] : mem'[c][i] = mem[c][i]
        /\ \A i \in 1..n : mem'[c][currentReadOffset[c] + i] = s[i]
      BY <2>1, <2>2, StoredBehind
  <2>5. Appended(c, n, s)
      BY <1>5, <2>3 DEF Appended
  <2> QED BY <2>1, <2>5, AppendedView
<1>8. \A d \in Buffer \ {b, c} : Data(d)' = Data(d) /\ Behind(d)' = Behind(d)
    BY <1>5, SameView
<1>9. /\ Data(b) \in Seq(Byte) /\ Len(Data(b)) = dataSize(b) /\ dataSize(b) \in Nat
      /\ Data(c) \in Seq(Byte) /\ Len(Data(c)) = dataSize(c) /\ dataSize(c) \in Nat
      /\ Len(Behind(c)) = currentWriteOffset[c]
      /\ Len(Behind(c)) + Len(Data(c)) = currentReadOffset[c]
      /\ 0 < dataSize(b)
  <2>1. 0 < dataSize(b)
      BY DEF MoveBuffer
  <2>2. currentWriteOffset[c] + dataSize(c) = currentReadOffset[c]
      BY OffsetsNow DEF dataSize
  <2> QED BY <2>1, <2>2, Views, Room
<1>10. CASE n = 0
  <2>1. Data(b)' = Data(b) /\ Behind(b)' = Behind(b)
    <3>1. SubSeq(Data(b), 0 + 1, Len(Data(b))) = Data(b) /\ SubSeq(Data(b), 1, 0) = <<>>
        BY <1>9, SubSeqFull, SubSeqEmpty
    <3>2. Behind(b) \o <<>> = Behind(b)
        BY Views, ConcatEmptySeq
    <3>3. Data(b)' = SubSeq(Data(b), 0 + 1, Len(Data(b)))
        BY <1>6, <1>10
    <3>4. Behind(b)' = Behind(b) \o SubSeq(Data(b), 1, 0)
        BY <1>6, <1>9, <1>10
    <3> QED BY <3>1, <3>2, <3>3, <3>4
  <2>2. Data(c)' = Data(c) /\ Behind(c)' = Behind(c)
    <3>1. s = <<>>
        BY <1>4, <1>10, SubSeqEmpty
    <3> QED BY <1>7, <1>9, <3>1, ConcatEmptySeq
  <2> QED BY <1>8, <2>1, <2>2 DEF QData, QBehind
<1>11. CASE n # 0
  <2>1. /\ QData' = [QData EXCEPT ![b] = SubSeq(QData[b], n + 1, Len(QData[b])),
                                  ![c] = QData[c] \o SubSeq(QData[b], 1, n)]
        /\ QBehind' = [QBehind EXCEPT ![b] =
             IF n = Len(QData[b]) THEN <<>> ELSE QBehind[b] \o SubSeq(QData[b], 1, n)]
      BY <1>4, <1>6, <1>7, <1>8 DEF QData, QBehind
  <2>2. n \in 1..Len(QData[b]) /\ Len(QBehind[c]) + Len(QData[c]) + n <= Size[c]
    <3>1. n \in 1..Len(Data(b)) /\ Len(Behind(c)) + Len(Data(c)) + n <= Size[c]
        BY <1>2, <1>9, <1>11, OffsetsNow DEF bufferRemaining
    <3> QED BY <3>1 DEF QData, QBehind
  <2> QED BY <2>1, <2>2 DEF Queue!Transfer, Queue!Rest, Queue!First, Queue!Fits,
                            Queue!BehindAfter, QData, QBehind
<1> QED BY <1>10, <1>11

-----------------------------------------------------------------------------
(* Editing in place.                                                        *)

\* A stretch of a sequence.
LEMMA Part ==
  ASSUME NEW h \in Seq(Byte), NEW m \in Nat, NEW k \in Nat, m <= k, k <= Len(h)
  PROVE  /\ SubSeq(h, m + 1, k) \in Seq(Byte) /\ Len(SubSeq(h, m + 1, k)) = k - m
         /\ \A i \in 1..(k - m) : SubSeq(h, m + 1, k)[i] = h[m + i]
<1>1. \A i \in (m + 1)..k : h[i] \in Byte
  <2>1. ASSUME NEW i \in (m + 1)..k PROVE i \in 1..Len(h)
      BY LenProperties
  <2> QED BY <2>1, ElementOfSeq
<1>2. m + 1 \in Int /\ k \in Int
    OBVIOUS
<1> DEFINE t == SubSeq(h, m + 1, k)
<1>3. /\ t \in Seq(Byte) /\ Len(t) = IF m + 1 <= k THEN k - (m + 1) + 1 ELSE 0
      /\ \A i \in 1..(k - (m + 1) + 1) : t[i] = h[(m + 1) + i - 1]
    BY <1>1, <1>2, SubSeqProperties
<1> HIDE DEF t
<1>4. /\ Len(t) = k - m
      /\ \A i \in 1..(k - m) : i \in 1..(k - (m + 1) + 1) /\ (m + 1) + i - 1 = m + i
    BY <1>3
<1>5. t \in Seq(Byte) /\ Len(t) = k - m /\ \A i \in 1..(k - m) : t[i] = h[m + i]
    BY <1>3, <1>4
<1> QED BY <1>5 DEF t

\* Concatenation of sequences whose lengths have a name.
LEMMA Concatenation ==
  ASSUME NEW s \in Seq(Byte), NEW t \in Seq(Byte), NEW m \in Nat, NEW n \in Nat,
         Len(s) = m, Len(t) = n
  PROVE  /\ s \o t \in Seq(Byte) /\ Len(s \o t) = m + n
         /\ \A i \in 1..(m + n) : (s \o t)[i] = IF i <= m THEN s[i] ELSE t[i - m]
BY ConcatProperties

LEMMA RemoveChunkQueue ==
  ASSUME IInv, IInv', NEW b \in Buffer, RemoveChunk(b)
  PROVE  Queue!Cut(b)
<1> DEFINE w == currentWriteOffset[b]
           r == currentReadOffset[b]
<1>1. PICK o \in Lengths, n \in Lengths :
        /\ o + n <= dataSize(b)
        /\ mem' = [mem EXCEPT ![b] =
             [i \in 1..Size[b] |->
                IF i \in (r - n + 1)..r THEN Filler
                ELSE IF i \in (w + o + 1)..(r - n) THEN mem[b][i + n] ELSE mem[b][i]]]
        /\ currentReadOffset' = [currentReadOffset EXCEPT ![b] = r - n]
    BY DEF RemoveChunk
<1>2. /\ o \in Nat /\ n \in Nat /\ w \in Nat /\ r \in Nat /\ Size[b] \in Nat
      /\ dataSize(b) = r - w /\ w <= r /\ r <= Size[b] /\ o + n <= r - w
    BY <1>1, OffsetsNow, PushPullAssumption DEF Lengths, dataSize
<1>3. /\ mem'[b] = [i \in 1..Size[b] |->
                IF i \in (r - n + 1)..r THEN Filler
                ELSE IF i \in (w + o + 1)..(r - n) THEN mem[b][i + n] ELSE mem[b][i]]
      /\ \A c \in Buffer \ {b} : mem'[c] = mem[c]
    BY <1>1, IInvByBuffer DEF MemoryOK
<1>4. /\ Elsewhere({b})
      /\ currentReadOffset'[b] = r - n /\ currentWriteOffset'[b] = w
    BY <1>1, <1>3, OnlyOne, Unchanged1 DEF RemoveChunk
<1>5. Behind(b)' = Behind(b)
  <2>1. ASSUME NEW i \in 1..w PROVE mem'[b][i] = mem[b][i]
    <3>1. i \in 1..Size[b] /\ i \notin (r - n + 1)..r /\ i \notin (w + o + 1)..(r - n)
        BY <1>2
    <3> QED BY <1>3, <3>1
  <2> QED BY <1>4, <2>1, BehindStays
<1> DEFINE s == SubSeq(Data(b), 0 + 1, o)
           t == SubSeq(Data(b), (o + n) + 1, dataSize(b))
<1>6. /\ s \in Seq(Byte) /\ Len(s) = o
      /\ \A i \in 1..o : s[i] = mem[b][w + i]
  <2>1. o <= dataSize(b)
      BY <1>2
  <2>2. /\ s \in Seq(Byte) /\ Len(s) = IF 0 < o THEN o - 0 ELSE 0
        /\ \A i \in 1..(o - 0) : s[i] = mem[b][w + 0 + i]
      BY <1>2, <2>1, Stretch
  <2> HIDE DEF s
  <2>3. \A i \in 1..o : i \in 1..(o - 0) /\ w + 0 + i = w + i
      BY <1>2
  <2> QED BY <1>2, <2>2, <2>3
<1>7. /\ t \in Seq(Byte) /\ Len(t) = r - w - (o + n)
      /\ \A i \in 1..(r - w - (o + n)) : t[i] = mem[b][w + (o + n) + i]
  <2>1. o + n \in Nat /\ dataSize(b) \in Nat /\ dataSize(b) <= dataSize(b)
      BY <1>2
  <2>2. /\ t \in Seq(Byte)
        /\ Len(t) = IF o + n < dataSize(b) THEN dataSize(b) - (o + n) ELSE 0
        /\ \A i \in 1..(dataSize(b) - (o + n)) : t[i] = mem[b][w + (o + n) + i]
      BY <2>1, Stretch
  <2> HIDE DEF t
  <2> QED BY <1>2, <2>2
<1> HIDE DEF s, t
<1>8. /\ s \o t \in Seq(Byte) /\ Len(s \o t) = r - w - n
      /\ \A i \in 1..(r - w - n) : (s \o t)[i] = IF i <= o THEN s[i] ELSE t[i - o]
  <2>1. /\ s \o t \in Seq(Byte) /\ Len(s \o t) = o + (r - w - (o + n))
        /\ \A i \in 1..(o + (r - w - (o + n))) :
             (s \o t)[i] = IF i <= o THEN s[i] ELSE t[i - o]
    <3>1. s \in Seq(Byte) /\ t \in Seq(Byte)
        BY <1>6, <1>7
    <3>2. /\ s \o t \in Seq(Byte) /\ Len(s \o t) = Len(s) + Len(t)
          /\ \A i \in 1..(Len(s) + Len(t)) :
               (s \o t)[i] = IF i <= Len(s) THEN s[i] ELSE t[i - Len(s)]
        BY <3>1, ConcatProperties
    <3>3. Len(s) = o /\ Len(t) = r - w - (o + n)
        BY <1>6, <1>7
    <3> HIDE DEF r, w
    <3> QED BY <3>2, <3>3
  <2>2. o + (r - w - (o + n)) = r - w - n
      BY <1>2
  <2> QED BY <2>1, <2>2
<1>9. ASSUME NEW i \in 1..(r - w - n)
      PROVE  (s \o t)[i] = mem'[b][w + i]
  <2>1. CASE i <= o
    <3>1. /\ w + i \in 1..Size[b] /\ w + i \notin (r - n + 1)..r
          /\ w + i \notin (w + o + 1)..(r - n) /\ i \in 1..o
        BY <1>2, <2>1
    <3>2. mem'[b][w + i] = mem[b][w + i]
        BY <1>3, <3>1
    <3> QED BY <1>6, <1>8, <2>1, <3>1, <3>2
  <2>2. CASE ~(i <= o)
    <3>1. /\ w + i \in 1..Size[b] /\ w + i \notin (r - n + 1)..r
          /\ w + i \in (w + o + 1)..(r - n)
          /\ i - o \in 1..(r - w - (o + n))
          /\ w + (o + n) + (i - o) = (w + i) + n
        BY <1>2, <2>2
    <3>2. mem'[b][w + i] = mem[b][(w + i) + n]
        BY <1>3, <3>1
    <3>3. t[i - o] = mem[b][(w + i) + n]
        BY <1>7, <3>1
    <3> QED BY <1>8, <2>2, <3>2, <3>3
  <2> QED BY <2>1, <2>2
<1>10. Data(b)' = s \o t
  <2> DEFINE u == s \o t
  <2>1. /\ u \in Seq(Byte) /\ Len(u) = r - w - n
        /\ \A i \in 1..(r - w - n) : u[i] = mem'[b][currentWriteOffset'[b] + i]
      BY <1>4, <1>8, <1>9
  <2>2. dataSize(b)' = r - w - n
      BY <1>2, <1>4 DEF dataSize
  <2> HIDE DEF u
  <2>3. Data(b)' = u
      BY <2>1, <2>2, DataIs
  <2> QED BY <2>3 DEF u
<1>11. /\ QData' = [QData EXCEPT ![b] =
            SubSeq(QData[b], 1, o) \o SubSeq(QData[b], o + n + 1, Len(QData[b]))]
       /\ QBehind' = QBehind
  <2>1. s = SubSeq(Data(b), 1, o) /\ t = SubSeq(Data(b), o + n + 1, Len(Data(b)))
    <3>1. Len(Data(b)) = dataSize(b) /\ 0 + 1 = 1 /\ (o + n) + 1 = o + n + 1
        BY Views
    <3> QED BY <3>1 DEF s, t
  <2> QED BY <1>4, <1>5, <1>10, <2>1, OneQueue
<1>12. o \in 0..Len(QData[b]) /\ n \in 0..(Len(QData[b]) - o)
  <2>1. Len(QData[b]) = r - w
      BY <1>2, Views DEF QData
  <2> QED BY <1>2, <2>1
<1> QED BY <1>11, <1>12 DEF Queue!Cut, Queue!First, Queue!Rest, QData, QBehind

LEMMA MakeRoomQueue ==
  ASSUME IInv, IInv', NEW b \in Buffer, MakeRoom(b)
  PROVE  Queue!Forget(b)
<1> DEFINE n == dataSize(b)
           s == Front(b, n)
<1>1. /\ n \in Nat /\ s \in [1..n -> Byte] /\ Size[b] \in Nat /\ n <= Size[b]
      /\ n - 0 = n
    BY Room, FrontType, OffsetsNow DEF dataSize
<1>2. /\ mem' = [mem EXCEPT ![b] = Stored(b, 0, s)]
      /\ currentReadOffset' = [currentReadOffset EXCEPT ![b] = n]
      /\ currentWriteOffset' = [currentWriteOffset EXCEPT ![b] = 0]
    BY DEF MakeRoom
<1>3. s = Data(b)
    BY DEF Data
<1> HIDE DEF n, s
<1>4. mem'[b] = Stored(b, 0, s) /\ \A c \in Buffer \ {b} : mem'[c] = mem[c]
    BY <1>2, IInvByBuffer DEF MemoryOK
<1>5. /\ Elsewhere({b})
      /\ currentReadOffset'[b] = n /\ currentWriteOffset'[b] = 0
    BY <1>2, <1>4, OnlyOne
<1>6. Behind(b)' = <<>>
    BY <1>5, BehindForgotten
<1>7. Data(b)' = s
  <2>1. s \in Seq(Byte) /\ Len(s) = n
      BY <1>1
  <2>2. dataSize(b)' = n
      BY <1>1, <1>5 DEF dataSize
  <2>3. mem'[b] = [i \in 1..Size[b] |->
                     IF i \in (0 + 1)..(0 + n) THEN s[i - 0] ELSE mem[b][i]]
      BY <1>4, <2>1 DEF Stored
  <2>4. ASSUME NEW i \in 1..n PROVE s[i] = mem'[b][currentWriteOffset'[b] + i]
    <3>1. i \in (0 + 1)..(0 + n) /\ i - 0 = i /\ 0 + i = i /\ i \in 1..Size[b]
        BY <1>1
    <3> QED BY <1>5, <2>3, <3>1
  <2> QED BY <2>1, <2>2, <2>4, DataIs
<1> QED BY <1>3, <1>5, <1>6, <1>7, OneQueue DEF Queue!Forget, QData, QBehind

\* The end of h in front of d.
LEMMA PutInFront ==
  ASSUME NEW h \in Seq(Byte), NEW d \in Seq(Byte), NEW n \in Nat, NEW k \in Nat,
         NEW l \in Nat, Len(h) = k + n, Len(d) = l
  PROVE  /\ SubSeq(h, 1, k) \in Seq(Byte) /\ Len(SubSeq(h, 1, k)) = k
         /\ \A i \in 1..k : SubSeq(h, 1, k)[i] = h[i]
         /\ SubSeq(h, k + 1, k + n) \o d \in Seq(Byte)
         /\ Len(SubSeq(h, k + 1, k + n) \o d) = n + l
         /\ \A i \in 1..(n + l) : (SubSeq(h, k + 1, k + n) \o d)[i]
                                    = IF i <= n THEN h[k + i] ELSE d[i - n]
<1> DEFINE p == SubSeq(h, 0 + 1, k)
           q == SubSeq(h, k + 1, k + n)
<1>1. p \in Seq(Byte) /\ Len(p) = k /\ \A i \in 1..k : p[i] = h[i]
  <2>1. p \in Seq(Byte) /\ Len(p) = k - 0 /\ \A i \in 1..(k - 0) : p[i] = h[0 + i]
      BY Part
  <2> HIDE DEF p
  <2> QED BY <2>1
<1>2. q \in Seq(Byte) /\ Len(q) = n /\ \A i \in 1..n : q[i] = h[k + i]
  <2>1. k + n \in Nat /\ k <= k + n /\ k + n <= Len(h) /\ (k + n) - k = n
      OBVIOUS
  <2>2. /\ q \in Seq(Byte) /\ Len(q) = (k + n) - k
        /\ \A i \in 1..((k + n) - k) : q[i] = h[k + i]
      BY <2>1, Part
  <2> HIDE DEF q
  <2> QED BY <2>1, <2>2
<1>3. p = SubSeq(h, 1, k)
    OBVIOUS
<1> HIDE DEF p, q
<1>4. /\ q \o d \in Seq(Byte) /\ Len(q \o d) = n + l
      /\ \A i \in 1..(n + l) : (q \o d)[i] = IF i <= n THEN q[i] ELSE d[i - n]
  <2>1. q \in Seq(Byte) /\ d \in Seq(Byte)
      BY <1>2
  <2>2. /\ q \o d \in Seq(Byte) /\ Len(q \o d) = Len(q) + Len(d)
        /\ \A i \in 1..(Len(q) + Len(d)) :
             (q \o d)[i] = IF i <= Len(q) THEN q[i] ELSE d[i - Len(q)]
      BY <2>1, ConcatProperties
  <2>3. Len(q) = n /\ Len(d) = l
      BY <1>2
  <2> QED BY <2>2, <2>3
<1>5. ASSUME NEW i \in 1..(n + l)
      PROVE  (q \o d)[i] = IF i <= n THEN h[k + i] ELSE d[i - n]
  <2>1. CASE i <= n
    <3>1. (q \o d)[i] = q[i] /\ i \in 1..n
        BY <1>4, <2>1
    <3> QED BY <1>2, <2>1, <3>1
  <2>2. CASE ~(i <= n)
      BY <1>4, <2>2
  <2> QED BY <2>1, <2>2
<1>6. /\ p \in Seq(Byte) /\ Len(p) = k /\ \A i \in 1..k : p[i] = h[i]
      /\ q \o d \in Seq(Byte) /\ Len(q \o d) = n + l
    BY <1>1, <1>4
<1> QED BY <1>3, <1>5, <1>6 DEF q

\* The write offset goes back over bytes that were delivered.
LEMMA PutsBack ==
  ASSUME IInv, IInv', NEW b \in Buffer, NEW n \in Nat, 0 < n,
         n <= currentWriteOffset[b], mem' = mem,
         currentReadOffset' = currentReadOffset,
         currentWriteOffset' = [currentWriteOffset EXCEPT ![b] = @ - n]
  PROVE  Queue!PutBack(b)
<1> DEFINE w == currentWriteOffset[b]
           k == w - n
           h == Behind(b)
           d == Data(b)
<1>1. /\ w \in Nat /\ k \in Nat /\ dataSize(b) \in Nat /\ n <= Size[b]
      /\ currentReadOffset[b] - k = n + dataSize(b)
  <2>1. /\ w \in Nat /\ currentReadOffset[b] \in Nat /\ Size[b] \in Nat
        /\ w <= currentReadOffset[b] /\ currentReadOffset[b] <= Size[b]
        /\ dataSize(b) = currentReadOffset[b] - w
      BY OffsetsNow DEF dataSize
  <2> QED BY <2>1
<1>2. /\ Elsewhere({b}) /\ currentReadOffset'[b] = currentReadOffset[b]
      /\ currentWriteOffset'[b] = k /\ mem'[b] = mem[b]
    BY OnlyOne, Unchanged1
<1>3. /\ h \in Seq(Byte) /\ Len(h) = w /\ \A i \in 1..w : h[i] = mem[b][i]
      /\ d \in Seq(Byte) /\ Len(d) = dataSize(b)
      /\ \A i \in 1..dataSize(b) : d[i] = mem[b][w + i]
    BY Views
<1> HIDE DEF h, d
<1> DEFINE p == SubSeq(h, 1, k)
           q == SubSeq(h, k + 1, k + n)
           l == dataSize(b)
<1>4. w = k + n
    BY <1>1
<1>5. /\ k \in Nat /\ l \in Nat /\ Len(h) = k + n /\ Len(d) = l
      /\ h \in Seq(Byte) /\ d \in Seq(Byte)
    BY <1>1, <1>3, <1>4
<1>6. /\ p \in Seq(Byte) /\ Len(p) = k /\ \A i \in 1..k : p[i] = h[i]
      /\ q \o d \in Seq(Byte) /\ Len(q \o d) = n + l
      /\ \A i \in 1..(n + l) : (q \o d)[i] = IF i <= n THEN h[k + i] ELSE d[i - n]
  <2> HIDE DEF k, w, l
  <2> QED BY <1>5, PutInFront
<1> HIDE DEF p, q
<1>7. Behind(b)' = p
  <2>1. \A i \in 1..k : p[i] = mem'[b][i]
    <3>1. \A i \in 1..k : i \in 1..w
        BY <1>1, <1>4
    <3> QED BY <1>2, <1>3, <1>6, <3>1
  <2> QED BY <1>2, <1>6, <2>1, BehindIs
<1>8. Data(b)' = q \o d
  <2> DEFINE u == q \o d
  <2>1. ASSUME NEW i \in 1..(n + l) PROVE u[i] = mem'[b][currentWriteOffset'[b] + i]
    <3>1. u[i] = IF i <= n THEN h[k + i] ELSE d[i - n]
        BY <1>6
    <3>2. CASE i <= n
      <4>1. k + i \in 1..w
          BY <1>1, <1>4, <3>2
      <4> QED BY <1>2, <1>3, <3>1, <3>2, <4>1
    <3>3. CASE ~(i <= n)
      <4>1. i - n \in 1..dataSize(b) /\ w + (i - n) = k + i
          BY <1>1, <1>4, <3>3
      <4> QED BY <1>2, <1>3, <3>1, <3>3, <4>1
    <3> QED BY <3>2, <3>3
  <2>2. u \in Seq(Byte) /\ Len(u) = n + l
      BY <1>6
  <2>3. dataSize(b)' = n + l
      BY <1>1, <1>2 DEF dataSize
  <2> HIDE DEF u, l
  <2>4. Data(b)' = u
      BY <2>1, <2>2, <2>3, DataIs
  <2> QED BY <2>4 DEF u
<1>9. /\ QData' = [QData EXCEPT ![b] = SubSeq(QBehind[b], k + 1, k + n) \o QData[b]]
      /\ QBehind' = [QBehind EXCEPT ![b] = SubSeq(QBehind[b], 1, k)]
      /\ QBehind[b] # <<>>
      /\ Len(QBehind[b]) = w
  <2>1. QData[b] = d /\ QBehind[b] = h
      BY DEF QData, QBehind, d, h
  <2>2. h # <<>>
      BY <1>1, <1>3, EmptySeq
  <2> QED BY <1>2, <1>3, <1>7, <1>8, <2>1, <2>2, OneQueue DEF p, q
<1>10. n \in 1..Size[b] /\ Len(QBehind[b]) - n = k /\ k >= 0
  <2>1. Size[b] \in Nat
      BY OffsetsNow
  <2> QED BY <1>1, <1>9, <2>1
<1> HIDE DEF k, w
<1> QED BY <1>9, <1>10 DEF Queue!PutBack, QData, QBehind

LEMMA RewindQueue ==
  ASSUME IInv, IInv', NEW b \in Buffer, Rewind(b)
  PROVE  Queue!PutBack(b) \/ UNCHANGED <<QData, QBehind>>
<1>1. currentWriteOffset[b] \in Nat /\ currentWriteOffset \in [Buffer -> Nat]
    BY IInvByBuffer
<1>2. CASE currentWriteOffset[b] = 0
  <2>1. currentWriteOffset' = currentWriteOffset /\ mem' = mem
        /\ currentReadOffset' = currentReadOffset
      BY <1>1, <1>2 DEF Rewind
  <2> QED BY <2>1 DEF QData, QBehind, Data, Front, Behind, dataSize
<1>3. CASE currentWriteOffset[b] # 0
  <2>1. 0 < currentWriteOffset[b]
        /\ currentWriteOffset[b] <= currentWriteOffset[b]
        /\ currentWriteOffset[b] - currentWriteOffset[b] = 0
      BY <1>1, <1>3
  <2>2. currentWriteOffset' =
          [currentWriteOffset EXCEPT ![b] = @ - currentWriteOffset[b]]
      BY <2>1 DEF Rewind
  <2> QED BY <1>1, <2>1, <2>2, PutsBack DEF Rewind
<1> QED BY <1>2, <1>3

LEMMA ToothpasteQueue ==
  ASSUME IInv, IInv', NEW b \in Buffer, Toothpaste(b)
  PROVE  Queue!PutBack(b) \/ UNCHANGED <<QData, QBehind>>
<1>0. /\ currentWriteOffset[b] \in Nat /\ Size[b] \in Nat
      /\ currentWriteOffset \in [Buffer -> Nat] /\ currentReadOffset \in [Buffer -> Nat]
    BY IInvByBuffer, OffsetsNow
<1>1. CASE currentReadOffset[b] = 0 /\ currentWriteOffset[b] = 0
  <2>1. PICK n \in Lengths :
          /\ n <= Size[b]
          /\ currentReadOffset' = [currentReadOffset EXCEPT ![b] = n]
          /\ UNCHANGED currentWriteOffset
      BY <1>1 DEF Toothpaste
  <2>2. n \in Nat /\ mem' = mem
      BY PushPullAssumption DEF Toothpaste, Lengths
  <2>3. CASE n = 0
    <3>1. currentReadOffset' = currentReadOffset
        BY <1>0, <1>1, <2>1, <2>3
    <3> QED BY <2>1, <2>2, <3>1 DEF QData, QBehind, Data, Front, Behind, dataSize
  <2>4. CASE n # 0
    <3>1. /\ Elsewhere({b}) /\ currentReadOffset'[b] = n
          /\ currentWriteOffset'[b] = 0
        BY <1>1, <2>1, <2>2, OnlyOne, Unchanged1
    <3>2. Data(b) = <<>> /\ Behind(b) = <<>>
      <4>1. Data(b) \in Seq(Byte) /\ Behind(b) \in Seq(Byte)
            /\ Len(Data(b)) = 0 /\ Len(Behind(b)) = 0
          BY <1>1, Views DEF dataSize
      <4> QED BY <4>1, EmptySeq
    <3>3. Behind(b)' = Behind(b)
        BY <3>1, <3>2, BehindForgotten
    <3>4. Data(b)' \in [1..n -> Byte]
      <4>1. Data(b)' \in Seq(Byte) /\ Len(Data(b)') = n
          BY <2>2, <3>1, ViewsNext DEF dataSize
      <4> QED BY <4>1, LenProperties
    <3>5. n \in 1..Size[b]
        BY <1>0, <2>1, <2>2, <2>4
    <3> QED BY <3>1, <3>2, <3>3, <3>4, <3>5, OneQueue
            DEF Queue!PutBack, QData, QBehind
  <2> QED BY <2>3, <2>4
<1>2. CASE ~(currentReadOffset[b] = 0 /\ currentWriteOffset[b] = 0)
  <2>1. PICK n \in Lengths :
          /\ n <= currentWriteOffset[b]
          /\ currentWriteOffset' = [currentWriteOffset EXCEPT ![b] = @ - n]
          /\ UNCHANGED currentReadOffset
      BY <1>2 DEF Toothpaste
  <2>2. n \in Nat /\ mem' = mem
      BY PushPullAssumption DEF Toothpaste, Lengths
  <2>3. CASE n = 0
    <3>1. currentWriteOffset' = currentWriteOffset
        BY <1>0, <2>1, <2>3
    <3> QED BY <2>1, <2>2, <3>1 DEF QData, QBehind, Data, Front, Behind, dataSize
  <2>4. CASE n # 0
    <3>1. 0 < n
        BY <2>2, <2>4
    <3> QED BY <2>1, <2>2, <3>1, PutsBack
  <2> QED BY <2>3, <2>4
<1> QED BY <1>1, <1>2

LEMMA ResetQueue ==
  ASSUME IInv, IInv', NEW b \in Buffer, Reset(b)
  PROVE  Queue!Clear(b)
<1>1. /\ Elsewhere({b}) /\ currentReadOffset'[b] = 0 /\ currentWriteOffset'[b] = 0
    BY OnlyOne DEF Reset
<1>2. Behind(b)' = <<>>
    BY <1>1, BehindForgotten
<1>3. Data(b)' = <<>>
  <2>1. Data(b)' \in Seq(Byte) /\ Len(Data(b)') = 0
      BY <1>1, ViewsNext DEF dataSize
  <2> QED BY <2>1, EmptySeq
<1> QED BY <1>1, <1>2, <1>3, OneQueue DEF Queue!Clear, QData, QBehind

-----------------------------------------------------------------------------
LEMMA InitQueue == Init => Queue!QueueInit
<1> SUFFICES ASSUME Init PROVE Queue!QueueInit
    OBVIOUS
<1>1. IInv
    BY InitIInv
<1>2. ASSUME NEW b \in Buffer
      PROVE  /\ Data(b) \in Seq(Byte) /\ Len(Data(b)) \in {0, Size[b]}
             /\ Behind(b) = <<>>
  <2>1. /\ currentWriteOffset[b] = 0 /\ currentReadOffset[b] \in {0, Size[b]}
        /\ currentReadOffset[b] \in Nat
      BY <1>1, OffsetsNow DEF Init
  <2>2. /\ Data(b) \in Seq(Byte) /\ Len(Data(b)) = currentReadOffset[b]
        /\ Behind(b) \in Seq(Byte) /\ Len(Behind(b)) = 0
      BY <1>1, <2>1, Views DEF dataSize
  <2> QED BY <2>1, <2>2, EmptySeq
<1> QED BY <1>2 DEF Queue!QueueInit

LEMMA StepQueue ==
  ASSUME IInv, IInv', [Next]_vars
  PROVE  Queue!QueueNext \/ UNCHANGED <<QData, QBehind>>
<1>1. ASSUME mem' = mem, currentReadOffset' = currentReadOffset,
             currentWriteOffset' = currentWriteOffset
      PROVE  UNCHANGED <<QData, QBehind>>
    BY <1>1 DEF QData, QBehind, Data, Front, Behind, dataSize
<1>2. ASSUME NEW b \in Buffer, Operation(b)
      PROVE  Queue!QueueNext \/ UNCHANGED <<QData, QBehind>>
  <2>1. CASE ReadFrom(b) \/ ReadFromBuffer(b) \/ Printf(b) \/ SetFull(b)
      BY <2>1, ReadFromQueue, ReadFromBufferQueue, PrintfQueue, SetFullQueue
         DEF Queue!QueueNext
  <2>2. CASE WriteTo(b) \/ WriteToBuffer(b)
      BY <2>2, WriteQueue DEF Queue!QueueNext
  <2>3. CASE RemoveChunk(b) \/ MakeRoom(b) \/ Reset(b)
      BY <2>3, RemoveChunkQueue, MakeRoomQueue, ResetQueue DEF Queue!QueueNext
  <2>4. CASE Toothpaste(b) \/ Rewind(b)
      BY <2>4, ToothpasteQueue, RewindQueue DEF Queue!QueueNext
  <2>5. CASE ReadNothing(b) \/ WriteFails(b)
      BY <1>1, <2>5 DEF ReadNothing, WriteFails
  <2> QED BY <1>2, <2>1, <2>2, <2>3, <2>4, <2>5 DEF Operation
<1>3. ASSUME NEW b \in Buffer, NEW c \in Buffer \ {b}, MoveBuffer(b, c)
      PROVE  Queue!QueueNext \/ UNCHANGED <<QData, QBehind>>
    BY <1>3, MoveBufferQueue DEF Queue!QueueNext
<1>4. CASE UNCHANGED vars
    BY <1>1, <1>4 DEF vars
<1> QED BY <1>2, <1>3, <1>4 DEF Next

\* The operations of pushpull.c keep every byte in its order: reads, writes,
\* prints, moves, cuts, put-backs and compaction are steps of bounded queues.
THEOREM RefinesQueue == Spec => ImplementsQueue
<1>1. IInv /\ IInv' /\ [Next]_vars
        => [Queue!QueueNext]_<<[b \in Buffer |-> Data(b)], [b \in Buffer |-> Behind(b)]>>
    BY StepQueue DEF QData, QBehind
<1> QED BY <1>1, InitQueue, Inductive, PTL DEF Spec, ImplementsQueue, Queue!QueueSpec
=============================================================================
