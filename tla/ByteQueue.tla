----------------------------- MODULE ByteQueue -----------------------------
(***************************************************************************)
(* What the push-pull buffers of pushpull.c promise together: each one is a*)
(* bounded queue of bytes.  "data" is what it still has to deliver, in     *)
(* order; "behind" what it has delivered and can still be asked for again. *)
(***************************************************************************)
EXTENDS Integers, Sequences

CONSTANTS Buffer, Byte, Size

VARIABLES data, behind

Fits(b, n) == Len(behind[b]) + Len(data[b]) + n <= Size[b]

QueueInit ==
  /\ behind = [b \in Buffer |-> <<>>]
  /\ data \in [Buffer -> Seq(Byte)]
  /\ \A b \in Buffer : Len(data[b]) \in {0, Size[b]}

\* What follows is about the first n bytes of a queue.
Rest(b, n)  == SubSeq(data[b], n + 1, Len(data[b]))
First(b, n) == SubSeq(data[b], 1, n)

\* A queue that is emptied by a consumer forgets what it has delivered.
BehindAfter(b, n) == IF n = Len(data[b]) THEN <<>> ELSE behind[b] \o First(b, n)

\* New bytes join at the end, and only if there is room for them.
Join(b) ==
  \E n \in 1..Size[b] :
    /\ Fits(b, n)
    /\ \E s \in [1..n -> Byte] : data' = [data EXCEPT ![b] = @ \o s]
    /\ UNCHANGED behind

\* Bytes leave at the front.
Deliver(b) ==
  \E n \in 1..Len(data[b]) :
    /\ data' = [data EXCEPT ![b] = Rest(b, n)]
    /\ behind' = [behind EXCEPT ![b] = BehindAfter(b, n)]

\* Bytes of one queue move to another, none lost, doubled or out of order.
Transfer(b, c) ==
  \E n \in 1..Len(data[b]) :
    /\ Fits(c, n)
    /\ data' = [data EXCEPT ![b] = Rest(b, n), ![c] = @ \o First(b, n)]
    /\ behind' = [behind EXCEPT ![b] = BehindAfter(b, n)]

\* A chunk is cut out; what is before and after it stays as it is.
Cut(b) ==
  \E i \in 0..Len(data[b]) : \E n \in 0..(Len(data[b]) - i) :
    /\ data' = [data EXCEPT ![b] = First(b, i) \o Rest(b, i + n)]
    /\ UNCHANGED behind

\* The last bytes delivered come back; an empty queue that has forgotten
\* them gets as many bytes of no known value.
PutBack(b) ==
  \E n \in 1..Size[b] :
    IF behind[b] = <<>> /\ data[b] = <<>>
    THEN /\ \E s \in [1..n -> Byte] : data' = [data EXCEPT ![b] = s]
         /\ UNCHANGED behind
    ELSE LET k == Len(behind[b]) - n IN
         /\ k >= 0
         /\ data' = [data EXCEPT ![b] = SubSeq(behind[b], k + 1, k + n) \o @]
         /\ behind' = [behind EXCEPT ![b] = SubSeq(@, 1, k)]

\* Room is made by forgetting what was delivered.
Forget(b) == behind' = [behind EXCEPT ![b] = <<>>] /\ UNCHANGED data

Clear(b) ==
  /\ data' = [data EXCEPT ![b] = <<>>]
  /\ behind' = [behind EXCEPT ![b] = <<>>]

QueueNext ==
  \E b \in Buffer :
    \/ Join(b) \/ Deliver(b) \/ Cut(b) \/ PutBack(b) \/ Forget(b) \/ Clear(b)
    \/ \E c \in Buffer \ {b} : Transfer(b, c)

QueueSpec == QueueInit /\ [][QueueNext]_<<data, behind>>
=============================================================================
