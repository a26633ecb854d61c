----------------------------- MODULE HttpReply -----------------------------
(***************************************************************************)
(* How CS_httpMakeRequest of src/http.c takes in the reply to a request:   *)
(* one read for the status line and the headers, one more for a body that  *)
(* is longer than what has come, and for a chunked body a loop that cuts   *)
(* the frames of the chunks out of the buffer, so that data alone is left. *)
(* chunkedBytesOffset counts from the end of the data in the buffer.       *)
(*                                                                         *)
(* Bytes are <<kind, value>>: head, data, or a hex digit, CR or LF of the  *)
(* frame around a chunk; Base is the base of the digits (16).  Sending the *)
(* request comes before, decompression after what is modelled here.        *)
(***************************************************************************)
EXTENDS Buffers

CONSTANTS Replies,    (* what peers send: [head, chunked, length, body]     *)
          Size,       (* PP_BUFFER_SIZE_FOR_RETURN                          *)
          Base

CR == <<"cr", 0>>
LF == <<"lf", 0>>
CRLF == <<CR, LF>>

VARIABLES
  reply,                  (* the reply the peer sends                       *)
  wire,                   (* what of it has still to come                   *)
  at,                     (* where the client is, or how the call ended     *)
  buffer,
  chunkedBytesOffset, chunkCRLFStillPresent

vars == <<reply, wire, at, buffer, chunkedBytesOffset, chunkCRLFStillPresent>>

Init ==
  /\ reply \in Replies
  /\ wire = [i \in 1..reply.head |-> <<"head", i>>] \o reply.body
  /\ at = "headers"
  /\ buffer = Empty
  /\ chunkedBytesOffset = 0 /\ chunkCRLFStillPresent = FALSE

Fail == at' = "failed" /\ UNCHANGED <<reply, wire, buffer, chunkedBytesOffset, chunkCRLFStillPresent>>

\* n bytes come in; a full buffer, or a peer that has closed, gives none.
Fill(n) ==
  /\ n \in 0..Min({room(buffer, Size), Len(wire)})
  /\ n = 0 => room(buffer, Size) = 0 \/ wire = <<>>
  /\ buffer' = Put(buffer, SubSeq(wire, 1, n))
  /\ wire' = SubSeq(wire, n + 1, Len(wire))
  /\ UNCHANGED <<reply, chunkCRLFStillPresent>>

ReadFails == at \in {"headers", "body", "more"} /\ Fail

ReadHeaders ==
  /\ at = "headers"
  /\ \E n \in 0..Size : Fill(n)
  /\ at' = "parse"
  /\ UNCHANGED chunkedBytesOffset

\* The head must be whole; it leaves the buffer.
ParseReply ==
  /\ at = "parse" /\ Len(buffer.data) >= reply.head
  /\ buffer' = Drop(buffer, reply.head)
  /\ at' = IF reply.length > Len(buffer'.data) THEN "body"
           ELSE IF reply.chunked THEN "chunks" ELSE "done"
  /\ chunkedBytesOffset' = IF at' = "chunks" THEN -Len(buffer'.data) ELSE 0
  /\ UNCHANGED <<reply, wire, chunkCRLFStillPresent>>

ParseFails == at = "parse" /\ Len(buffer.data) < reply.head /\ Fail

\* Content-Length announces more than is there: one read.
ReadBody ==
  /\ at = "body"
  /\ \E n \in 0..Size : Fill(n)
  /\ at' = IF reply.chunked THEN "chunks" ELSE "done"
  /\ chunkedBytesOffset' = IF reply.chunked THEN -Len(buffer'.data) ELSE 0

-----------------------------------------------------------------------------
(* privateContinueChunked, one turn of its loop at a time                   *)

\* The bytes before currentPoint, and those from there on.
point == Len(buffer.data) + chunkedBytesOffset
Rest == SubSeq(buffer.data, point + 1, Len(buffer.data))

InLoop == at = "chunks" /\ chunkedBytesOffset <= 0

\* The next chunk begins beyond what has come.
Beyond ==
  /\ at = "chunks" /\ chunkedBytesOffset > 0
  /\ at' = "more"
  /\ UNCHANGED <<reply, wire, buffer, chunkedBytesOffset, chunkCRLFStillPresent>>

BeforeStart == InLoop /\ point < 0 /\ Fail

\* No CRLF; where fewer than two bytes have come, the bytes that lie behind
\* the data in the block decide, and may be anything.
NoCRLF ==
  /\ InLoop /\ point >= 0 /\ chunkCRLFStillPresent
  /\ ~IsPrefix(CRLF, Rest)
  /\ \/ Fail
     \/ /\ IsStrictPrefix(Rest, CRLF)
        /\ at' = "more"
        /\ UNCHANGED <<reply, wire, buffer, chunkedBytesOffset, chunkCRLFStillPresent>>

\* The CRLF leaves the buffer, then the line with the size, if it is whole.
TakeSize ==
  /\ InLoop /\ point >= 0
  /\ chunkCRLFStillPresent => IsPrefix(CRLF, Rest)
  /\ LET kept == SubSeq(buffer.data, 1, point)
         line == IF chunkCRLFStillPresent THEN Tail(Tail(Rest)) ELSE Rest
         n == Min({Len(line)} \cup {i - 1 : i \in {j \in DOMAIN line : line[j] = CR}})
         digits == SubSeq(line, 1, n)
         accumulator == FoldLeft(LAMBDA a, d : Base * a + d[2], 0, digits)
     IN \/ /\ \E d \in ToSet(digits) : d[1] # "hex"
           /\ Fail
        \/ /\ \A d \in ToSet(digits) : d[1] = "hex"
           /\ n + 1 >= Len(line)
           /\ buffer' = [buffer EXCEPT !.data = kept \o line]
           /\ chunkCRLFStillPresent' = FALSE
           /\ at' = "more"
           /\ UNCHANGED <<reply, wire, chunkedBytesOffset>>
        \/ /\ \A d \in ToSet(digits) : d[1] = "hex"
           /\ n + 1 < Len(line) /\ line[n + 2] # LF
           /\ Fail
        \/ /\ \A d \in ToSet(digits) : d[1] = "hex"
           /\ n + 1 < Len(line) /\ line[n + 2] = LF
           /\ buffer' = [buffer EXCEPT !.data = kept \o SubSeq(line, n + 3, Len(line))]
           /\ chunkedBytesOffset' = chunkedBytesOffset + n + 2 + accumulator
           /\ chunkCRLFStillPresent' = TRUE
           /\ at' = IF accumulator = 0 THEN "done" ELSE "chunks"
           /\ UNCHANGED <<reply, wire>>

\* CONTINUE_CHUNK_MORE: one read; a buffer without room ends the loop.
ReadMore ==
  /\ at = "more"
  /\ \E n \in 0..Size :
       /\ Fill(n)
       /\ chunkedBytesOffset' = chunkedBytesOffset - n
  /\ at' = IF room(buffer', Size) > 0 THEN "chunks" ELSE "done"

Next == \/ ReadHeaders \/ ParseReply \/ ParseFails \/ ReadBody \/ ReadFails
        \/ Beyond \/ BeforeStart \/ NoCRLF \/ TakeSize \/ ReadMore

Spec == Init /\ [][Next]_vars

-----------------------------------------------------------------------------

(* Whenever the loop over the chunks begins a turn, chunkedBytesOffset     *)
(* says where the frame of the next chunk begins: what lies before is data,*)
(* and the byte there, once it has come, is not.  The comment on           *)
(* privateContinueChunked says what the offset represents; the code does   *)
(* not count the CRLF it removed between two chunks, so that behind the    *)
(* second chunk the offset is two bytes short.                             *)
OffsetAtFrame ==
  InLoop => /\ point >= 0
            /\ \A i \in 1..point : buffer.data[i][1] = "data"
            /\ Rest # <<>> => Rest[1][1] # "data"
=============================================================================
