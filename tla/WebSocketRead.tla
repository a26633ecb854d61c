---------------------------- MODULE WebSocketRead ----------------------------
(***************************************************************************)
(* The reading half of a web socket: CS_WS_nextIncomingFrame of            *)
(* src/websocket.c, called by the loop of the handler "websocket" of       *)
(* src/main.cpp, which answers pings with pongs and text with text.        *)
(*                                                                         *)
(* The peer sends frames; the connection delivers their bytes in any       *)
(* parts into the receive buffer of the client info, as CS_PP_readFromFile *)
(* (plain) or CS_PP_readFromSSL do.  A thread that reads a length from     *)
(* bytes that have not come ("misread") is not followed further.           *)
(***************************************************************************)
EXTENDS WebSocketFrames, Buffers, FiniteSets

CONSTANTS Scripts,    (* what the peer may send: sequences of frames      *)
          BufferSize, (* CLIENT_RECEIVE_BUFFER                            *)
          Gaps        (* bytes of the block the upgrade request had used  *)

ASSUME ReadAssumption ==
  /\ BufferSize \in Nat /\ BufferSize >= 4
  /\ Gaps \subseteq 0..(BufferSize - 1)
  /\ \A s \in Scripts : s = [i \in 1..Len(s) |-> s[i]] /\ Len(s) \in Nat
  /\ \A s \in Scripts : \A i \in DOMAIN s :
       /\ s[i] = [opcode |-> s[i].opcode, mask |-> s[i].mask, length |-> s[i].length]
       /\ s[i].length \in Nat /\ s[i].mask \in BOOLEAN

NoFrame == [opcode |-> "none", mask |-> FALSE, length |-> 0]

VARIABLES
  tls,
  sent,      (* the frames the peer sends                                  *)
  unread,    (* their bytes that have not been read                        *)
  peer,      (* "there", "closed" orderly, or "reset"                      *)
  buffer,
  pc,
  frame,     (* the frame that is read, its payload so far, ...            *)
  payload,
  framesOut, (* frames out of frameAllocator                               *)
  handed,    (* frames and payloads that were handed to the handler        *)
  answers,   (* frames the handler has pushed                              *)
  webSocket  (* "there", "destroyed", or "left" behind by the handler      *)

connection == <<tls, sent, peer>>
vars == <<connection, unread, buffer, pc, frame, payload, framesOut, handed, answers,
          webSocket>>

Bytes(s) == FlattenSeq([k \in DOMAIN s |-> Encoding(s[k])])

Init ==
  /\ tls \in BOOLEAN
  /\ sent \in Scripts /\ unread = Bytes(sent)
  /\ peer = "there"
  /\ buffer \in {[gap |-> g, data |-> <<>>] : g \in Gaps}
  /\ pc = "header"
  /\ frame = NoFrame /\ payload = <<>>
  /\ framesOut = 0 /\ handed = <<>> /\ answers = <<>>
  /\ webSocket = "there"

Data == buffer.data
Have(n) == Len(Data) >= n

-----------------------------------------------------------------------------
(* CS_serverFillIncomingBuffer                                              *)

\* It gets n of the bytes that are on their way.
Part == 1..Min({room(buffer, BufferSize), Len(unread)})
Filled(n) == Put(buffer, SubSeq(unread, 1, n))
Gets(n) == unread' = SubSeq(unread, n + 1, Len(unread))

Ended == unread = <<>> /\ peer # "there"

\* It gets nothing, 0 bytes: the buffer is full up to the end of its block,
\* or a plain connection has ended.
GetsNothing == room(buffer, BufferSize) = 0 \/ (Ended /\ peer = "closed" /\ ~tls)

Fails == room(buffer, BufferSize) > 0 /\ Ended /\ (peer = "reset" \/ tls)

-----------------------------------------------------------------------------
(* CS_WS_nextIncomingFrame                                                  *)

\* The handler returns when it gets no frame, and leaves the web socket.
Over == pc' = "over" /\ webSocket' = "left"

Reading(here) == pc = here /\ UNCHANGED <<connection, handed, answers>>
Goes(there) == pc' = there /\ UNCHANGED webSocket

\* ERROR_READING: the frame goes back.
ErrorReading ==
  /\ Over
  /\ framesOut' = framesOut - 1
  /\ frame' = NoFrame /\ payload' = <<>>

\* The loop for the two bytes of a header.  With one byte in a buffer that
\* is full to its end, or a plain connection ended behind it, it goes round.
FillHeader ==
  /\ Reading("header") /\ ~Have(2)
  /\ \E n \in Part : Gets(n) /\ buffer' = Filled(n)
  /\ Goes("header")
  /\ UNCHANGED <<frame, payload, framesOut>>

\* Mutant: a read that gives nothing is tried again.
NoHeaderOnError ==
  /\ Reading("header") /\ ~Have(2)
  /\ Fails
  /\ Over
  /\ UNCHANGED <<unread, buffer, frame, payload, framesOut>>

NoHeader ==
  /\ Reading("header") /\ ~Have(2)
  /\ Fails \/ (GetsNothing /\ ~Have(1))
  /\ Over
  /\ UNCHANGED <<unread, buffer, frame, payload, framesOut>>

\* Where the reading of f goes on when its length is known.
Then(f) == IF f.mask THEN "key" ELSE "alloc"

Header ==
  /\ Reading("header") /\ Have(2)
  /\ LET f == [opcode |-> Data[1][2], mask |-> Data[2][2], length |-> Data[2][3]] IN
     IF f.length = Marker64
     THEN Over /\ UNCHANGED <<frame, framesOut>>
     ELSE /\ frame' = f
          /\ framesOut' = framesOut + 1
          /\ Goes(IF f.length = Marker16 THEN "size" ELSE Then(f))
  /\ buffer' = Drop(buffer, 2)
  /\ UNCHANGED <<unread, payload>>

\* frameAllocator has run out of memory.
NoEmptyFrame ==
  /\ Reading("header") /\ Have(2)
  /\ Over
  /\ UNCHANGED <<unread, buffer, frame, payload, framesOut>>

\* Mutant: the length bytes are looked at and stay.
SizeKept(b) ==
  IF Len(b.data) < 2
  THEN Goes("misread") /\ buffer' = b /\ UNCHANGED frame
  ELSE LET f == [frame EXCEPT !.length = b.data[1][2]] IN
       /\ Goes(Then(f)) /\ frame' = f
       /\ buffer' = b

\* The two bytes of an extended length, after one fill if they are not there.
Size(b) ==
  IF Len(b.data) < 2
  THEN Goes("misread") /\ buffer' = b /\ UNCHANGED frame
  ELSE LET f == [frame EXCEPT !.length = b.data[1][2]] IN
       /\ Goes(Then(f)) /\ frame' = f
       /\ buffer' = Drop(b, 2)

ReadSize ==
  /\ Reading("size")
  /\ \/ Have(2) /\ Size(buffer) /\ UNCHANGED unread
     \/ ~Have(2) /\ \E n \in Part : Gets(n) /\ Size(Filled(n))
  /\ UNCHANGED <<payload, framesOut>>

\* The mask, after one fill: with fewer than four bytes the frame is given up.
Key(b) ==
  IF Len(b.data) < 4 THEN ErrorReading /\ buffer' = Empty
  ELSE Goes("alloc") /\ buffer' = Drop(b, 4) /\ UNCHANGED <<frame, payload, framesOut>>

ReadKey ==
  /\ Reading("key")
  /\ \/ Have(4) /\ Key(buffer) /\ UNCHANGED unread
     \/ ~Have(4) /\ \E n \in Part : Gets(n) /\ Key(Filled(n))

\* Neither was there, nor came.
SizeOrKeyFails ==
  /\ Reading(pc) /\ pc \in {"size", "key"}
  /\ ~Have(IF pc = "size" THEN 2 ELSE 4)
  /\ Fails \/ GetsNothing
  /\ ErrorReading
  /\ UNCHANGED <<unread, buffer>>

Alloc ==
  /\ Reading("alloc")
  /\ \/ Goes("payload") /\ UNCHANGED <<frame, payload, framesOut>>
     \/ ErrorReading
  /\ UNCHANGED <<unread, buffer>>

Remaining == frame.length - Len(payload)

\* What the buffer holds of the payload, at most what is missing.
TakePayload ==
  /\ Reading("payload")
  /\ LET n == Min({Remaining, Len(Data)}) IN
       /\ payload' = payload \o SubSeq(Data, 1, n)
       /\ buffer' = IF n > 0 THEN Drop(buffer, n) ELSE buffer
       /\ Goes(IF n = Remaining THEN "handle" ELSE "more")
  /\ UNCHANGED <<unread, frame, framesOut>>

MorePayload ==
  /\ Reading("more")
  /\ \E n \in Part : Gets(n) /\ buffer' = Filled(n)
  /\ Goes("payload")
  /\ UNCHANGED <<frame, payload, framesOut>>

PayloadFails ==
  /\ Reading("more")
  /\ Fails \/ (GetsNothing /\ ~Have(1))
  /\ ErrorReading
  /\ UNCHANGED <<unread, buffer>>

-----------------------------------------------------------------------------
(* The loop of the handler                                                  *)

Handling == <<connection, unread, buffer>>

HandedUp == handed' = Append(handed, [frame |-> frame, payload |-> payload])

\* The frame goes back to its slab, and the next one is read.
ReturnFrame ==
  /\ pc' = "header"
  /\ framesOut' = framesOut - 1
  /\ frame' = NoFrame /\ payload' = <<>>
  /\ UNCHANGED webSocket

Answer(f, bytes) ==
  [opcode |-> IF f.opcode = "ping" THEN "pong" ELSE "text", payload |-> bytes]

\* CS_WS_createFrame refuses a payload of no bytes; a text has none then.
Answerable == frame.opcode = "ping" => frame.length > 0

HandleAnswered ==
  /\ pc = "handle" /\ frame.opcode \in {"ping", "text"}
  /\ Answerable
  /\ HandedUp
  /\ answers' = Append(answers, Answer(frame, payload))
  /\ ReturnFrame
  /\ UNCHANGED Handling

\* Mutant: a frame that is not answered is forgotten.
HandleOtherKept ==
  /\ pc = "handle" /\ frame.opcode \notin {"ping", "text"}
  /\ HandedUp
  /\ pc' = "header" /\ frame' = NoFrame /\ payload' = <<>>
  /\ UNCHANGED <<Handling, answers, framesOut, webSocket>>

HandleOther ==
  /\ pc = "handle" /\ frame.opcode \notin {"ping", "text"}
  /\ HandedUp
  /\ ReturnFrame
  /\ UNCHANGED <<Handling, answers>>

\* ERROR_CLOSE: no frame for the answer, or its push fails; CS_WS_destroy
\* frees the slab with the frame in it.
HandleFails ==
  /\ pc = "handle" /\ frame.opcode \in {"ping", "text"}
  /\ HandedUp
  /\ pc' = "over" /\ webSocket' = "destroyed"
  /\ framesOut' = 0 /\ frame' = NoFrame /\ payload' = <<>>
  /\ UNCHANGED <<Handling, answers>>

-----------------------------------------------------------------------------
PeerLeaves ==
  /\ peer = "there"
  /\ \/ /\ peer' = "closed"
        /\ \E n \in 0..Len(unread) : unread' = SubSeq(unread, 1, n)
     \/ peer' = "reset" /\ unread' = <<>>
  /\ UNCHANGED <<tls, sent, buffer, pc, frame, payload, framesOut, handed, answers, webSocket>>

Step ==
  \/ FillHeader \/ NoHeader \/ Header \/ NoEmptyFrame \/ ReadSize \/ ReadKey
  \/ SizeOrKeyFails \/ Alloc \/ TakePayload \/ MorePayload \/ PayloadFails
  \/ HandleAnswered \/ HandleOther \/ HandleFails

Next == Step \/ PeerLeaves

Spec == Init /\ [][Next]_vars

\* The thread runs; what the peer has sent arrives.
FairSpec == Spec /\ WF_vars(Step)

-----------------------------------------------------------------------------
TypeOK ==
  /\ peer \in {"there", "closed", "reset"}
  /\ BufferOK(buffer, BufferSize)
  /\ pc \in {"header", "size", "key", "alloc", "payload", "more", "handle", "over", "misread"}
  /\ Len(payload) <= frame.length
  /\ webSocket \in {"there", "destroyed", "left"}

Whole(f) == [frame |-> f, payload |-> Payload(f)]

Asks(h) == h.frame.opcode \in {"ping", "text"}
AnswerTo(h) == IF Asks(h) THEN <<Answer(h.frame, h.payload)>> ELSE <<>>
Answers(s)  == FlattenSeq([k \in DOMAIN s |-> AnswerTo(s[k])])

\* The state is well formed; the handler gets the frames that were sent, in
\* their order and with their payload, wherever the connection cuts them
\* (CS_WS_nextIncomingFrame); and it has answered every ping and text, but
\* for one that made it give up.  A length that is read before it has come is
\* the exception ("misread").
FramesAsSent ==
  /\ TypeOK
  /\ IsPrefix(handed, [k \in DOMAIN sent |-> Whole(sent[k])])
  /\ LET asked == Answers(handed) IN
       answers = IF webSocket = "destroyed" THEN Front(asked) ELSE asked

\* A frame is out of its slab only while it is read or handled: every way
\* out of the reader and of the handler gives it back.
FramesReturned ==
  framesOut = Cardinality({"size", "key", "alloc", "payload", "more", "handle", "misread"}
                            \cap {pc})

\* The exceptions the loop for a header has no way out of: one byte of it is
\* there, and the block ends, or the connection has ended, behind that byte.
Wedged == pc = "header" /\ Len(Data) = 1 /\ GetsNothing

\* The thread of a peer that has gone ends: websocket.c:289 "A zero return
\* with an empty buffer means the remote end hung up", and the same with an
\* answer of -1 or with bytes that are not all there.
ReaderEnds == (peer # "there") ~> (pc \in {"over", "misread"} \/ Wedged)
=============================================================================
