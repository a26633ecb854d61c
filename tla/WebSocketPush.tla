---------------------------- MODULE WebSocketPush ----------------------------
(***************************************************************************)
(* The sending half of a web socket, src/websocket.c: several threads push *)
(* frames over one connection.  frameWriteMutex serialises them; a frame is*)
(* put into the output buffer of the connection and written from there to  *)
(* the descriptor, in as many parts as the other end takes.                *)
(*                                                                         *)
(* The output buffer is the queue that PushPull implements: its data, and  *)
(* how many bytes at the start of the block are already gone.              *)
(*                                                                         *)
(* The descriptor is an index that the kernel gives to the next connection *)
(* as soon as it is closed; CS_WS_close closes it under the client thread, *)
(* which closes it once more when the handler returns.  The application    *)
(* keeps the client thread in its handler as long as a thread pushes.      *)
(***************************************************************************)
EXTENDS WebSocketFrames

CONSTANTS Senders,     (* the threads that push                            *)
          NoSender,    (* nobody holds frameWriteMutex                     *)
          Frame,       (* frames pushed: [opcode, length, mask]            *)
          CloseFrame,  (* the frame CS_WS_close pushes                     *)
          BufferSize,  (* CLIENT_SEND_BUFFER                               *)
          UnlockArgs,  (* values callers give to unlockWriteMutex          *)
          MaxPushes    (* bound on the frames pushed                       *)

LongHeader == 2 + 8 + 4

ASSUME WebSocketAssumption ==
  /\ NoSender \notin Senders
  /\ BufferSize \in Nat /\ BufferSize >= LongHeader
  /\ CloseFrame \in Frame
  /\ \A f \in Frame : f.length \in Nat /\ f.mask \in BOOLEAN
  /\ UnlockArgs \subseteq BOOLEAN

VARIABLES
  mutex,       (* holder of frameWriteMutex                                *)
  out, behind, (* the output buffer: its data, and the bytes before it     *)
  descriptor,  (* clientSocket: "open", "closed", "reused" by another      *)
               (* connection, or "ended" with the client thread            *)
  peer,        (* whether the other end is "reading" or "gone"             *)
  wire,        (* bytes the other end of this connection got               *)
  foreign,     (* bytes another connection got                             *)
  log,         (* the frames, in the order their pushes got the mutex      *)
  result,      (* result[k]: "pending", "pushed", "failed"                 *)
  pc,          (* pc[s]: where the thread is                               *)
  push         (* push[s]: the frame of its call, its place in log, how    *)
               (* much of the payload is in the buffer, and the arguments  *)

vars == <<mutex, out, behind, descriptor, peer, wire, foreign, log,
          result, pc, push>>
connection == <<descriptor, peer>>

-----------------------------------------------------------------------------
\* The header CS_WS_pushFrame puts into the buffer: the marker depends on
\* <= 125 and <= 0xFFFF, the bytes of the length on > 0xFFFF and > 126.
Header(f) ==
  <<FirstByte(f), <<"len", f.mask, Marker(f)>>>>
  \o (IF f.length > Medium THEN SubSeq(SizeBytes(f.length, 8), 1, 6) ELSE <<>>)
  \o (IF f.length > Marker16 THEN SizeBytes(f.length, 2) ELSE <<>>)
  \o KeyBytes(f)

maxHeaderSize(f) ==
  2 + (IF f.length <= Short THEN 0 ELSE IF f.length <= Medium THEN 2 ELSE 8)
    + (IF f.mask THEN 4 ELSE 0)

Stream(n) == FlattenSeq([k \in 1..n |-> Encoding(log[k])])

-----------------------------------------------------------------------------
Idle == [frame |-> CloseFrame, at |-> 0, payloadOffset |-> 0,
         unlock |-> TRUE, closing |-> FALSE]

Init ==
  /\ mutex = NoSender
  /\ out = <<>> /\ behind = 0
  /\ descriptor = "open" /\ peer = "reading"
  /\ wire = <<>> /\ foreign = <<>>
  /\ log = <<>> /\ result = <<>>
  /\ pc = [s \in Senders |-> "idle"]
  /\ push = [s \in Senders |-> Idle]

bufferRemaining == BufferSize - behind - Len(out)
Goto(s, there) == pc' = [pc EXCEPT ![s] = there]

\* Mutant: the mutex is not waited for.
PushUnlocked(s) ==
  /\ pc[s] = "idle"
  /\ descriptor # "ended" /\ Len(log) < MaxPushes
  /\ \E f \in Frame, unlock \in UnlockArgs :
       /\ push' = [push EXCEPT ![s] =
            [frame |-> f, at |-> Len(log) + 1, payloadOffset |-> 0,
             unlock |-> unlock, closing |-> FALSE]]
       /\ log' = Append(log, f)
  /\ result' = Append(result, "pending")
  /\ mutex' = s
  /\ Goto(s, "room")
  /\ UNCHANGED <<out, behind, wire, foreign, connection>>

\* CS_WS_pushFrame up to its lock; CS_WS_close pushes its frame and unlocks.
Push(s) ==
  /\ pc[s] = "idle" /\ mutex = NoSender
  /\ descriptor # "ended" /\ Len(log) < MaxPushes
  /\ \E f \in Frame, unlock \in UnlockArgs, closing \in BOOLEAN :
       /\ closing => f = CloseFrame /\ unlock
       /\ push' = [push EXCEPT ![s] =
            [frame |-> f, at |-> Len(log) + 1, payloadOffset |-> 0,
             unlock |-> unlock, closing |-> closing]]
       /\ log' = Append(log, f)
  /\ result' = Append(result, "pending")
  /\ mutex' = s
  /\ Goto(s, "room")
  /\ UNCHANGED <<out, behind, wire, foreign, connection>>

\* CS_serverWriteOutputBuffer: the descriptor takes some of the data there
\* is; whoever has the descriptor by then gets it.
Written ==
  /\ descriptor = "reused" \/ (descriptor = "open" /\ peer = "reading")
  /\ out # <<>>
  /\ \E n \in 1..Len(out) :
       LET taken == SubSeq(out, 1, n) IN
       /\ out' = SubSeq(out, n + 1, Len(out))
       /\ behind' = IF n = Len(out) THEN 0 ELSE behind + n
       /\ IF descriptor = "open"
          THEN wire' = wire \o taken /\ UNCHANGED foreign
          ELSE foreign' = foreign \o taken /\ UNCHANGED wire

\* ... or the write fails: EPIPE, or EBADF on a closed descriptor.
WriteFails ==
  /\ descriptor = "closed" \/ (descriptor = "open" /\ peer = "gone")
  /\ out # <<>>
  /\ UNCHANGED <<out, behind, wire, foreign>>

-----------------------------------------------------------------------------
\* There must be room for the header first.
MakeRoom(s) ==
  /\ pc[s] = "room" /\ bufferRemaining < maxHeaderSize(push[s].frame)
  /\ Written
  /\ UNCHANGED <<mutex, log, result, pc, push, connection>>

After(s) == IF push[s].closing THEN "close" ELSE "idle"

\* Mutant: the error return keeps the mutex.
RoomFailsLocked(s) ==
  /\ pc[s] = "room" /\ bufferRemaining < maxHeaderSize(push[s].frame)
  /\ WriteFails
  /\ result' = [result EXCEPT ![push[s].at] = "failed"]
  /\ Goto(s, After(s))
  /\ UNCHANGED <<mutex, log, push, connection>>

\* ... or the frame is given back and the mutex released.
RoomFails(s) ==
  /\ pc[s] = "room" /\ bufferRemaining < maxHeaderSize(push[s].frame)
  /\ WriteFails
  /\ result' = [result EXCEPT ![push[s].at] = "failed"]
  /\ mutex' = NoSender
  /\ Goto(s, After(s))
  /\ UNCHANGED <<log, push, connection>>

\* Mutant: the header is stored whether or not there is room for it.
PutHeaderAnyway(s) ==
  /\ pc[s] = "room"
  /\ out' = out \o Header(push[s].frame)
  /\ Goto(s, "payload")
  /\ UNCHANGED <<mutex, behind, wire, foreign, log, result, push, connection>>

PutHeader(s) ==
  /\ pc[s] = "room" /\ bufferRemaining >= maxHeaderSize(push[s].frame)
  /\ out' = out \o Header(push[s].frame)
  /\ Goto(s, "payload")
  /\ UNCHANGED <<mutex, behind, wire, foreign, log, result, push, connection>>

Remaining(s) == push[s].frame.length - push[s].payloadOffset
Fits(s) == IF bufferRemaining < Remaining(s) THEN bufferRemaining ELSE Remaining(s)

\* Mutant: the whole payload counts as taken, whatever found room.
PutPayloadUncounted(s) ==
  /\ pc[s] = "payload" /\ Remaining(s) > 0
  /\ out' = out \o SubSeq(Payload(push[s].frame), push[s].payloadOffset + 1,
                          push[s].payloadOffset + Fits(s))
  /\ push' = [push EXCEPT ![s].payloadOffset = push[s].frame.length]
  /\ Goto(s, "write")
  /\ UNCHANGED <<mutex, behind, wire, foreign, log, result, connection>>

\* As much of the payload as the buffer has room for ...
PutPayload(s) ==
  /\ pc[s] = "payload" /\ Remaining(s) > 0
  /\ out' = out \o SubSeq(Payload(push[s].frame), push[s].payloadOffset + 1,
                          push[s].payloadOffset + Fits(s))
  /\ push' = [push EXCEPT ![s].payloadOffset = @ + Fits(s)]
  /\ Goto(s, "write")
  /\ UNCHANGED <<mutex, behind, wire, foreign, log, result, connection>>

\* ... then a write, until all of it is in the buffer.  (The loop's exit for
\* two zero answers needs a full buffer without data: there is none.)
WritePayload(s) ==
  /\ pc[s] = "write"
  /\ Written
  /\ Goto(s, "payload")
  /\ UNCHANGED <<mutex, log, result, push, connection>>

Finish(s, answer) ==
  /\ result' = [result EXCEPT ![push[s].at] = answer]
  /\ mutex' = IF push[s].unlock THEN NoSender ELSE mutex
  /\ Goto(s, After(s))
  /\ UNCHANGED <<log, push, connection>>

\* A failed write ends the loop: failed only if payload is left.
PayloadFails(s) ==
  /\ pc[s] = "write"
  /\ WriteFails
  /\ Finish(s, IF Remaining(s) > 0 THEN "failed" ELSE "pushed")

\* All of the payload is in the buffer; what the last write left there waits
\* for the next frame.
Pushed(s) ==
  /\ pc[s] = "payload" /\ Remaining(s) = 0
  /\ Finish(s, "pushed")
  /\ UNCHANGED <<out, behind, wire, foreign>>

-----------------------------------------------------------------------------
\* CS_WS_close after its push: close(clientSocket), which stays set, and may
\* by now be the descriptor of another connection.
CloseSocket(s) ==
  /\ pc[s] = "close"
  /\ descriptor' = "closed"
  /\ Goto(s, "idle")
  /\ UNCHANGED <<mutex, out, behind, peer, wire, foreign, log, result, push>>

\* The handler returns and the client thread ends: CS_serverKillClientSocket.
ClientEnds ==
  /\ \A s \in Senders : pc[s] = "idle"
  /\ descriptor # "ended"
  /\ descriptor' = "ended"
  /\ UNCHANGED <<mutex, out, behind, peer, wire, foreign, log, result, pc, push>>

\* The server accepts another client, one that reads what it gets, and the
\* kernel gives it the number.
Accept ==
  /\ descriptor = "closed"
  /\ descriptor' = "reused"
  /\ UNCHANGED <<mutex, out, behind, peer, wire, foreign, log, result, pc, push>>

PeerLeaves ==
  /\ peer = "reading"
  /\ peer' = "gone"
  /\ UNCHANGED <<mutex, out, behind, descriptor, wire, foreign, log, result, pc, push>>

Step(s) ==
  \/ MakeRoom(s) \/ RoomFails(s) \/ PutHeader(s) \/ PutPayload(s)
  \/ WritePayload(s) \/ PayloadFails(s) \/ Pushed(s) \/ CloseSocket(s)

Next ==
  \/ \E s \in Senders : Push(s) \/ Step(s)
  \/ ClientEnds \/ Accept \/ PeerLeaves

Spec == Init /\ [][Next]_vars

\* A thread inside a call goes on; the other end reads what is written to
\* it, or goes: a write into a socket that nobody reads would block.
FairSpec == Spec /\ \A s \in Senders : WF_vars(Step(s))

-----------------------------------------------------------------------------
Places == {"idle", "room", "payload", "write", "close"}

TypeOK ==
  /\ mutex \in Senders \cup {NoSender}
  /\ behind \in Nat /\ Len(out) + behind <= BufferSize
  /\ descriptor \in {"open", "closed", "reused", "ended"}
  /\ peer \in {"reading", "gone"}
  /\ log \in Seq(Frame)
  /\ result \in [1..Len(log) -> {"pending", "pushed", "failed"}]
  /\ pc \in [Senders -> Places]
  /\ push \in [Senders -> [frame : Frame, at : 0..Len(log), payloadOffset : Nat,
                           unlock : BOOLEAN, closing : BOOLEAN]]
  /\ \A s \in Senders : push[s].payloadOffset <= push[s].frame.length

\* What the other end has read is whole frames and the start of one, each
\* encoded as the diagram in websocket.c says, in the order of the pushes:
\* two threads, a full buffer or a short write never mix them.
WireIsFrames == IsPrefix(wire, Stream(Len(log)))

\* A push that answers success leaves no byte of its frame behind: all are
\* written or wait in the buffer, unless an earlier push had already failed.
PushedIsWhole ==
  \A k \in 1..Len(log) :
    (result[k] = "pushed" /\ \A j \in 1..k : result[j] # "failed")
      => IsPrefix(Stream(k), wire \o foreign \o out)

\* A push gives frameWriteMutex back, on every path out of it.
MutexComesBack == \A s \in Senders : (mutex = s) ~> (mutex # s)
=============================================================================
