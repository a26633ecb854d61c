------------------------------ MODULE WebServer ------------------------------
(***************************************************************************)
(* The web server, src/server.c: the thread that accepts connections, one  *)
(* thread per connection that reads requests, routes them and writes the   *)
(* replies, and the program that starts the server and kills it.           *)
(*                                                                         *)
(* A request is a record: its uri, how many pieces its request line and    *)
(* headers arrive in (head) and how many pieces of form follow (form).  A  *)
(* piece is <<request, number>>; the peer's stream is cut between pieces.  *)
(* A reply is a header and a body of some pieces, or none (NoBody).        *)
(*                                                                         *)
(* Slabs are pools (SlabPool), so that it is enough to count what is out.   *)
(* The kernel gives the lowest free descriptor.                            *)
(* A thread that is about to use the server when it has been freed, or its *)
(* routes, is not followed further.                                        *)
(***************************************************************************)
EXTENDS Buffers, FiniteSets

CONSTANTS Client,       (* connections the model has room for             *)
          Script,       (* Script[c]: what the peer of c may ask           *)
          Routes,       (* the table of one method: [type, uris]           *)
          Body,         (* Body[u]: pieces of the body that answers u      *)
          BufferSize,   (* CLIENT_RECEIVE_BUFFER, in pieces                *)
          OutputSize,   (* CLIENT_SEND_BUFFER, in pieces                   *)
          Descriptor,   (* numbers the kernel may give                     *)
          Tls,          (* values of wantSSL to consider                   *)
          MaxOrphans    (* bound on the accepts that run out of memory     *)

NoBody == -1
Closed == 0             (* clientSocket after CS_serverKillClientSocket    *)

ASSUME WebServerAssumption ==
  /\ BufferSize \in Nat \ {0} /\ OutputSize \in Nat \ {0}
  /\ Descriptor \subseteq Nat \ {Closed} /\ IsFiniteSet(Descriptor)
  /\ \A i \in DOMAIN Routes :
       Routes[i].type \in {"FILTER", "WILDCARD", "PREFIX", "EXACT"}
  /\ \A c \in Client : \A s \in Script[c] :
       Len(s) \in Nat /\ s = [i \in 1..Len(s) |-> s[i]]
  /\ \A c \in Client : \A s \in Script[c] : \A i \in DOMAIN s :
       s[i].uri \in DOMAIN Body /\ s[i].head \in Nat \ {0} /\ s[i].form \in Nat
  /\ \A u \in DOMAIN Body : Body[u] \in Nat \cup {NoBody}
  /\ Tls \subseteq BOOLEAN

VARIABLES
  program,        (* of the caller: "none", "up", "killing", "freed"       *)
  hasty,          (* the kill came before the server thread was set up     *)
  server,         (* where serverThreadProc is                             *)
  killMe, threadRunning, wantSSL,
  acceptFailed,   (* accept has failed since the start                     *)
  listenSocket,
  open,           (* open descriptors                                      *)
  orphans,        (* accepted, but out of memory for the client info       *)
  requestsOut, repliesOut,        (* items out of the two slabs            *)
  pc,             (* where the thread of a connection is                   *)
  clientSocket,
  peer,           (* "there", "closed" orderly, or "reset"                 *)
  asked, unread,  (* what the peer asks, and the pieces still to be read   *)
  buffer, output, (* of the client info: [gap, data]                       *)
  serving,        (* the request a handler is to serve                     *)
  taken, ends,    (* of a reply: body in the buffer; whether to close      *)
  replies,        (* bodies of the replies of this connection              *)
  got             (* what the peer has got                                 *)

life == <<program, hasty, server, killMe, threadRunning, wantSSL, acceptFailed,
          listenSocket>>
slabs == <<requestsOut, repliesOut>>
request == <<asked, unread, buffer, serving>>
reply == <<output, taken, ends, replies, got>>
flags == <<killMe, threadRunning, acceptFailed>>
Connections == <<orphans, slabs, pc, clientSocket, peer, request, reply>>
vars == <<life, open, orphans, slabs, pc, clientSocket, peer, request, reply>>

-----------------------------------------------------------------------------
Pieces(r) == [i \in 1..(r.head + r.form) |-> <<r, i>>]
Stream(s) == FlattenSeq([i \in DOMAIN s |-> Pieces(s[i])])

Answer(k, body) == [i \in 1..(1 + Max({body, 0})) |-> <<k, i - 1>>]
Answers(c)      == FlattenSeq([k \in DOMAIN replies[c] |-> Answer(k, replies[c][k])])

NoRequest == <<>>

Lowest == Min(Descriptor \ open)

Goto(c, there) == pc' = [pc EXCEPT ![c] = there]

Init ==
  /\ program = "none" /\ hasty = FALSE
  /\ server = "none" /\ killMe = FALSE /\ threadRunning = FALSE
  /\ wantSSL \in Tls /\ acceptFailed = FALSE /\ listenSocket = -1
  /\ open = {} /\ orphans = {}
  /\ requestsOut = 0 /\ repliesOut = 0
  /\ pc = [c \in Client |-> "free"]
  /\ clientSocket = [c \in Client |-> Closed]
  /\ peer = [c \in Client |-> "there"]
  /\ asked = [c \in Client |-> <<>>] /\ unread = [c \in Client |-> <<>>]
  /\ buffer = [c \in Client |-> Empty] /\ output = [c \in Client |-> Empty]
  /\ serving = [c \in Client |-> NoRequest]
  /\ taken = [c \in Client |-> 0] /\ ends = [c \in Client |-> FALSE]
  /\ replies = [c \in Client |-> <<>>] /\ got = [c \in Client |-> <<>>]

-----------------------------------------------------------------------------
(* The program: CS_serverStart that succeeds, and CS_serverKill.            *)

Start ==
  /\ program \in {"none", "freed"} /\ server \in {"none", "done"}
  /\ \A c \in Client : pc[c] = "free"
  /\ open # Descriptor
  /\ program' = "up" /\ hasty' = FALSE
  /\ server' = "created" /\ killMe' = FALSE /\ threadRunning' = FALSE
  /\ wantSSL' \in Tls /\ acceptFailed' = FALSE
  /\ listenSocket' = Lowest /\ open' = open \cup {Lowest}
  /\ requestsOut' = 0 /\ repliesOut' = 0
  /\ UNCHANGED <<orphans, pc, clientSocket, peer, request, reply>>

KillStarts ==
  /\ program = "up"
  /\ program' = "killing" /\ killMe' = TRUE
  /\ hasty' = (server \in {"created", "running"})
  /\ UNCHANGED <<server, threadRunning, wantSSL, acceptFailed, listenSocket, open,
                 Connections>>

KillFrees ==
  /\ program = "killing" /\ ~threadRunning
  /\ program' = "freed"
  /\ UNCHANGED <<hasty, server, flags, wantSSL, listenSocket, open, Connections>>

-----------------------------------------------------------------------------
(* serverThreadProc                                                         *)

\* A step of the server thread from one place to another.
ServerGoes(here, there) ==
  /\ program # "freed"
  /\ server = here /\ server' = there
  /\ UNCHANGED <<program, hasty, wantSSL>>

\* A step that only moves it.
ServerMoves(here, there) ==
  /\ ServerGoes(here, there)
  /\ UNCHANGED <<flags, listenSocket, open, Connections>>

ServerRuns ==
  /\ ServerGoes("created", "running")
  /\ threadRunning' = TRUE
  /\ UNCHANGED <<killMe, acceptFailed, listenSocket, open, Connections>>

ServerClearsKill ==
  /\ ServerGoes("running", "loop")
  /\ killMe' = FALSE
  /\ UNCHANGED <<threadRunning, acceptFailed, listenSocket, open, Connections>>

\* Mutant: only a failed accept ends the loop.
LoopEndsDeaf == ServerMoves("loop", "close") /\ ~threadRunning

LoopEnds == ServerMoves("loop", "close") /\ (~threadRunning \/ killMe)

\* The loop has looked at its flags and waits for a connection, 500 ms at
\* most.
Polls == ServerMoves("loop", "poll") /\ threadRunning /\ ~killMe
PollTimesOut == ServerMoves("poll", "loop")

\* A signal or an error ends the server without a kill.
PollFails == ServerMoves("poll", "close")

AcceptFails ==
  /\ ServerGoes("poll", "loop")
  /\ threadRunning' = FALSE /\ acceptFailed' = TRUE
  /\ UNCHANGED <<killMe, listenSocket, open, Connections>>

\* createClientInfoWithThread, and the peer that connects.
Accept(c) ==
  /\ ServerGoes("poll", "loop")
  /\ pc[c] = "free" /\ open # Descriptor
  /\ open' = open \cup {Lowest}
  /\ clientSocket' = [clientSocket EXCEPT ![c] = Lowest]
  /\ Goto(c, "hello")
  /\ \E s \in Script[c] : /\ asked' = [asked EXCEPT ![c] = s]
                          /\ unread' = [unread EXCEPT ![c] = Stream(s)]
  /\ UNCHANGED <<flags, listenSocket, orphans, slabs, peer, buffer, serving, reply>>

\* No memory for the client info or its buffers.
AcceptUnserved ==
  /\ ServerGoes("poll", "loop")
  /\ Cardinality(orphans) < MaxOrphans
  /\ open # Descriptor
  /\ open' = open \cup {Lowest} /\ orphans' = orphans \cup {Lowest}
  /\ UNCHANGED <<flags, listenSocket, slabs, pc, clientSocket, peer, request, reply>>

\* Mutant: the server counts as ended before its descriptor is closed.
CloseListenEnded ==
  /\ ServerGoes("close", "routes")
  /\ open' = open \ {listenSocket} /\ threadRunning' = FALSE
  /\ UNCHANGED <<killMe, acceptFailed, listenSocket, Connections>>

CloseListen ==
  /\ ServerGoes("close", "routes")
  /\ open' = open \ {listenSocket}
  /\ UNCHANGED <<flags, listenSocket, Connections>>

freeRoutes == ServerMoves("routes", "last")

ServerEnds ==
  /\ ServerGoes("last", "done")
  /\ listenSocket' = -1 /\ threadRunning' = FALSE
  /\ UNCHANGED <<killMe, acceptFailed, open, Connections>>

ServerStep ==
  \/ ServerRuns \/ ServerClearsKill \/ LoopEnds \/ Polls \/ PollTimesOut \/ PollFails
  \/ AcceptFails \/ (\E c \in Client : Accept(c)) \/ AcceptUnserved
  \/ CloseListen \/ freeRoutes \/ ServerEnds

-----------------------------------------------------------------------------
(* clientThread: reading requests                                           *)

\* Steps that use the server record, and those that use its routes.
UsesServer == program # "freed"
UsesRoutes == program # "freed" /\ server \notin {"last", "done"}

Reads == <<life, open, orphans, clientSocket, peer, asked, reply>>

NoMoreInput(c)  == unread[c] = <<>> /\ peer[c] # "there"

\* Mutant: the end of a TLS connection is reported like that of a plain one.
ReadFailsOnError(c) == NoMoreInput(c) /\ peer[c] = "reset"

\* CS_PP_readFromSSL answers -1 to the end of a connection as to an error,
\* CS_PP_readFromFile 0.
ReadFails(c) == NoMoreInput(c) /\ (wantSSL \/ peer[c] = "reset")

\* Mutant: the room that is left is not looked at.
FillUnbounded(c, n) ==
  /\ n <= Len(unread[c])
  /\ buffer' = [buffer EXCEPT ![c].data = @ \o SubSeq(unread[c], 1, n)]
  /\ unread' = [unread EXCEPT ![c] = SubSeq(@, n + 1, Len(@))]

\* CS_serverFillIncomingBuffer gets n pieces.
Fill(c, n) ==
  /\ n <= Min({room(buffer[c], BufferSize), Len(unread[c])})
  /\ buffer' = [buffer EXCEPT ![c].data = @ \o SubSeq(unread[c], 1, n)]
  /\ unread' = [unread EXCEPT ![c] = SubSeq(@, n + 1, Len(@))]

\* The thread starts; SSL_accept makes the connection or fails.
Hello(c) ==
  /\ pc[c] = "hello" /\ UsesServer
  /\ \/ Goto(c, "fill")
     \/ wantSSL /\ Goto(c, "bail")
  /\ UNCHANGED <<Reads, serving, slabs, unread, buffer>>

FillIncoming(c) ==
  /\ pc[c] = "fill"
  /\ \E n \in 1..BufferSize : Fill(c, n)
  /\ Goto(c, "parse")
  /\ UNCHANGED <<Reads, serving, slabs>>

\* 0 or -1 bytes: the buffer is full, or there is nothing more to read.
FillEnds(c) ==
  /\ pc[c] = "fill"
  /\ room(buffer[c], BufferSize) = 0 \/ NoMoreInput(c)
  /\ Goto(c, "bail")
  /\ UNCHANGED <<Reads, serving, slabs, unread, buffer>>

\* The request the data begins with, and whether its headers are complete.
First(c) == buffer[c].data[1][1]
HeadersIn(c) ==
  /\ buffer[c].data[1] = <<First(c), 1>>
  /\ Len(buffer[c].data) >= First(c).head
WholeRequestIn(c) == Len(buffer[c].data) >= First(c).head + First(c).form

\* parseRequest wants the request line and the headers in one piece, and what
\* is there may be no request line or no header all the same.
Malformed(c) ==
  /\ pc[c] = "parse" /\ UsesServer
  /\ Goto(c, "bail")
  /\ UNCHANGED <<Reads, serving, slabs, unread, buffer>>

\* privateGetRequest takes a record for a request with its headers.
Parse(c) ==
  /\ pc[c] = "parse" /\ UsesServer
  /\ HeadersIn(c)
  /\ requestsOut' = requestsOut + 1
  /\ Goto(c, "form")
  /\ UNCHANGED <<Reads, serving, repliesOut, unread, buffer>>

\* The loop that pulls in a form.  When a plain connection has ended it gets
\* 0 bytes, asks again, and nothing changes.
FormFills(c) ==
  /\ pc[c] = "form" /\ UsesServer
  /\ ~WholeRequestIn(c)
  /\ \E n \in 1..BufferSize : Fill(c, n)
  /\ UNCHANGED <<Reads, serving, slabs, pc>>

\* The form does not fit, the connection fails, or an entry of the form has
\* no value: malformed.
FormFails(c) ==
  /\ pc[c] = "form" /\ UsesServer
  /\ IF WholeRequestIn(c) THEN First(c).form > 0
     ELSE room(buffer[c], BufferSize) = 0 \/ ReadFails(c)
  /\ requestsOut' = requestsOut - 1
  /\ Goto(c, "bail")
  /\ UNCHANGED <<Reads, serving, repliesOut, unread, buffer>>

\* Mutant: the form is left in the buffer.
RequestInHeadersOnly(c) ==
  /\ pc[c] = "form" /\ UsesServer
  /\ WholeRequestIn(c)
  /\ serving' = [serving EXCEPT ![c] = First(c)]
  /\ buffer' = [buffer EXCEPT ![c] = Drop(@, First(c).head)]
  /\ Goto(c, "route")
  /\ UNCHANGED <<Reads, slabs, unread>>

\* The request is there: its bytes leave the buffer.
RequestIn(c) ==
  /\ pc[c] = "form" /\ UsesServer
  /\ WholeRequestIn(c)
  /\ serving' = [serving EXCEPT ![c] = First(c)]
  /\ buffer' = [buffer EXCEPT ![c] = Drop(@, First(c).head + First(c).form)]
  /\ Goto(c, "route")
  /\ UNCHANGED <<Reads, slabs, unread>>

-----------------------------------------------------------------------------
(* HTTP_STATE_MACHINE: the routes, and the handlers.                        *)

Takes(i, r) ==
  \/ Routes[i].type = "WILDCARD"
  \/ Routes[i].type \in {"PREFIX", "EXACT"} /\ r.uri \in Routes[i].uris

\* The first route that takes the request, or one past the last.
Taker(r) == Min({i \in DOMAIN Routes : Takes(i, r)} \cup {Len(Routes) + 1})

Refusers(r) == {i \in 1..(Taker(r) - 1) : Routes[i].type = "FILTER"}

Routing == <<life, open, orphans, peer, asked, unread, buffer>>

\* privateReturnRequest.
ReturnRequest(c) ==
  /\ requestsOut' = requestsOut - 1
  /\ serving' = [serving EXCEPT ![c] = NoRequest]

\* CS_serverCreateReply, and the header of CS_serverDoReply: the handler is
\* going to answer TRUE if close, else what CS_serverDoReply answers.  (Its way
\* out for bad arguments, that does not give the reply back, is not taken: each
\* handler passes a reply it has just made, with a status of the enumeration.)
Replies(c, body, close) ==
  /\ repliesOut' = repliesOut + 1
  /\ replies' = [replies EXCEPT ![c] = Append(@, body)]
  /\ output' = [output EXCEPT ![c].data = Append(@, <<Len(replies[c]) + 1, 0>>)]
  /\ taken' = [taken EXCEPT ![c] = 0]
  /\ ends' = [ends EXCEPT ![c] = close]
  /\ Goto(c, "write")
  /\ UNCHANGED <<requestsOut, serving, got, clientSocket>>

Closing(c) ==
  /\ open' = open \ {clientSocket[c]}
  /\ clientSocket' = [clientSocket EXCEPT ![c] = Closed]

\* The handler answers TRUE without a reply.
Quits(c) ==
  /\ ReturnRequest(c)
  /\ Goto(c, "bail")
  /\ UNCHANGED <<repliesOut, clientSocket, reply>>

\* Mutant: a filter that ends the request keeps its record.
FilterRefusesKept(c) ==
  /\ pc[c] = "route" /\ UsesRoutes
  /\ Refusers(serving[c]) # {}
  /\ \/ Replies(c, 1, TRUE)
     \/ Goto(c, "bail") /\ UNCHANGED <<slabs, clientSocket, serving, reply>>
  /\ UNCHANGED Routing

\* A filter ends the request, with or without a reply; one that does not
\* lets it through to the routes after it.
FilterRefuses(c) ==
  /\ pc[c] = "route" /\ UsesRoutes
  /\ Refusers(serving[c]) # {}
  /\ Replies(c, 1, TRUE) \/ Quits(c)
  /\ UNCHANGED Routing

RouteTakes(c) ==
  /\ pc[c] = "route" /\ UsesRoutes
  /\ Taker(serving[c]) \in DOMAIN Routes
  /\ (\E close \in BOOLEAN : Replies(c, Body[serving[c].uri], close)) \/ Quits(c)
  /\ UNCHANGED Routing

\* A handler hangs up with CS_serverKillClientSocket.
RouteHangsUp(c) ==
  /\ pc[c] = "route" /\ UsesRoutes
  /\ Taker(serving[c]) \in DOMAIN Routes
  /\ Closing(c)
  /\ ReturnRequest(c)
  /\ Goto(c, "bail")
  /\ UNCHANGED <<life, orphans, repliesOut, peer, asked, unread, buffer, reply>>

\* 404.
NoRoute(c) ==
  /\ pc[c] = "route" /\ UsesRoutes
  /\ Taker(serving[c]) \notin DOMAIN Routes
  /\ Replies(c, 1, TRUE)
  /\ UNCHANGED Routing

-----------------------------------------------------------------------------
(* CS_serverDoReply: the loops that write, and what follows the handler.    *)

BodyLength(c) == Max({Last(replies[c]), 0})

\* As much of the body as fits has been put behind the header.
Fitting(c) == Min({BodyLength(c) - taken[c], room(output[c], OutputSize)})
Filled(c)  == [output[c] EXCEPT !.data =
                 @ \o [i \in 1..Fitting(c) |-> <<Len(replies[c]), taken[c] + i>>]]

\* Reply and request go back to their slabs; the connection goes on, with
\* room made in its buffer, or ends.
ReplyDone(c, close) ==
  /\ repliesOut' = repliesOut - 1
  /\ taken' = [taken EXCEPT ![c] = 0] /\ ends' = [ends EXCEPT ![c] = FALSE]
  /\ ReturnRequest(c)
  /\ IF close THEN Goto(c, "bail") /\ UNCHANGED buffer
     ELSE Goto(c, "fill") /\ buffer' = [buffer EXCEPT ![c] = makeRoom(@)]

\* There is more to write: all that changes is what is in the buffer.
ReplyGoesOn(c, n) ==
  /\ taken' = [taken EXCEPT ![c] = n]
  /\ UNCHANGED <<pc, slabs, buffer, serving, ends>>

Writes == <<life, open, orphans, clientSocket, peer, asked, unread, replies>>

\* Mutant: the body is put in from its start again.
WriteReplyAgain(c) ==
  /\ pc[c] = "write" /\ UsesServer
  /\ \E n \in 1..Len(Filled(c).data) :
       /\ got' = [got EXCEPT ![c] = @ \o SubSeq(Filled(c).data, 1, n)]
       /\ output' = [output EXCEPT ![c] = Drop(Filled(c), n)]
       /\ IF Fitting(c) = BodyLength(c) /\ output'[c] = Empty
          THEN ReplyDone(c, ends[c])
          ELSE ReplyGoesOn(c, Fitting(c))
  /\ UNCHANGED Writes

WriteReply(c) ==
  /\ pc[c] = "write" /\ UsesServer
  /\ \E n \in 1..Len(Filled(c).data) :
       /\ got' = [got EXCEPT ![c] = @ \o SubSeq(Filled(c).data, 1, n)]
       /\ output' = [output EXCEPT ![c] = Drop(Filled(c), n)]
       /\ IF taken[c] + Fitting(c) = BodyLength(c) /\ output'[c] = Empty
          THEN ReplyDone(c, ends[c])
          ELSE ReplyGoesOn(c, taken[c] + Fitting(c))
  /\ UNCHANGED Writes

\* CS_serverDoReply answers TRUE after a failed write.
WriteFails(c) ==
  /\ pc[c] = "write" /\ UsesServer
  /\ peer[c] # "there"
  /\ output' = [output EXCEPT ![c] = Filled(c)]
  /\ ReplyDone(c, TRUE)
  /\ UNCHANGED <<Writes, got>>

-----------------------------------------------------------------------------
(* The end of clientThread                                                  *)

\* Mutant: the number of the closed descriptor stays in the client info.
KillClientSocketKept(c) ==
  /\ pc[c] = "bail"
  /\ open' = open \ {clientSocket[c]}
  /\ Goto(c, "end")
  /\ UNCHANGED <<life, orphans, slabs, clientSocket, peer, request, reply>>

KillClientSocket(c) ==
  /\ pc[c] = "bail"
  /\ Closing(c)
  /\ Goto(c, "end")
  /\ UNCHANGED <<life, orphans, slabs, peer, request, reply>>

\* The disconnect callback, and the client info and its buffers are freed.
ClientEnds(c) ==
  /\ pc[c] = "end"
  /\ Goto(c, "free")
  /\ peer' = [peer EXCEPT ![c] = "there"]
  /\ asked' = [asked EXCEPT ![c] = <<>>] /\ unread' = [unread EXCEPT ![c] = <<>>]
  /\ buffer' = [buffer EXCEPT ![c] = Empty] /\ output' = [output EXCEPT ![c] = Empty]
  /\ replies' = [replies EXCEPT ![c] = <<>>] /\ got' = [got EXCEPT ![c] = <<>>]
  /\ UNCHANGED <<life, open, orphans, slabs, clientSocket, serving, taken, ends>>

\* The peer ends its stream after some of it, or resets the connection.
PeerLeaves(c) ==
  /\ pc[c] # "free" /\ peer[c] = "there"
  /\ \/ /\ peer' = [peer EXCEPT ![c] = "closed"]
        /\ \E n \in 0..Len(unread[c]) : unread' = [unread EXCEPT ![c] = SubSeq(@, 1, n)]
     \/ /\ peer' = [peer EXCEPT ![c] = "reset"]
        /\ unread' = [unread EXCEPT ![c] = <<>>]
  /\ UNCHANGED <<life, open, orphans, slabs, pc, clientSocket, asked, buffer, serving,
                 reply>>

ClientStep(c) ==
  \/ Hello(c) \/ FillIncoming(c) \/ FillEnds(c)
  \/ Malformed(c) \/ Parse(c) \/ FormFills(c) \/ FormFails(c) \/ RequestIn(c)
  \/ FilterRefuses(c) \/ RouteTakes(c) \/ RouteHangsUp(c) \/ NoRoute(c)
  \/ WriteReply(c) \/ WriteFails(c) \/ KillClientSocket(c) \/ ClientEnds(c)

Next ==
  \/ Start \/ KillStarts \/ KillFrees \/ ServerStep
  \/ \E c \in Client : ClientStep(c) \/ PeerLeaves(c)

Spec == Init /\ [][Next]_vars

\* Every thread runs, poll comes back after 500 ms, and a peer that stays
\* reads what is written to it.
FairSpec ==
  /\ Spec
  /\ WF_vars(KillFrees) /\ WF_vars(ServerStep)
  /\ \A c \in Client : WF_vars(ClientStep(c))

-----------------------------------------------------------------------------
TypeOK ==
  /\ program \in {"none", "up", "killing", "freed"}
  /\ server \in {"none", "created", "running", "loop", "poll", "close", "routes",
                 "last", "done"}
  /\ {hasty, killMe, threadRunning, wantSSL, acceptFailed} \subseteq BOOLEAN
  /\ listenSocket \in Descriptor \cup {-1}
  /\ open \subseteq Descriptor /\ orphans \subseteq open
  /\ \A c \in Client :
       /\ pc[c] \in {"free", "hello", "fill", "parse", "form", "route", "write",
                     "bail", "end"}
       /\ clientSocket[c] \in Descriptor \cup {Closed}
       /\ peer[c] \in {"there", "closed", "reset"}
       /\ BufferOK(buffer[c], BufferSize) /\ BufferOK(output[c], OutputSize)
       /\ pc[c] = "write" => taken[c] \in 0..BodyLength(c)

Listening == server \in {"created", "running", "loop", "poll", "close"}

\* Every open descriptor belongs to the listening server, to one connection
\* that has not been closed yet, or to an accept that ran out of memory, and
\* to no two of them: a number is closed once, before the kernel gives it to
\* somebody else (CS_serverKillClientSocket, called by a handler and again
\* by clientThread).
DescriptorsOwned ==
  LET Sockets == {c \in Client : clientSocket[c] # Closed}
      listens == IF Listening THEN {listenSocket} ELSE {}
  IN /\ open = listens \cup {clientSocket[c] : c \in Sockets} \cup orphans
     /\ Cardinality(open)
          = Cardinality(listens) + Cardinality(Sockets) + Cardinality(orphans)

\* Requests and replies are back in their slabs whenever no thread is
\* between taking and returning one, on every path out of a handler.
SlabsBalanced ==
  /\ requestsOut = Cardinality({c \in Client : pc[c] \in {"form", "route", "write"}})
  /\ repliesOut = Cardinality({c \in Client : pc[c] = "write"})

\* The peer gets the replies whole and in order, whatever parts the writes
\* and the output buffer cut them into; before the thread reads on, all of
\* them are out (CS_serverDoReply).
RepliesInOrder ==
  \A c \in Client : pc[c] # "free" =>
    /\ IsPrefix(got[c], Answers(c))
    /\ pc[c] = "fill" => got[c] = Answers(c)

\* Whenever the thread reads, there is room to read into, and what it has
\* and will get begins with the first request it has not answered.
ReadyToRead ==
  \A c \in Client : pc[c] = "fill" =>
    /\ room(buffer[c], BufferSize) > 0
    /\ LET n == Len(replies[c])
       IN IsPrefix(buffer[c].data \o unread[c],
                   Stream(SubSeq(asked[c], n + 1, Len(asked[c]))))

\* CS_serverKill frees the server only when its thread is through with it;
\* the exceptions are a thread that has not set itself up yet and an accept
\* that failed.
FreedAfterThread ==
  program = "freed" /\ ~hasty /\ ~acceptFailed => server = "done"

\* A kill of a server that has set itself up comes back.
KillReturns == (program = "killing" /\ ~hasty) ~> (program = "freed")

Serves == Listening /\ program # "freed"

\* When the peer has gone, the thread of its connection ends, as long as the
\* server is there; that of a plain connection when the connection fails.
ThreadEnds ==
  \A c \in Client :
    (pc[c] # "free" /\ peer[c] # "there" /\ (wantSSL \/ peer[c] = "reset"))
      ~> (pc[c] = "free" \/ ~Serves)

\* The same of every connection: "keep pulling stuff in until we can't
\* anymore" ends when there is nothing more to pull (parseRequest).
FormWaitEnds ==
  \A c \in Client :
    (pc[c] = "form" /\ peer[c] # "there") ~> (pc[c] # "form" \/ ~Serves)
=============================================================================
