# A verification of crankshaft

Crankshaft is a C library for web servers with an application on top: a
multi-threaded HTTP(S) server and client, web sockets, a key-value storage,
JWT checks, and the allocators, containers and buffers all of these are built
from. This directory holds TLA+ models of its components, the TLC
configurations that check them on small instances, and TLAPS proofs.

Paths below are relative to the repository's root; `*.c` without a directory
is in `src/`.

## 1. The system

    main.cpp --routes--> server.c <--upgrade-- websocket.c
                  |  one thread per client     |  any thread pushes frames
                  v                            v
              pushpull.c  <-- pipe.c, http.c (chunks) -->  sockets, TLS
    jwt / googleservices -> jwtkeychain -> cache -> storage -> hashtable | sql
    socket.c -> thread.c            all of them -> slaballoc.c, mutex.c, alloc.c

| component | state it keeps | operations | what must be right |
|---|---|---|---|
| slab allocator (`slaballoc.c`) | a chain of slabs, a free list in each, one mutex | take (zero, copy), return, reset; grows by a slab | no item with two owners, none lost, failures mean exhaustion, the mutex comes back |
| threads (`thread.c`) | records from a slab, `trackedThreads`, state and kill flag of each | start, stop, the driver of each thread | calls in the documented order, a stop is honoured, a record outlives its driver, tracking follows the threads |
| push-pull buffers (`pushpull.c`) | a block, the offset bytes come in at, the offset they go out at | read, write, move, remove, make room, put back | offsets in order, bytes in order, an empty buffer has room |
| storage (`storage.c`) | a table of items with key, cas and expiry; copies held by callers | get, put, update, remove, keys; hash table and SQLite backends | a live item makes place for its next version only, items have one owner, reads follow live items, a crash between statements loses nothing |
| hash table, list, stack (`hashtable.c`, `list.c`, `stack.c`) | entries from slabs, a mutex if asked for | get, put, put-maybe, remove, iterate | a refused put leaves the entry, nothing is read after it is freed |
| web sockets (`websocket.c`) | frame slab, write mutex, the connection's buffers | create, parse a frame, push a frame, close | whole frames in order, no lock kept, only the own descriptor |
| web server (`server.c`) | listening socket, routes, request and reply slabs, a client info per connection | start, accept, parse, route, reply, kill | every connection is closed once, every request and reply given back, nothing used after a kill |
| HTTP client, chunks, pipes (`http.c`, `pipe.c`) | a chain of stages with status flags and buffers | hook, process, close, free; chunk encode, decode, copy | decode inverts encode for any split, ends are recognised, no stage spins |
| sockets (`socket.c`) | accepted sockets, contexts, their threads | listen, accept, auto-accept | contexts and descriptors are given back |
| cache, keys, JWT (`cache.c`, `jwtkeychain.c`, `jwt.c`, `googleservices.c`) | cached replies, the table of public keys | get, fetch, verify | a key in use is not freed, the loser of a fetch race is served |
| log files (`logfile.c`, `logger.c`) | the open file, sizes, times | print, rotate, close, reopen | a line is lost only if the disk is full, rotation keeps the order |
| memory helpers (`alloc.c`, `linearalloc.c`, `tempbuff.c`) | counters, a ring of temporary bytes | allocate, free | recent temporary buffers do not overlap |
| mutexes (`mutex.c`) | a slab of pthread mutexes | take, lock, unlock, return | used as an atomic acquisition by the models |
| JSON, HTML, strings, UTF-8, base64, UUID, MIME, hash, random, command line, SQL, TLS, network, compression | local or none | conversions and wrappers | conversions invert each other at their boundaries |

They interact by calls and by shared memory: every client has a thread, all of
them share the slabs, the storage, the key table and the log file; a web
socket is shared by whatever threads push; a driver in `thread.c` shares its
record with its starter and with the list. What is hard is therefore
interleaving on shared records (a pointer used after its owner gave it back),
order (a thread that is done before its starter is), partial writes and reads,
and limits (a full buffer, an exhausted slab, a length that equals a marker).
`PROJECT.json` lists 40 such places with their lines, under "hazards".

## 2. The modules

Three abstract specifications say what a component promises: `SlabPool` a pool
of items, `ByteQueue` a set of bounded byte queues, `VersionedStore` a table of
versioned items that expire. `SlabAlloc`, `PushPull` and, each for its backend,
`HashStorage` and `SqliteStorage` implement them. `Threads`, `WebServer`,
`WebSocketPush`, `WebSocketRead`, `Pipes` and `HttpReply` model components that
use slabs, mutexes and buffers as those promise; `Buffers` (data, and the gap
before it) is the short form of a push-pull buffer that the readers and the
pipelines share, `WebSocketFrames` the bytes of a frame that both halves of a
web socket share. Each `MC...` module is the instance TLC checks; each
`...Proofs` module holds theorems.

### SlabAlloc (slaballoc.c), implementing SlabPool

State: `nSlabs` and `free[s]` are the chain and the `head` lists, `slabMutex`
its holder, `live` the items the program holds; `pc`, `cur`, `ptr`, `snap` are
the locals of the calls in progress. `CS_slabTake` is `TakeLock`, then
`TakeNextSlab`, `TakeGrow` or `TakeOOM` along the chain, then `TakeHead` and
`TakePop`, which are separate because `head = head->next` is a load and a
store, then `Unlock`. `CS_slabReturn` is `ReturnCall` with any pointer, the
search that does *not* lock (`ReturnScan`), `ReturnReject`, and the locked
`ReturnLink` and `ReturnPush`. `ResetAll` is `CS_slabReset`, which its callers
use when nobody else has the allocator.

The refinement maps the items out of the pool to those held by the program or
on their way in or out; `ImplementsPool` says that every step hands out or
takes back one item, grows the pool, or changes nothing an owner can see.

### Threads (thread.c)

State: one record per `Slot` (`used`, `state`, `kill`), where its driver is, how
often it is on `trackedThreads`, and where each caller is inside
`CS_threadStart`. `called` is history: the calls of the cycle function a driver
has made so far, with their answers, so that a second `START` or `STOP` shows;
`CallProtocol` is about it. A record that was given back is taken again by the
next start. `CS_threadStart` is `StartTake`, `StartCreate` (which may fail:
the code tests for a negative answer, which never comes), `StartDetach`,
`StartTrack`; `threadDriver` is the `Driver...` actions, one per call of the
cycle function or change of state; `CS_threadStop` is `Stop`.

### PushPull (pushpull.c), implementing ByteQueue

State: the block `mem`, the two offsets and `err` of each buffer. One action
per operation of the interface; files, sockets, TLS and `FILE`s give any
bytes, take any part of what is offered, or fail. `CS_PP_printf` puts the NUL
of `snprintf` into the data when the text fills the room, as the code does.
The refinement maps a buffer to the data between its offsets and to the bytes
before the write offset, which rewind and toothpaste can bring back.

### HashStorage (storage.c on hashtable.c), implementing VersionedStore

State: the table (an address per key), the heap of items with freed slots, the
clock, and for each thread the item it holds and where it is in its call. The
hash table's own mutex makes each lookup, put-maybe and remove one step; what
`storage.c` does before and after, on the pointer it got, is separate steps.
Following a pointer to nothing is `crashed`, after which nothing moves.
`missed` is history: whether a key has been missing during a get.

`items`, version and expiry of what the table points to, is the refinement
mapping. `VersionedStore` lets an item that has expired make place for a new
one; an item that is alive only for its next version.

### SqliteStorage (storage.c on SQLite), implementing VersionedStore

State: the rows, the clock, the statement that is stepped next (`pc`), the item
that is passed and another one of the program. One call at a time; each SQL
statement is a step, which works or fails, and between two of them time passes
and the program may crash and be started again (`Crash` keeps the rows).
`privateSqliteGet` is `Get`, `Select...` and `Expire`; `privateSqlitePut` is
`Put` or `Update`, `Insert` or `UpdateDone`, and after a refusal `PutFails`,
`Look...`, `LookExpire` and the second `Insert` or `ReinsertFails`. An update
that matches no row is `UpdateDone` without `Matches`: it is answered as stored,
so that `AcceptedIsStored`, the promise of `storage.h`, does not hold (the run
`sqlite_update`). `before` and `answer` are history.

### WebSocketPush (websocket.c, with the writes of server.c)

State: the holder of `frameWriteMutex`, the output buffer as a byte queue, what
the descriptor stands for, what the other end has read (`wire`), what another
connection got (`foreign`), and the pushes in progress. Bytes are tokens that
name what they carry, so that the order on the wire can be compared with
`Encoding`, the frame of the diagram in `websocket.c`. `CS_WS_pushFrame` is
`Push` (its lock), `MakeRoom` or `RoomFails`, `PutHeader`, then `PutPayload`
and `WritePayload` or `PayloadFails` in turn, then `Pushed`. `CS_WS_close` is a
push followed by `CloseSocket`. `ClientEnds` is the end of the client thread
with `CS_serverKillClientSocket`. `Accept` and `PeerLeaves` are the outside.

### WebSocketRead (websocket.c, and its handler in main.cpp)

State: the bytes on their way (`unread`), the receive buffer, where the thread
is in `CS_WS_nextIncomingFrame`, the frame and the payload so far, how many
frames are out of their slab, and what was `handed` to the handler and what it
answered. The peer sends a script of frames; every read gets any part of what
is on its way, and the peer may leave behind any byte, on a plain or a TLS
connection, which answer the end differently. The gap in the buffer at the
start is what the upgrade request has used of it. The header is `FillHeader`,
`NoHeader`, `Header` and `NoEmptyFrame`, then `ReadSize`, `ReadKey`, `Alloc`,
the loop `TakePayload` and `MorePayload`, and the ways out with `ErrorReading`;
the handler is `HandleAnswered`, `HandleOther` and `HandleFails`. A thread that
reads a length from bytes that have not come is `misread` and not followed.

### Pipes (pipe.c, and the chunk stages of http.c)

State: a plan (the stages and their sizes), the stage the pass is at, each
stage's buffer, the sets of stages with status EMPTY and ERROR, what is left to
read and what was written, and the chunk state of each chunk stage. `Process`
begins a pass at `privateFront`; every kind of stage is an action, the chunk
encoder and decoder one per state of their loops, and `After` is what
`CS_pipeProcess` does behind a stage. Base and length of the chunk sizes are
constants, so that small instances have sizes of several digits and sizes that
do not fit. A decoder's size is a number without bound; in the code it is an
`int32` that wraps from 8 hex digits on, which no encoder writes.

The code leaves some of the use to the program, and the properties name it: an
encoder takes an empty buffer for the end of the data (`EncoderUsable`: all
data is in front of it, and the text of its sizes leaves room for a NUL); a
decoder reads what an encoder wrote, and goes round for ever, or is EMPTY too
early, when its output is not drained in every pass (`DecoderUsable`); a last
stage without a buffer is never EMPTY, and one that keeps the output needs room
for all of it (`LastUsable`). What is given to such a pipeline has no frames of
its own, and a limit in it counts data and not the bytes of frames (`Usable`).
Plans that are not usable are in the instance too, and `OutputInOrder` is about
them as well.

### HttpReply (http.c)

The way a reply is taken in by `CS_httpMakeRequest`: one read that must hold
status line and headers, one more for a body that is longer than what has come,
and the loop of `privateContinueChunked` that cuts the frames of the chunks out
of the buffer, with `chunkedBytesOffset` counted from the end of the data, as
in the code. The model shows what the code does besides its finding: where
fewer than two bytes have come it compares bytes behind the data (`NoCRLF`), a
read of zero bytes from a plain connection that has ended is tried again, the
last CRLF stays in the buffer, a full buffer ends with a part of the reply, and
a `Content-Length` gets one read.

### WebServer (server.c)

State: where the program, the server thread and each client thread are; the
flags `killMe` and `threadRunning`; which descriptors are `open` and who holds
which; how many requests and replies are out of their slabs; and per connection
the input and output buffers, what the peer has still to say (`unread`) and
what it has `got`. Requests are records cut into pieces, replies a header and
pieces of a body.

The program is `Start`, and `CS_serverKill` in two steps, `KillStarts` (sets
the flag) and `KillFrees` (has seen `threadRunning` false). `serverThreadProc`
is `ServerRuns` and `ServerClearsKill`, its two first stores; `LoopEnds` or
`Polls`; then `PollTimesOut`, `PollFails`, `AcceptFails`, `Accept` or
`AcceptUnserved` (no memory for the client info: the descriptor stays open);
and at the end `CloseListen`, `freeRoutes`, `ServerEnds`. `clientThread` is
`Hello` (`SSL_accept`), `FillIncoming` or `FillEnds`, `Malformed` (which may
refuse headers that are complete, too) or `Parse`,
`FormFills`, `FormFails` or `RequestIn`; then the routes: `FilterRefuses`,
`RouteTakes`, `RouteHangsUp`, `NoRoute`; then `CS_serverDoReply` one write at a
time, `WriteReply` or `WriteFails`; and `KillClientSocket`, `ClientEnds`.
`PeerLeaves` is the outside. `hasty` and `acceptFailed` are history: the kill
came before the thread had cleared the flag, and an accept has failed, the two
cases in which `CS_serverKill` misjudges the thread. A thread that would use
the server, or its routes, after they were freed is not followed further.

The model leaves out a `CS_serverStart` that fails, the disconnect callback,
the tables of headers, cookies and query parameters, the file handler
(`CS_serverPushFile`), the answer of `CS_serverDoReply` to bad arguments (each
handler passes a reply it has just made, with a status of the enumeration), and the upgrade to a web socket, which
is in `WebSocketPush`.

## 3. The runs

| run | question | instance |
|---|---|---|
| `slab_threads` | ownership, loss, verdicts on returns, exhaustion, the mutex, the pool; order of calls, stops, tracking, reuse of records | 3 threads, 2 slabs of 2 items; 2 callers, 2 records, 2 list entries per record |
| `pushpull` | offsets, room, byte order, the queues | buffers of 3 and 2 bytes, 2 byte values, lengths to 4 |
| `hashstorage` | ownership, live items, the versioned store | 2 threads, 1 key, 5 addresses, versions to 3, clock to 2 |
| `sqlite` | unfinished calls, the versioned store, across failures and crashes | 2 keys, versions to 3, clock to 2 |
| `websocket` | framing, completeness of a success, the mutex | 2 threads, 3 pushes, 4 frames, a buffer of 14 bytes |
| `websocket_read` | frames as sent, frames given back, threads that end | 5 scripts of frames, a buffer of 6 bytes with a gap of 0 or 3 |
| `pipes` | order, completeness, decoding of what was encoded, an end | some 190 pipelines of 2 to 5 stages, buffers of 1 to 8 bytes |
| `webserver` | descriptors, slabs, replies, what a kill frees, threads that end | 1 connection at a time, 3 descriptors, 1 lost accept, buffers of 2 pieces, 5 scripts, plain and TLS |
| `hashstorage_get` | does NULL mean missing? | as `hashstorage`; violated |
| `sqlite_update` | is what is answered as stored in the rows? | as `sqlite`; violated |
| `webserver_form` | does the wait for a form end when the peer has gone? | as `webserver`; violated |
| `http_chunks` | does the offset point to the frame of the next chunk? | replies of up to two chunks and one of a given length, a buffer of 16 bytes, base 4; violated |

`slab_threads` has the two components side by side: neither touches the
variables of the other, and one rests at its start while the other moves, so
that its behaviours are those of the one and those of the other. Who is named as
the starter of a record before the first start is fixed: it makes no difference
then, as no caller has a record.

The violated ones state a sentence of the repository that the code does not
keep; "findings" in `PROJECT.json` quotes it with its line.

Other places where the code falls short are behaviours of the models, and where
a property would be about them it names them as its exception, so that it says
something about all the rest:

* `thread.c:115`: a thread that is done before its start tracks it leaves a
  stale entry on `trackedThreads`; the properties of `Threads` hold with it.
* `storage.c:669`: an update that is refused leaves the item of the caller
  with its version counted up (`PutFails`, `keep`).
* `websocket.c:354`: a frame of 126 bytes has a marker and no length; no frame
  of the `websocket` instance has that length.
* `websocket.c:400`: a socket that `CS_WS_close` closed may be another
  connection's by the next write (`foreign`).
* `websocket.c:236`: a length is read before it has come (`misread`);
  `websocket.c:196`: with one byte of a header the loop does not end when the
  buffer or a plain connection has (`Wedged`).
* `main.cpp:221`: an empty ping cannot be answered (`Answerable`).
* `server.c:232`, `server.c:244`: a kill before the thread has set itself up,
  and an accept that fails (`hasty`, `acceptFailed`).
* `http.c:1225`, `http.c:1348`: decoders and encoders that are not usable.

Why the bounds are enough. *slab_threads*: a second slab makes the chain grow while a
return searches it, two items per slab make lists that can be corrupted, a
third thread takes while two others are inside; `MaxSlabs` is where growth
fails; two records let one be reused while its old driver or its
starter is not done. *pushpull*: the second buffer fills while the first still
has data, lengths go past both sizes. *hashstorage*: two threads are a reader
and a writer or two writers of one key; keys share only the addresses; five
addresses are what two threads, the table and two copies can hold. *sqlite*:
two keys tell an item of another key from the right one, three versions give an
update of an update, two values of the clock let a row expire during a call.
*websocket*: the frames are of every class of length (none,
short, two length bytes, eight), one has a mask, and the buffer holds just the
longest header (its assumption), so each push meets a full buffer. The field
that announces lengths is scaled from 125 to 2 (`Short`), the longest length of
two bytes from 65535 to 4 (`Medium`); the markers are the next two values, as
126 and 127 are. *websocket_read*: the scripts have frames of every class,
masked or not, empty ones, and one behind the other in the same bytes; the
buffer is smaller than most frames, and with a gap its end comes in the middle
of a header. *pipes*: the plans are those of `test-pipe.c` and `test-chunk.c`
with buffers around the sizes of a chunk and its frame, limits before, at and
behind the end of the data, frames that break off at each of their parts, and
fragile stages; base 2 and five characters make sizes of several digits and one
that fills its field. *webserver*: connections share
only the numbers of descriptors, the counts of the slabs and the routes, which
do not change while the server runs. One connection at a time, one that ran out of memory and a
listening socket that is opened again are enough for a number to be closed and
given to somebody else; `WebServerProofs` shows every safety property of this
run for any number of connections at once. Of the scripts one has a request after
another in the same read, one a form that comes with the headers or after them,
one headers in two parts, one a uri without a route, and one a form longer than
the buffer; the body of a page does not fit the output buffer behind its header.
*http_chunks*: the third line with a size, behind two chunks, is where the
offset goes wrong; the buffer holds a reply of one chunk as a whole, those of
two chunks only in parts.

Threads, addresses and keys that are interchangeable are symmetric in
`hashstorage` and `sqlite`, which check no liveness.

Deadlock is checked where the system cannot stop. It is off in *slab_threads*
(the records and list entries of the instance are used up by starts that fail
and by stale entries), in *hashstorage* (a crash, and the bounds on versions and
addresses), in *sqlite*, *sqlite_update* and *hashstorage_get* for the same bounds, in
*websocket* (the client thread ends), in *websocket_read*, *pipes* and
*http_chunks* (the reader, the pipeline and the call end), and in *webserver*
(threads that outlive a freed server are not followed, and the program does not
start another one beside them).

### Fairness

*slab_threads*: weak fairness of the steps of a thread that is inside the critical
section: it runs and does not block there; and of what a
driver does itself: it runs, and each call of the cycle function returns. That
it makes a further `RUNNING` call is not assumed (`DriverCycle` has no
fairness); `StopHonoured` holds because the code looks at the kill flag before
every such call.
*websocket*: weak fairness of a thread inside a push. This includes its writes:
a peer that never reads and never leaves would block the thread in `write`
with the mutex held, which the code accepts (its sockets have no timeout).
*websocket_read*: weak fairness of the client thread, which includes that what
the peer has sent arrives; the peer need not send or leave.
*pipes*: weak fairness of the one loop that drives the pipeline: a read or
write that does not fail comes back.
*webserver*: weak fairness of the server thread, whose `poll` returns within
500 ms, of each client thread, and of the end of the wait in `CS_serverKill`. It
includes writes: a peer that stays reads what is sent to it.
No fairness is assumed of callers, the clock, or what peers send and when they leave.

## 4. The proofs

TLAPS proves, for all values of the constants that satisfy the named
assumptions (`SlabAssumption`, `PushPullAssumption`, `ThreadsAssumption`,
`StorageAssumption`, `SqliteAssumption`, `WebServerAssumption`,
`LengthAssumption`, `WebSocketAssumption`, `ReadAssumption`,
`PipesAssumption`):

* `SlabThreadsProofs`, of the allocator: `TypeCorrect`, `Exclusive` (`ExclusiveOwnership`),
  `OwnReturn` (`OwnReturnAccepted`), `FailsExhausted`
  (`FailsOnlyWhenExhausted`). `ExclusiveOwnership` is not inductive: a take
  stores back the list it has loaded, so one has to know that nobody changed
  the list in between. `IInv` adds that the holder of `slabMutex` is exactly
  the thread between lock and unlock (`MutexInv`), that free lists have no
  item twice and lie inside the chain (`FreeListInv`), that a loaded list is
  still the list of its slab (`LocalsInv`), and that carried items are on no
  free list (`OwnerInv`). Each action is one step of the proof, one conjunct
  below it.

  `NoItemLost` (`NothingLost`) and `RefinesPool` (`ImplementsPool`).
  `NothingLost` is inductive relative to `IInv` and proved
  one item at a time: `Accounted(p)` says where item `p` is, and each action
  moves it from one place to another. The refinement takes for the items that
  are out of the pool those the program holds or a thread carries; taking,
  returning and reset map to the pool's steps by `IInv` alone, growth needs
  `NothingLost`: the pool grows only when it has no item left.
* `PushPullProofs`: `TypeCorrect`, `Ordered` (`OffsetsOrdered`),
  `RoomWhenEmpty` (`EmptyHasRoom`). The invariant is their conjunction; order
  of the offsets needs that a drained buffer restarts, which is what gives an
  empty buffer its room.

  `RefinesQueue` (`ImplementsQueue`). A buffer's block is
  read as two sequences, the data ahead and the bytes behind the read offset.
  One lemma per operation says what it does to every byte of either; sequences
  with the same length and the same bytes are equal, and so each operation is
  a step of the queues.
* `SlabThreadsProofs`, of the threads, whose records come from a slab:
  `ThreadTypeCorrect` (`ThreadTypeOK`), `RecordOutlives` (`RecordOutlivesDriver`),
  `Tracked` (`TrackedWhileRunning`), `CallsInOrder` (`CallProtocol`). A record
  may be taken again while stale entries of its old thread are still on the
  list, so the invariant follows it through both of its users: `Handles` and
  `Creating` say that a caller inside `CS_threadStart` has a record of its own
  without a driver, `Driving` which calls of the cycle function a driver has made
  at each of its places. The lemmas on rows of calls say how one more call
  changes such a history.
* `HashStorageProofs`: `ItemsAlive` (`TableItemsAlive`), `OwnedOnce`
  (`OneOwner`), `ImplementsVersionedStore` (`ImplementsStore`). Ownership is
  split so that a step touches little: the owners point to different addresses
  (`Once`), to allocated ones (`Taken`), every allocated address has an owner
  (`NoLeak`), the items of the table are under their keys (`Keyed`), and a put
  under way has a copy of its own item (`Carries`). The refinement follows from
  these: what a thread frees or fills is not an item of the table, so that
  `items` changes only where put-maybe and remove change the table.
* `SqliteStorageProofs`: `NothingLost` (`NothingLostUnderWay`),
  `ImplementsVersionedStore` (`ImplementsStore`). The invariant is `NothingLostUnderWay` and `Carries`: the
  item of a put is of its key, one that is inserted has version 1, and a row
  that is about to be removed is not alive.
* `WebSocketPushProofs`: `TypeCorrect` (which bounds the payload taken by the
  length of its frame), `FramesOnWire` (`WireIsFrames`) and
  `WholeIfPushed` (`PushedIsWhole`). `Serial` says that a thread inside a push
  has the mutex and that its frame is the last of the log; `Frozen` that
  nothing reaches the peer after a push has failed; `InOrder` that, until one
  has, the bytes on the wire, with those of another connection and those in the
  buffer behind them (`AllBytes`), are the frames of the log, the last one as
  far as its push has come (`PutSoFar`). `WireIsFrames` alone is not inductive: the buffer
  could hold anything. Both theorems about bytes assume `NoMarkerLength`, that
  no frame has the length of the marker for two length bytes: `websocket.c:354`
  sends such a frame, of 126 bytes, without its length. The frames of the run
  satisfy it.
* `WebSocketReadProofs`: `FramesInOrder` (`FramesAsSent`) and `FramesGivenBack`
  (`FramesReturned`). The heart of `Inv` is `InOrder`: at every place of
  `CS_WS_nextIncomingFrame`, the payload so far, the bytes in the buffer and
  those on their way (`Ahead`) begin what that place still has to read
  (`Todo`), from the rest of a payload to the next header; `Placed` ties the
  frame that is being filled in to the one that was sent, `Handed` and
  `Answered` what has gone to the handler and back, `Returned` the slab.
* `WebServerProofs`: `OneOwnerEach` (`DescriptorsOwned`), `Balanced`
  (`SlabsBalanced`), `FreedLast` (`FreedAfterThread`), for any number of
  connections. `DescriptorsOwned` counts; what is inductive is that the owners
  of descriptors are disjoint and that a connection is without a socket when
  its thread begins and ends (`Disjoint`), from which the counts follow by a
  bijection. That the kernel's lowest free number exists needs the
  well-foundedness of the naturals (`LowestIsFree`). `Counts` moves with one
  connection at a time (`CountsMove`); `Running` says that the flag falls last.

  `TypeCorrect`, `RepliesWhole` (`RepliesInOrder`) and `ReadyWhenReading`
  (`ReadyToRead`), for any requests, bodies and sizes of the buffers. Their
  invariant, `Connected`, speaks of one connection at a time. `ReadsWell` says
  that the receive buffer and what is on its way begin with the first request
  without an answer, at every place of the client thread (with the one behind it
  while a handler is looked for), and where the buffer must have
  room: a request that has left the buffer has made it, and `makeRoom` moves
  it to the end. `WritesWell` says that what the peer has got, the output
  buffer and the part of the body that was not taken yet are together the
  replies so far. Each is a formula about values: one lemma says what each
  operation does to it, and the steps of the server only cite it.

* `PipesProofs`: `OutputOrdered` (`OutputInOrder`), for any plan, any sizes of
  buffers and chunks, any cuts and failures of reads and writes. The output
  alone says nothing of what is still on its way, so `OutputInOrder` is not
  inductive. `Placed` says where the data of the plan is: for each stage `i`
  there is a number `pos[i]` of the data that has gone out of its buffer, and
  the buffer holds the data between that and what has gone out of the nearest
  buffer before it; the output is the end of that chain. Every operation on
  buffers takes from one and puts into the next, and one lemma for each says
  how `pos` moves. `Counted` says that no more data is behind a limited stage
  than the bytes it has counted. What chunk stages add, keep or drop is no data
  (`SizeTextFraming`, `FramingCut`), whatever they take it for: the theorem is
  about malformed frames too.

  `OverCompletes` (`OverIsComplete`), for every plan that is `Usable`. For this
  the order of the data is not enough: a decoder must have found the frames an
  encoder made. The state does not keep the bytes that have gone through, so
  `Smooth`, the second invariant, says that there are such bytes: for every
  stage with a buffer a list of what has gone out of it (`Flow`), with which
  all that has come out of a stage, and all that has gone into it, are known.
  `Passes` relates the two for each kind of stage. A decoder is at the state
  that `Led`, a fold of one step for each byte, gives for what has gone in
  (`DecoderWorks`), and an encoder has put bytes that lead a decoder
  to where the encoder is in its own loop (`Puts`): what is still to come of a
  size has the digits that read as that size (`SizeText` and the lemmas on
  `Led`). A stage is EMPTY only when what has come out of it is complete
  (`Done`): all of the data, as much as a limit lets through, or all frames up
  to the final one. Two things about failures and room make this inductive:
  only the stages at the ends fail, and behind an encoder only the last
  (`Errs`), and a last stage has room for what a decoder leaves (`LastRoom`).
  The steps are proved for one kind of stage after the other; a loop of a chunk
  stage is one lemma for each of its states. `SmoothHolds` is the invariant.

Sequences of sequences. What these bytes are compared with is a fold over the
frames, requests or replies (`FlattenSeq`). The library's induction theorems
take an operator as a parameter, which none of the installed provers can
instantiate; the proofs use that a set of naturals that is not empty has a
least member (`LeastNumber`, from the well-foundedness of the naturals)
instead, to show that the function the fold is defined by exists, is unique
(`JoiningExists`, `JoiningUnique`), and gives a sequence (`FlattenType`) that one
more sequence, behind or in front, makes longer by it (`FlattenAppend`,
`FlattenHead`). The three modules that need them each have these lemmas, as
they cannot extend one another: the variables of their components have the
same names.

The inductive invariants were checked with TLC on the instances of the runs
before they were proved; `Smooth` with the lists of `Flow` as a history
variable, on pipelines with every kind of stage at every place.

Only model-checked:

* Liveness (`MutexReleased`, `StopHonoured`, `MutexComesBack`, `ReaderEnds`,
  `PipelineEnds`, `KillReturns`, `ThreadEnds`): fairness needs `ENABLED`, which
  is out of the prover's reach.
* The four properties that are violated.

Nothing here is RECURSIVE.

## 5. What is left out

Pure input and output (OpenSSL, zlib, SQLite itself, the resolver), formatting
and the command line are not modelled: they have no state of the program. The
kernel's descriptors and the peers appear only as what they may do. Data is
reduced to what properties tell apart: items of a slab have no contents, items
of the storage have key, version and expiry, bytes are tokens or one of two
values. Out of memory is modelled where a component promises something about
it (the slab, the puts of the storage, the frames of a web socket, the client
infos of the server); where it is not, allocations succeed.

Not modelled, though the program has it: log files and their rotation
(`logfile.c`, which nothing opens), the ring of temporary buffers (no promise to
check), `sockets` and its accept threads, which only its own test calls,
compression stages, prepared statements mixed by two threads of the SQLite
storage, and the conversions of JSON, HTML, JWT and text.

The vendored SQLite amalgamation (over 270000 lines) is most of the source tree
and no part of the models: it is the statements that work as a whole or fail.

## 6. The plan

Done: the allocator, the buffers, threads, both backends of the storage, the
server, its life and its connections, both halves of web sockets, and pipelines
with their chunk stages, with proofs; the replies of the client by model
checking. Next:

1. `KeyChain`: cache and table of keys used by client threads, over
   `VersionedStore`: a key in use is not freed, the loser of a race to fetch is
   served.
2. Prepared statements shared by two threads of the SQLite storage; the list of
   keys, and the entries of the hash table under iteration.
3. The rest of the server: the tables of headers, cookies and query parameters
   at their limits, `CS_serverPushFile`, starts that fail, and a run with two
   connections.
4. `Sockets`: accept threads and their contexts over `Threads`.
5. Codecs (base64, UTF-8, URL encoding) as functions against definitions.
