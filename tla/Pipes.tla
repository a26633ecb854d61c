-------------------------------- MODULE Pipes --------------------------------
(***************************************************************************)
(* Pipelines, src/pipe.c, with the stages for HTTP chunks of src/http.c.   *)
(* A pipeline is a sequence of stages, each with a buffer of its own       *)
(* (size > 0) or none, that a program drives from its last stage:          *)
(*     while( !CS_pipeDoneOrError( p ) ) CS_pipeProcess( p );              *)
(* One pass goes from the front, the first stage that is not through with  *)
(* its data, to the end; stage 1 has its data in its buffer or reads it,   *)
(* the last one keeps the output in its buffer or writes it.               *)
(*                                                                         *)
(* Bytes are <<kind, value>>: data, or a hex digit, CR, LF or NUL of the   *)
(* frame around a chunk.  Base is the base of the digits (16), and         *)
(* MaxChunkSizeLength the size of the text of a chunk size (8).            *)
(***************************************************************************)
EXTENDS Buffers

CONSTANTS Plans,        (* pipelines: [data, stages]                       *)
          Base, MaxChunkSizeLength

Reading == {"file_in", "socket_in", "ssl_in"}
Writing == {"file_out", "socket_out"}
Decoding == {"decode", "copy"}
Kind == Reading \cup Writing \cup Decoding \cup {"null", "limited", "encode"}

Byte == {"data", "hex", "cr", "lf", "nul"} \X Nat

\* A stage: its kind, the size of its buffer, whether it is FRAGILE, and the
\* limit of a limited one or the wanted chunk size of an encoder.
Shape == [kind : Kind, size : Nat, fragile : BOOLEAN, n : Nat]

\* A pipeline begins with the stage that has or reads the data, and only its
\* last stage writes.
ASSUME PipesAssumption ==
  /\ Base \in Nat \ {0, 1} /\ MaxChunkSizeLength \in Nat \ {0, 1, 2}
  /\ \A p \in Plans :
       /\ p \in [data : Seq(Byte), stages : Seq(Shape)]
       /\ p.stages # <<>> /\ p.stages[1].size > 0
       /\ \A i \in DOMAIN p.stages : LET s == p.stages[i] IN
            /\ s.kind \in Reading => i = 1
            /\ s.kind \in Writing => i = Len(p.stages)
            /\ s.kind \notin Reading \cup {"null"} => i > 1
            /\ s.kind \notin Writing \cup {"null"} => s.size > 0
       /\ p.stages[1].kind = "null" => p.stages[1].size = Len(p.data)

CR == <<"cr", 0>>
LF == <<"lf", 0>>
NUL == <<"nul", 0>>

VARIABLES
  plan,
  at,             (* the stage that is processed, 0 between two passes     *)
  buffer,         (* of each stage                                         *)
  empty, error,   (* stages with the status EMPTY, ERROR                   *)
  failing,        (* whether the last result of the pass is negative       *)
  source, sink,   (* what is still to be read, what has been written       *)
  transferred,    (* of each limited stage                                 *)
  chunk           (* of each chunk stage: its chunkState and counters      *)

vars == <<plan, at, buffer, empty, error, failing, source, sink, transferred, chunk>>

Stages == 1..Len(plan.stages)
End == Len(plan.stages)
kind(i) == plan.stages[i].kind
size(i) == plan.stages[i].size
HasBuffer(i) == size(i) > 0

\* CS_pipeNearestInBuffer: the stage before i that has a buffer, or 0.
NearestIn(i) == Max({0} \cup {j \in 1..(i - 1) : HasBuffer(j)})

\* CS_pipeEmpty of the stage before i.
InEmpty(i) == NearestIn(i) \in {0} \cup empty

\* state: what comes next; text: the characters still to be put; left: the
\* bytes of the chunk still to come; wanted: the size that was read so far.
NoChunk == [state |-> "size", text |-> <<>>, left |-> 0, wanted |-> 0]

Init ==
  /\ plan \in Plans
  /\ at = 0
  /\ LET preset == plan.stages[1].kind = "null" IN
       /\ buffer = [i \in Stages |->
                      IF i = 1 /\ preset THEN Holding(plan.data) ELSE Empty]
       /\ source = IF preset THEN <<>> ELSE plan.data
  /\ empty = {} /\ error = {} /\ failing = FALSE
  /\ sink = <<>>
  /\ transferred = [i \in Stages |-> 0]
  /\ chunk = [i \in Stages |->
                IF kind(i) \in Decoding THEN [NoChunk EXCEPT !.state = "hex"] ELSE NoChunk]

-----------------------------------------------------------------------------
(* CS_pipeDoneOrError, and CS_pipeProcess without what a stage does.        *)

\* An error counts unless a stage after it, before the last, is empty.
DoneOrError ==
  \/ End \in empty \cup error
  \/ \E i \in error : \A j \in (i + 1)..(End - 1) : j \notin empty

\* Walking back from the last stage ends at the first one with a status; the
\* pass begins behind it, or at it if it is FRAGILE and has an error.
privateFront ==
  LET last == Max({1} \cup empty \cup error)
      passed == last \in empty \/ (last \in error /\ ~plan.stages[last].fragile)
  IN IF passed THEN last + 1 ELSE last

\* A pass begins; with nothing in front of it the loop goes round.
Process ==
  /\ at = 0 /\ ~DoneOrError
  /\ at' = IF privateFront \in Stages THEN privateFront ELSE 0
  /\ failing' = FALSE
  /\ UNCHANGED <<plan, buffer, empty, error, source, sink, transferred, chunk>>

\* Mutant: a stage is empty when its buffer is.
AfterHasty(i, fails, declares) ==
  /\ error' = IF fails THEN error \cup {i} ELSE error
  /\ failing' = fails
  /\ IF fails /\ plan.stages[i].fragile
     THEN at' = 0 /\ UNCHANGED empty
     ELSE /\ at' = IF i = End THEN 0 ELSE i + 1
          /\ empty' = IF declares \/ (HasBuffer(i) /\ buffer'[i] = Empty)
                      THEN empty \cup {i} ELSE empty

\* Mutant: a last stage that keeps its data is not empty.
AfterFull(i, fails, declares) ==
  /\ error' = IF fails THEN error \cup {i} ELSE error
  /\ failing' = fails
  /\ IF fails /\ plan.stages[i].fragile
     THEN at' = 0 /\ UNCHANGED empty
     ELSE /\ at' = IF i = End THEN 0 ELSE i + 1
          /\ empty' = IF declares \/ (HasBuffer(i) /\ buffer'[i] = Empty /\ InEmpty(i))
                      THEN empty \cup {i} ELSE empty

\* What follows a stage: it fails or not, or has declared itself EMPTY.
After(i, fails, declares) ==
  /\ error' = IF fails THEN error \cup {i} ELSE error
  /\ failing' = fails
  /\ IF fails /\ plan.stages[i].fragile
     THEN at' = 0 /\ UNCHANGED empty
     ELSE /\ at' = IF i = End THEN 0 ELSE i + 1
          /\ empty' = IF \/ declares
                         \/ HasBuffer(i) /\ buffer'[i] = Empty /\ InEmpty(i)
                         \/ kind(i) = "null" /\ i = End /\ InEmpty(i)
                      THEN empty \cup {i} ELSE empty

Continues(i) == at' = i /\ UNCHANGED <<empty, error, failing>>

\* Stage i is to be processed, and is of one of these kinds.
Turn(i, kinds) == at = i /\ kind(i) \in kinds

\* CS_PP_moveBufferExplicit: how many bytes move from a buffer to stage i,
\* and the buffers then.
Moved(b, i, max) == Min({Len(b.data), room(buffer[i], size(i)), max})
Move(from, i, n) ==
  [buffer EXCEPT ![from] = Drop(@, n), ![i] = Put(@, SubSeq(buffer[from].data, 1, n))]

\* copyFromNearest: the buffers then.
Copied(i) ==
  LET from == NearestIn(i) IN
  IF HasBuffer(i) /\ from > 0
  THEN Move(from, i, Moved(buffer[from], i, Len(buffer[from].data)))
  ELSE buffer

-----------------------------------------------------------------------------
(* The stages of pipe.c                                                     *)

\* It has no result of its own: that of the stage before it stands.
NullStage(i) ==
  /\ Turn(i, {"null"})
  /\ buffer' = Copied(i)
  /\ After(i, failing, FALSE)
  /\ UNCHANGED <<plan, source, sink, transferred, chunk>>

\* CS_PP_readFromFILE gets all that fits; read and SSL_read any part of it.
InStage(i) ==
  /\ Turn(i, Reading)
  /\ LET most == Min({room(buffer[i], size(i)), Len(source)}) IN
     \E n \in (IF kind(i) = "file_in" THEN {most} ELSE 0..most) :
       /\ n = 0 => most = 0
       /\ buffer' = [buffer EXCEPT ![i] = Put(@, SubSeq(source, 1, n))]
       /\ source' = SubSeq(source, n + 1, Len(source))
       /\ After(i, n = 0 /\ kind(i) = "ssl_in" /\ room(buffer[i], size(i)) > 0, FALSE)
  /\ UNCHANGED <<plan, sink, transferred, chunk>>

InFails(i) ==
  /\ Turn(i, Reading)
  /\ room(buffer[i], size(i)) > 0
  /\ UNCHANGED <<plan, buffer, source, sink, transferred, chunk>>
  /\ After(i, TRUE, FALSE)

\* A file takes all of the buffer, its own or the nearest, a socket a part.
OutStage(i) ==
  /\ Turn(i, Writing)
  /\ LET b == IF HasBuffer(i) THEN i ELSE NearestIn(i)
         all == Len(Copied(i)[b].data) IN
     \E n \in (IF kind(i) = "file_out" \/ all = 0 THEN {all} ELSE 1..all) :
       /\ buffer' = [Copied(i) EXCEPT ![b] = Drop(@, n)]
       /\ sink' = sink \o SubSeq(Copied(i)[b].data, 1, n)
       /\ After(i, FALSE, FALSE)
  /\ UNCHANGED <<plan, source, transferred, chunk>>

OutFails(i) ==
  /\ Turn(i, Writing)
  /\ Copied(i)[IF HasBuffer(i) THEN i ELSE NearestIn(i)] # Empty
  /\ buffer' = Copied(i)
  /\ After(i, TRUE, FALSE)
  /\ UNCHANGED <<plan, source, sink, transferred, chunk>>

\* Mutant: the limit is compared before the bytes are counted.
LimitedStageLate(i) ==
  /\ Turn(i, {"limited"})
  /\ LET n == IF transferred[i] >= plan.stages[i].n THEN 0
              ELSE Moved(buffer[NearestIn(i)], i, plan.stages[i].n) IN
       /\ buffer' = Move(NearestIn(i), i, n)
       /\ transferred' = [transferred EXCEPT ![i] = @ + n]
       /\ After(i, FALSE, buffer'[i] = Empty /\ transferred'[i] >= plan.stages[i].n)
  /\ UNCHANGED <<plan, source, sink, chunk>>

LimitedStage(i) ==
  /\ Turn(i, {"limited"})
  /\ LET n == Moved(buffer[NearestIn(i)], i, plan.stages[i].n - transferred[i]) IN
       /\ buffer' = Move(NearestIn(i), i, n)
       /\ transferred' = [transferred EXCEPT ![i] = @ + n]
       /\ After(i, FALSE, buffer'[i] = Empty /\ transferred'[i] >= plan.stages[i].n)
  /\ UNCHANGED <<plan, source, sink, chunk>>

-----------------------------------------------------------------------------
(* _encode_chunk, one state of its loop per step                            *)

\* The digits of n, from what is left of it without its last k ones.
Digits(n) ==
  LET left[k \in 0..(n + 1)] == IF k = 0 THEN n ELSE left[k - 1] \div Base
      d == Min({k \in 1..(n + 1) : left[k] = 0})
  IN [j \in 1..d |-> <<"hex", left[d - j] % Base>>]

\* The text of a size: snprintf leaves out what does not fit with its NUL.
SizeText(n) ==
  LET whole == Digits(n) \o <<CR, LF>>
  IN IF Len(whole) = MaxChunkSizeLength THEN [whole EXCEPT ![Len(whole)] = NUL] ELSE whole

Encodes(i, state) == Turn(i, {"encode"}) /\ chunk[i].state = state

Encoding == <<plan, source, sink, transferred>>

EncodeSize(i) ==
  /\ Encodes(i, "size")
  /\ UNCHANGED <<Encoding, buffer>>
  /\ LET n == Min({Len(buffer[NearestIn(i)].data), plan.stages[i].n}) IN
     IF Len(SizeText(n)) > MaxChunkSizeLength
     THEN After(i, TRUE, FALSE) /\ UNCHANGED chunk
     ELSE /\ chunk' = [chunk EXCEPT ![i] = [state |-> "hex", text |-> SizeText(n),
                                            left |-> n, wanted |-> n]]
          /\ Continues(i)

\* The text goes out as far as there is room; the stage goes on in the state
\* then when it is out.
PutsText(i, then) ==
  LET n == Min({Len(chunk[i].text), room(buffer[i], size(i))})
      out == n = Len(chunk[i].text) IN
  /\ buffer' = [buffer EXCEPT ![i] = Put(@, SubSeq(chunk[i].text, 1, n))]
  /\ chunk' = [chunk EXCEPT ![i].text = SubSeq(@, n + 1, Len(@)),
                            ![i].state = IF out THEN then ELSE @]
  /\ IF out THEN Continues(i) ELSE After(i, FALSE, FALSE)

EncodeHex(i) ==
  /\ Encodes(i, "hex")
  /\ PutsText(i, IF chunk[i].wanted = 0 THEN "done" ELSE "data")
  /\ UNCHANGED Encoding

EncodeData(i) ==
  /\ Encodes(i, "data")
  /\ LET n == Moved(buffer[NearestIn(i)], i, chunk[i].left) IN
     IF InEmpty(i) THEN UNCHANGED <<buffer, chunk>> /\ After(i, TRUE, FALSE)
     ELSE /\ buffer' = Move(NearestIn(i), i, n)
          /\ IF n < chunk[i].left
             THEN /\ chunk' = [chunk EXCEPT ![i].left = @ - n]
                  /\ After(i, FALSE, FALSE)
             ELSE /\ chunk' = [chunk EXCEPT ![i].left = 0, ![i].text = <<CR, LF>>,
                                            ![i].state = "cr"]
                  /\ Continues(i)
  /\ UNCHANGED Encoding

EncodeCR(i) ==
  /\ Encodes(i, "cr")
  /\ PutsText(i, "size")
  /\ UNCHANGED Encoding

EncodeDone(i) ==
  /\ Encodes(i, "done")
  /\ UNCHANGED <<Encoding, buffer, chunk>>
  /\ After(i, FALSE, FALSE)

-----------------------------------------------------------------------------
(* _decode_chunk_copyall: CHUNK_DECODE drops the frame, CHUNK_COPY keeps it *)

Copies(i) == kind(i) = "copy"
LeftInDestination(i) == room(buffer[i], size(i))
Input(i) == buffer[NearestIn(i)].data

\* The loop goes on: there is input, and room for a copy.
Decodes(i, state) ==
  /\ Turn(i, Decoding) /\ Input(i) # <<>> /\ (Copies(i) => LeftInDestination(i) > 0)
  /\ chunk[i].state = state

DecodeReturns(i) ==
  /\ Turn(i, Decoding)
  /\ Input(i) = <<>> \/ (Copies(i) /\ LeftInDestination(i) = 0)
  /\ UNCHANGED <<Encoding, buffer, chunk>>
  /\ After(i, FALSE, FALSE)

DecodeFails(i) == UNCHANGED <<buffer, chunk>> /\ After(i, TRUE, FALSE)

\* The first n bytes of the input are part of the frame.
Frame(i, n) ==
  buffer' = IF Copies(i) THEN Move(NearestIn(i), i, n)
            ELSE [buffer EXCEPT ![NearestIn(i)] = Drop(@, n)]

\* The size is a number without bound; the code's int32 wraps from 8 digits
\* on, which is left out.
DecodeHex(i) ==
  /\ Decodes(i, "hex")
  /\ LET seen == IF Copies(i) THEN Min({Len(Input(i)), LeftInDestination(i)})
                 ELSE Len(Input(i))
         k == Min({seen} \cup {j \in 0..(seen - 1) : Input(i)[j + 1][1] # "hex"})
         number[j \in 0..k] == IF j = 0 THEN chunk[i].wanted
                               ELSE number[j - 1] * Base + Input(i)[j][2]
         wanted == number[k] IN
     IF k < seen /\ Input(i)[k + 1] # CR THEN DecodeFails(i)
     ELSE /\ Frame(i, Min({k + 1, seen}))
          /\ chunk' = [chunk EXCEPT ![i].wanted = wanted, ![i].left = wanted,
                                    ![i].state = IF k < seen THEN "lf" ELSE @]
          /\ Continues(i)
  /\ UNCHANGED Encoding

\* The end of the size: a size of 0 is the end of the data.
DecodeSizeEnd(i) ==
  /\ Decodes(i, "lf")
  /\ IF Head(Input(i)) # LF THEN DecodeFails(i)
     ELSE /\ Frame(i, 1)
          /\ chunk' = [chunk EXCEPT ![i].state = "data"]
          /\ IF chunk[i].wanted = 0 THEN After(i, FALSE, TRUE) ELSE Continues(i)
  /\ UNCHANGED Encoding

\* With a full buffer nothing moves, and the loop goes round.
DecodeData(i) ==
  /\ Decodes(i, "data") /\ chunk[i].left > 0
  /\ LET n == Moved(buffer[NearestIn(i)], i, chunk[i].left) IN
       /\ buffer' = Move(NearestIn(i), i, n)
       /\ chunk' = [chunk EXCEPT ![i].left = @ - n]
  /\ Continues(i)
  /\ UNCHANGED Encoding

DecodeDataEnd(i) ==
  /\ Decodes(i, "data") /\ chunk[i].left = 0
  /\ IF Head(Input(i)) # CR THEN DecodeFails(i)
     ELSE /\ Frame(i, 1)
          /\ chunk' = [chunk EXCEPT ![i].state = "next"]
          /\ Continues(i)
  /\ UNCHANGED Encoding

DecodeNext(i) ==
  /\ Decodes(i, "next")
  /\ IF Head(Input(i)) # LF THEN DecodeFails(i)
     ELSE /\ Frame(i, 1)
          /\ chunk' = [chunk EXCEPT ![i].state = "hex", ![i].wanted = 0]
          /\ Continues(i)
  /\ UNCHANGED Encoding

-----------------------------------------------------------------------------
Stage(i) ==
  \/ NullStage(i) \/ InStage(i) \/ OutStage(i) \/ LimitedStage(i)
  \/ EncodeSize(i) \/ EncodeHex(i) \/ EncodeData(i) \/ EncodeCR(i) \/ EncodeDone(i)
  \/ DecodeReturns(i) \/ DecodeHex(i) \/ DecodeSizeEnd(i) \/ DecodeData(i)
  \/ DecodeDataEnd(i) \/ DecodeNext(i)

Next == Process \/ \E i \in Stages : Stage(i) \/ InFails(i) \/ OutFails(i)

Spec == Init /\ [][Next]_vars

\* The loop runs, and a read or write that does not fail comes back.
FairSpec == Spec /\ WF_vars(Next)

-----------------------------------------------------------------------------
\* What has been written, or is in the last buffer.
Output == sink \o (IF kind(End) \in Writing THEN <<>> ELSE buffer[End].data)

\* The data among bytes.
IsData(b) == b[1] = "data"
DataOf(s) ==
  LET of[n \in 0..Len(s)] == IF n = 0 THEN <<>>
                             ELSE IF IsData(s[n]) THEN Append(of[n - 1], s[n])
                             ELSE of[n - 1]
  IN of[Len(s)]

\* The data of the plan, up to the limits on its way.
Limits == {plan.stages[i].n : i \in {j \in Stages : kind(j) = "limited"}}
Expected == LET all == DataOf(plan.data) IN SubSeq(all, 1, Min({Len(all)} \cup Limits))

TypeOK ==
  /\ plan \in Plans /\ at \in 0..End
  /\ \A i \in Stages : BufferOK(buffer[i], size(i))
  /\ empty \subseteq Stages /\ error \subseteq Stages
  /\ \A i \in Stages : chunk[i].left \in 0..chunk[i].wanted
  /\ \A i \in Stages : kind(i) = "limited" => transferred[i] \in 0..plan.stages[i].n

\* The state is well formed, and the output is the data in its order, whatever
\* the sizes of the buffers cut it into, with nothing lost, doubled or behind a
\* limit (copyFromNearest, _limited, the chunk stages).
OutputInOrder == TypeOK /\ IsPrefix(DataOf(Output), Expected)

\* The use the code leaves to the program.  What is given to a pipeline has no
\* frames of its own.  An encoder takes an empty buffer for the end of the
\* data, so all of it must be in front of it, and its sizes must leave room for
\* a NUL behind their text.  A decoder reads what an encoder wrote, frame by
\* frame: it does not come behind another one.  It declares itself EMPTY, or
\* goes round for ever, with a buffer that is not drained: what is behind it
\* must take all of that in one pass.  A limit counts the bytes of frames too.
\* A last stage without a buffer is never EMPTY, and one that keeps the output
\* must have room for all of the data; frames that are copied come off again.
EncoderUsable(i) ==
  /\ kind(1) = "null" /\ NearestIn(i) = 1
  /\ plan.stages[i].n > 0 /\ Len(SizeText(plan.stages[i].n)) < MaxChunkSizeLength
DecoderUsable(i) ==
  /\ \E j \in 1..(i - 1) : kind(j) = "encode"
  /\ \A j \in 1..(i - 1) : kind(j) # "decode"
  /\ i < End /\ size(i) >= size(NearestIn(i)) /\ size(i + 1) >= size(i)
  /\ kind(i + 1) # "socket_out"
LastUsable ==
  /\ HasBuffer(End)
  /\ kind(End) = "null" =>
       /\ size(End) >= Len(Expected)
       /\ (\E i \in Stages : kind(i) = "copy") => \E i \in Stages : kind(i) = "decode"
Usable ==
  /\ \A j \in DOMAIN plan.data : IsData(plan.data[j])
  /\ \A i \in Stages :
       /\ kind(i) = "encode" => EncoderUsable(i)
       /\ kind(i) \in Decoding => DecoderUsable(i)
       /\ kind(i) = "limited" => \A j \in 1..(i - 1) : kind(j) # "encode"
  /\ LastUsable

Over == at = 0 /\ DoneOrError

\* A pipeline that is over without an error has delivered all of its data,
\* and decoding gives what was encoded; its chunk stages and its limit do
\* not fail (the checks of test-pipe.c and test-chunk.c).
OverIsComplete ==
  Usable =>
    /\ \A i \in error : kind(i) \in Reading \cup Writing \cup {"null"}
    /\ Over /\ error = {} =>
         /\ DataOf(Output) = Expected
         /\ (\E i \in Stages : kind(i) = "decode") => Output = Expected

\* The loop that drives a pipeline comes to its end.
PipelineEnds == <>(Usable => Over)
=============================================================================
