----------------------------- MODULE MCHttpReply -----------------------------
EXTENDS HttpReply

Hex(n) == IF n < Base THEN <<<<"hex", n>>>> ELSE <<<<"hex", n \div Base>>, <<"hex", n % Base>>>>
Chunk(n) == Hex(n) \o CRLF \o [i \in 1..n |-> <<"data", i>>] \o CRLF

\* A peer that keeps to the protocol: chunks of the sizes given, and the last.
Chunked(sizes) ==
  [head |-> 1, chunked |-> TRUE, length |-> 0,
   body |-> FlattenSeq([i \in DOMAIN sizes |-> Chunk(sizes[i])]) \o Hex(0) \o CRLF \o CRLF]
Whole(n) == [head |-> 2, chunked |-> FALSE, length |-> n,
             body |-> [i \in 1..n |-> <<"data", i>>]]

MCReplies == {Chunked(<<>>), Chunked(<<3>>), Chunked(<<1, 2>>), Chunked(<<5, 3>>), Whole(4)}
=============================================================================
