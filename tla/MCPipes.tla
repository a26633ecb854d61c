------------------------------- MODULE MCPipes -------------------------------
EXTENDS Pipes

Bytes(n) == [j \in 1..n |-> <<"data", j>>]
S(k, s, n) == [kind |-> k, size |-> s, fragile |-> FALSE, n |-> n]
Fragile(s) == [s EXCEPT !.fragile = TRUE]

\* The pipeline of test-chunk.c, and those of test-pipe.c, with buffers of
\* every small size; and some that are not usable, or get no whole chunks.
Chunked(n, s, wanted) ==
  [data |-> Bytes(n),
   stages |-> <<S("null", n, 0), S("encode", s, wanted), S("copy", s, 0),
                S("decode", s, 0), S("null", n, 0)>>]
Files(in, out, limit) ==
  [data |-> Bytes(4),
   stages |-> <<in, S("limited", 2, limit), out>>]
In == {S("file_in", 2, 0), S("socket_in", 2, 0), S("ssl_in", 3, 0), Fragile(S("file_in", 1, 0))}
Out == {S("file_out", 1, 0), S("socket_out", 2, 0), Fragile(S("file_out", 3, 0))}

\* Frames that break off or go wrong at each of their parts.
D(n) == <<"data", n>>
One == <<"hex", 1>>
Malformed == {<<D(1)>>, <<One, D(1)>>, <<One, CR, D(1)>>, <<One, CR, LF, D(1), D(2)>>,
              <<One, CR, LF, D(1), CR, One>>, <<One, CR, LF, D(1), CR, LF, One, CR>>}

MCPlans ==
  {Chunked(n, s, w) : n \in 1..5, s \in 1..6, w \in 1..4} \cup {Chunked(8, 8, 8)}
    \cup {[data |-> d, stages |-> <<S("file_in", 2, 0), S(k, s, 0), S("null", 4, 0)>>]
             : d \in Malformed, k \in {"decode", "copy"}, s \in {2, 4}}
    \cup {Files(in, out, limit) : in \in In, out \in Out, limit \in {3, 4, 5}}
    \cup {[data |-> Bytes(3), stages |-> <<in, S("null", 0, 0), S("null", 3, 0)>>] : in \in In}
    \cup {[data |-> Bytes(3),
           stages |-> <<S("file_in", 2, 0), S("encode", 4, 2), S("decode", 4, 0), out>>]
             : out \in Out}
    \cup {[data |-> Bytes(3), stages |-> <<S("file_in", 2, 0), S("file_out", 0, 0)>>]}
=============================================================================
