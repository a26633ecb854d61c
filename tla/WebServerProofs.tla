--------------------------- MODULE WebServerProofs ---------------------------
(***************************************************************************)
(* What WebServer promises of descriptors, of the two slabs, of a kill,    *)
(* and of what each connection reads and writes, for any number of         *)
(* connections, any requests, bodies and sizes of the buffers.             *)
(* The first invariant, Inv, has types, where the server is, ownership     *)
(* (Disjoint) and the two counts (Counts).  The second, Connected, says of *)
(* every place of a client thread how what it has and will get goes on     *)
(* (ReadsWell), and what is missing from the replies (WritesWell).         *)
(***************************************************************************)
EXTENDS WebServer, SequenceTheorems, FiniteSetTheorems, FunctionTheorems,
        WellFoundedInduction, TLAPS

-----------------------------------------------------------------------------
(* Sequences                                                                *)

\* A set of numbers with a member has a least one.
LEMMA LeastNumber ==
  ASSUME NEW T, T \subseteq Nat, T # {}
  PROVE  \E x \in T : \A y \in T : x <= y
<1>1. PICK x \in T : \A y \in T : ~(<<y, x>> \in OpToRel(<, Nat))
  BY WFMin, NatLessThanWellFounded
<1>2. ASSUME NEW y \in T PROVE x <= y
  <2>1. x \in Nat /\ y \in Nat
    OBVIOUS
  <2>2. y < x => <<y, x>> \in OpToRel(<, Nat)
    BY <2>1 DEF OpToRel
  <2>3. ~(y < x)
    BY <1>1, <2>2, Zenon
  <2> QED BY <2>1, <2>3
<1> QED BY <1>2

\* f joins the first n of the sequences ss, one after the other.
Joining(ss, n, f) ==
  f = [i \in 1..n |-> IF i = 1 THEN ss[1] ELSE f[i - 1] \o ss[i]]

\* Two sequences, or functions, are the same up to n.
SameUpTo(n, ss, tt) == \A i \in 1..n : ss[i] = tt[i]

\* There is such a function, ...
LEMMA JoiningExists ==
  ASSUME NEW ss, NEW n \in Nat
  PROVE  \E f : Joining(ss, n, f)
<1> DEFINE T == {m \in Nat : ~\E f : Joining(ss, m, f)}
<1>1. SUFFICES ASSUME T # {} PROVE FALSE
  OBVIOUS
<1>2. PICK m \in T : \A y \in T : m <= y
  <2> HIDE DEF T
  <2>1. T \subseteq Nat
    BY DEF T
  <2> QED BY <1>1, <2>1, LeastNumber
<1>3. m \in Nat /\ ~\E f : Joining(ss, m, f)
  OBVIOUS
<1>4. m # 0
  <2>1. Joining(ss, 0, [i \in 1..0 |-> <<>>])
    BY DEF Joining
  <2> QED BY <1>3, <2>1
<1>5. PICK g : Joining(ss, m - 1, g)
  <2>1. m - 1 \in Nat /\ m - 1 \notin T
    BY <1>2, <1>3, <1>4
  <2> QED BY <2>1
<1>6. g = [i \in 1..(m - 1) |-> IF i = 1 THEN ss[1] ELSE g[i - 1] \o ss[i]]
  BY <1>5 DEF Joining
<1> DEFINE f == [i \in 1..m |-> IF i < m THEN g[i]
                                ELSE IF m = 1 THEN ss[1] ELSE g[m - 1] \o ss[m]]
<1>7. \A i \in 1..m : f[i] = IF i = 1 THEN ss[1] ELSE f[i - 1] \o ss[i]
  <2> TAKE i \in 1..m
  <2>1. CASE i < m
    <3>1. i \in 1..(m - 1)
      BY <1>3, <2>1
    <3>2. f[i] = g[i] /\ (i # 1 => f[i - 1] = g[i - 1])
      BY <1>3, <2>1
    <3>3. g[i] = IF i = 1 THEN ss[1] ELSE g[i - 1] \o ss[i]
      BY <1>6, <3>1
    <3> QED BY <3>2, <3>3
  <2>2. CASE i = m
    <3>1. f[i] = IF m = 1 THEN ss[1] ELSE g[m - 1] \o ss[m]
      BY <1>3, <2>2
    <3>2. m # 1 => f[i - 1] = g[m - 1]
      BY <1>3, <1>4, <2>2
    <3> QED BY <2>2, <3>1, <3>2
  <2> QED BY <1>3, <2>1, <2>2
<1>8. Joining(ss, m, f)
  BY <1>7 DEF Joining
<1> QED BY <1>3, <1>8

\* ... and only one, that knows nothing of the sequences behind.
LEMMA JoiningUnique ==
  ASSUME NEW ss, NEW tt, NEW n \in Nat, NEW m \in Nat, n <= m,
         SameUpTo(n, ss, tt), NEW f, Joining(ss, n, f), NEW g, Joining(tt, m, g)
  PROVE  SameUpTo(n, f, g)
<1> USE DEF SameUpTo
<1> DEFINE T == {i \in 1..n : f[i] # g[i]}
<1>1. SUFFICES ASSUME T # {} PROVE FALSE
  OBVIOUS
<1>2. PICK x \in T : \A y \in T : x <= y
  <2> HIDE DEF T
  <2>1. T \subseteq Nat
    BY DEF T
  <2> QED BY <1>1, <2>1, LeastNumber
<1>3. x \in 1..n /\ x \in 1..m /\ f[x] # g[x]
  OBVIOUS
<1>4. /\ f[x] = IF x = 1 THEN ss[1] ELSE f[x - 1] \o ss[x]
      /\ g[x] = IF x = 1 THEN tt[1] ELSE g[x - 1] \o tt[x]
  <2> HIDE DEF T
  <2>1. f = [i \in 1..n |-> IF i = 1 THEN ss[1] ELSE f[i - 1] \o ss[i]]
    BY DEF Joining
  <2>2. g = [i \in 1..m |-> IF i = 1 THEN tt[1] ELSE g[i - 1] \o tt[i]]
    BY DEF Joining
  <2> QED BY <1>3, <2>1, <2>2
<1>5. x # 1 => f[x - 1] = g[x - 1]
  <2>1. ASSUME x # 1 PROVE x - 1 \in 1..n /\ ~(x <= x - 1)
    BY <1>3, <2>1
  <2> QED BY <1>2, <2>1
<1>6. ss[x] = tt[x] /\ (x = 1 => ss[1] = tt[1])
  BY <1>3
<1> QED BY <1>3, <1>4, <1>5, <1>6

\* FlattenSeq is its last value.
LEMMA FlattenIsJoining ==
  ASSUME NEW ss, NEW n \in Nat \ {0}, Len(ss) = n
  PROVE  \E f : Joining(ss, n, f) /\ FlattenSeq(ss) = f[n]
<1> DEFINE F == CHOOSE f : f = [i \in 1..Len(ss) |-> IF i = 1 THEN ss[i] ELSE f[i - 1] \o ss[i]]
<1>1. FlattenSeq(ss) = F[n]
  BY DEF FlattenSeq
<1>2. Joining(ss, n, F)
  <2>1. PICK f : Joining(ss, n, f)
    BY JoiningExists
  <2>2. f = [i \in 1..n |-> IF i = 1 THEN ss[i] ELSE f[i - 1] \o ss[i]]
    <3>1. \A i \in 1..n : (IF i = 1 THEN ss[1] ELSE f[i - 1] \o ss[i])
                             = (IF i = 1 THEN ss[i] ELSE f[i - 1] \o ss[i])
      OBVIOUS
    <3> QED BY <2>1, <3>1 DEF Joining
  <2>3. F = [i \in 1..n |-> IF i = 1 THEN ss[i] ELSE F[i - 1] \o ss[i]]
    BY <2>2
  <2>4. \A i \in 1..n : (IF i = 1 THEN ss[1] ELSE F[i - 1] \o ss[i])
                           = (IF i = 1 THEN ss[i] ELSE F[i - 1] \o ss[i])
    OBVIOUS
  <2> HIDE DEF F
  <2> QED BY <2>3, <2>4 DEF Joining
<1> QED BY <1>1, <1>2

\* All its values are sequences of what the others hold.
LEMMA JoiningType ==
  ASSUME NEW S, NEW n \in Nat, NEW ss \in Seq(Seq(S)), Len(ss) = n, NEW f, Joining(ss, n, f)
  PROVE  \A i \in 1..n : f[i] \in Seq(S)
<1> DEFINE T == {i \in 1..n : f[i] \notin Seq(S)}
<1>1. SUFFICES ASSUME T # {} PROVE FALSE
  OBVIOUS
<1>2. PICK x \in T : \A y \in T : x <= y
  <2> HIDE DEF T
  <2>1. T \subseteq Nat
    BY DEF T
  <2> QED BY <1>1, <2>1, LeastNumber
<1>3. x \in 1..n /\ f[x] \notin Seq(S)
  OBVIOUS
<1>4. f[x] = IF x = 1 THEN ss[1] ELSE f[x - 1] \o ss[x]
  <2> HIDE DEF T
  <2>1. f = [i \in 1..n |-> IF i = 1 THEN ss[1] ELSE f[i - 1] \o ss[i]]
    BY DEF Joining
  <2> QED BY <1>3, <2>1
<1>5. ASSUME x # 1 PROVE f[x - 1] \in Seq(S)
  <2>1. x - 1 \in 1..n /\ ~(x <= x - 1)
    BY <1>3, <1>5
  <2> QED BY <1>2, <2>1
<1>6. \A i \in 1..n : ss[i] \in Seq(S)
  OBVIOUS
<1> QED BY <1>3, <1>4, <1>5, <1>6

\* Flattening gives a sequence, ...
LEMMA FlattenType ==
  ASSUME NEW S, NEW ss \in Seq(Seq(S))
  PROVE  FlattenSeq(ss) \in Seq(S)
<1>1. CASE Len(ss) = 0
  <2>1. ss = <<>>
    BY <1>1
  <2> QED BY <1>1, <2>1 DEF FlattenSeq
<1>2. CASE Len(ss) # 0
  <2> DEFINE n == Len(ss)
  <2>1. n \in Nat \ {0} /\ n \in Nat /\ n \in 1..n
    BY <1>2
  <2>2. PICK f : Joining(ss, n, f) /\ FlattenSeq(ss) = f[n]
    BY <2>1, FlattenIsJoining
  <2>3. \A i \in 1..n : f[i] \in Seq(S)
    BY <2>1, <2>2, JoiningType
  <2> QED BY <2>1, <2>2, <2>3
<1> QED BY <1>1, <1>2

\* ... to which one more sequence at the end adds itself, ...
LEMMA FlattenAppend ==
  ASSUME NEW S, NEW n \in Nat, NEW ss, NEW tt, ss \in Seq(Seq(S)), Len(ss) = n,
         tt \in Seq(Seq(S)), Len(tt) = n + 1, SameUpTo(n, ss, tt)
  PROVE  FlattenSeq(tt) = FlattenSeq(ss) \o tt[n + 1]
<1>1. PICK g : Joining(tt, n + 1, g) /\ FlattenSeq(tt) = g[n + 1]
  BY FlattenIsJoining
<1>2. g[n + 1] = IF n = 0 THEN tt[1] ELSE g[n] \o tt[n + 1]
  <2>1. g = [i \in 1..(n + 1) |-> IF i = 1 THEN tt[1] ELSE g[i - 1] \o tt[i]]
    BY <1>1 DEF Joining
  <2>2. n + 1 \in 1..(n + 1) /\ (n + 1) - 1 = n /\ (n + 1 = 1 <=> n = 0)
    OBVIOUS
  <2>3. g[n + 1] = IF n + 1 = 1 THEN tt[1] ELSE g[(n + 1) - 1] \o tt[n + 1]
    BY <2>1, <2>2
  <2> QED BY <2>2, <2>3
<1>3. CASE n = 0
  <2>1. ss = <<>> /\ FlattenSeq(ss) = <<>> /\ tt[1] \in Seq(S)
    BY <1>3 DEF FlattenSeq
  <2> QED BY <1>1, <1>2, <1>3, <2>1, ConcatEmptySeq
<1>4. CASE n # 0
  <2>1. PICK f : Joining(ss, n, f) /\ FlattenSeq(ss) = f[n]
    BY <1>4, FlattenIsJoining
  <2>2. f[n] = g[n]
    <3>1. n <= n + 1 /\ n + 1 \in Nat /\ n \in 1..n
      BY <1>4
    <3>2. SameUpTo(n, f, g)
      BY <1>1, <2>1, <3>1, JoiningUnique
    <3> QED BY <3>1, <3>2 DEF SameUpTo
  <2> QED BY <1>1, <1>2, <1>4, <2>1, <2>2
<1> QED BY <1>3, <1>4

\* A name for what is said of three, so that it can be cited as it is.
Associates(s, t, u) == (s \o t) \o u = s \o (t \o u)

LEMMA ThreeJoin ==
  ASSUME NEW S, NEW s \in Seq(S), NEW t \in Seq(S), NEW u \in Seq(S)
  PROVE  Associates(s, t, u)
BY ConcatAssociative DEF Associates

\* tt is the n sequences of ss behind the first.
IsBehind(n, tt, ss) ==
  Len(ss) = n + 1 /\ Len(tt) = n /\ \A i \in 1..n : tt[i] = ss[1 + i]

FlattensBefore(ss, tt) == FlattenSeq(ss) = ss[1] \o FlattenSeq(tt)

\* ... and so does one at the start.
LEMMA FlattenHead ==
  ASSUME NEW S, NEW n \in Nat, NEW ss, NEW tt, ss \in Seq(Seq(S)), tt \in Seq(Seq(S)),
         IsBehind(n, tt, ss)
  PROVE  FlattensBefore(ss, tt)
<1>0. Len(ss) = n + 1 /\ Len(tt) = n /\ \A i \in 1..n : tt[i] = ss[1 + i]
  BY DEF IsBehind
<1>1. PICK f : Joining(ss, n + 1, f) /\ FlattenSeq(ss) = f[n + 1]
  <2>1. n + 1 \in Nat \ {0} /\ Len(ss) = n + 1
    BY <1>0
  <2> QED BY <2>1, FlattenIsJoining
<1>2. f = [i \in 1..(n + 1) |-> IF i = 1 THEN ss[1] ELSE f[i - 1] \o ss[i]]
  BY <1>1 DEF Joining
<1>3. f[1] = ss[1] /\ ss[1] \in Seq(S)
  <2>1. 1 \in 1..(n + 1)
    OBVIOUS
  <2>2. f[1] = ss[1]
    BY <1>2, <2>1
  <2> QED BY <1>0, <2>1, <2>2
<1>4. CASE n = 0
  <2>1. tt = <<>> /\ FlattenSeq(tt) = <<>>
    BY <1>0, <1>4 DEF FlattenSeq
  <2>2. FlattenSeq(ss) = ss[1]
    BY <1>1, <1>3, <1>4
  <2> QED BY <1>3, <2>1, <2>2, ConcatEmptySeq DEF FlattensBefore
<1>5. CASE n # 0
  <2>1. PICK g : Joining(tt, n, g) /\ FlattenSeq(tt) = g[n]
    BY <1>0, <1>5, FlattenIsJoining
  <2>2. g = [i \in 1..n |-> IF i = 1 THEN tt[1] ELSE g[i - 1] \o tt[i]]
    BY <2>1 DEF Joining
  <2>3. \A i \in 1..n : g[i] \in Seq(S) /\ tt[i] \in Seq(S)
    <3>1. \A i \in 1..n : g[i] \in Seq(S)
      BY <1>0, <2>1, JoiningType
    <3> QED BY <1>0, <3>1
  <2> DEFINE T == {i \in 1..n : f[i + 1] # ss[1] \o g[i]}
  <2>4. ASSUME T # {} PROVE FALSE
    <3>1. PICK x \in T : \A y \in T : x <= y
      <4> HIDE DEF T
      <4>1. T \subseteq Nat
        <5>1. T \subseteq 1..n
          BY Zenon DEF T
        <5> QED BY <5>1
      <4> QED BY <2>4, <4>1, LeastNumber
    <3>2. x \in 1..n /\ f[x + 1] # ss[1] \o g[x]
      OBVIOUS
    <3>3. f[x + 1] = f[x] \o tt[x]
      <4>1. x + 1 \in 1..(n + 1) /\ x + 1 # 1 /\ (x + 1) - 1 = x /\ 1 + x = x + 1
        BY <3>2
      <4>2. f[x + 1] = f[(x + 1) - 1] \o ss[x + 1]
        <5> HIDE DEF T
        <5> QED BY <1>2, <4>1
      <4>3. tt[x] = ss[1 + x]
        BY <1>0, <3>2
      <4> QED BY <4>1, <4>2, <4>3
    <3>4. g[x] = IF x = 1 THEN tt[1] ELSE g[x - 1] \o tt[x]
      <4> HIDE DEF T
      <4> QED BY <2>2, <3>2
    <3>5. CASE x = 1
      BY <1>3, <3>2, <3>3, <3>4, <3>5
    <3>6. CASE x # 1
      <4>1. x - 1 \in 1..n /\ ~(x <= x - 1) /\ (x - 1) + 1 = x
        BY <3>2, <3>6
      <4>2. f[x] = ss[1] \o g[x - 1]
        BY <3>1, <4>1
      <4> DEFINE a == ss[1]
                 b == g[x - 1]
                 c == tt[x]
      <4>3. a \in Seq(S) /\ b \in Seq(S) /\ c \in Seq(S)
        BY <1>3, <2>3, <3>2, <4>1
      <4>4. f[x + 1] = (a \o b) \o c /\ g[x] = b \o c
        BY <3>3, <3>4, <3>6, <4>2
      <4>5. f[x + 1] # a \o g[x]
        BY <3>2
      <4> HIDE DEF a, b, c, T
      <4>6. (a \o b) \o c = a \o (b \o c)
        <5>1. Associates(a, b, c)
          BY <4>3, ThreeJoin
        <5> QED BY <5>1 DEF Associates
      <4> QED BY <4>4, <4>5, <4>6
    <3> QED BY <3>5, <3>6
  <2>5. f[n + 1] = ss[1] \o g[n]
    <3>1. n \in 1..n
      BY <1>5
    <3> QED BY <2>4, <3>1
  <2> QED BY <1>1, <2>1, <2>5 DEF FlattensBefore
<1> QED BY <1>4, <1>5

\* A sequence is its first n elements and the others.
LEMMA Cut ==
  ASSUME NEW S, NEW t \in Seq(S), NEW n \in 0..Len(t)
  PROVE  /\ SubSeq(t, 1, n) \in Seq(S) /\ Len(SubSeq(t, 1, n)) = n
         /\ SubSeq(t, n + 1, Len(t)) \in Seq(S)
         /\ Len(SubSeq(t, n + 1, Len(t))) = Len(t) - n
         /\ t = SubSeq(t, 1, n) \o SubSeq(t, n + 1, Len(t))
<1>1. Len(t) \in Nat /\ n \in Nat /\ n <= Len(t)
  OBVIOUS
<1>2. SubSeq(t, 1, n) \in Seq(S) /\ Len(SubSeq(t, 1, n)) = n
  BY <1>1
<1>3. SubSeq(t, n + 1, Len(t)) \in Seq(S) /\ Len(SubSeq(t, n + 1, Len(t))) = Len(t) - n
  <2>1. \A i \in (n + 1)..Len(t) : t[i] \in S
    BY <1>1, ElementOfSeq
  <2>2. /\ SubSeq(t, n + 1, Len(t)) \in Seq(S)
        /\ Len(SubSeq(t, n + 1, Len(t)))
             = IF n + 1 <= Len(t) THEN Len(t) - (n + 1) + 1 ELSE 0
    <3>1. n + 1 \in Int /\ Len(t) \in Int
      BY <1>1
    <3> QED BY <2>1, <3>1, SubSeqProperties, ZenonT(40)
  <2> QED BY <1>1, <2>2
<1>4. SubSeq(t, 1, n) \o SubSeq(t, n + 1, Len(t)) = SubSeq(t, 1, Len(t))
  <2>1. 1 \in 1..(Len(t) + 1) /\ n \in (1 - 1)..Len(t) /\ Len(t) \in n..Len(t)
    BY <1>1
  <2> QED BY <2>1, ConcatAdjacentSubSeq, Zenon
<1> QED BY <1>2, <1>3, <1>4, SubSeqFull

\* A prefix is what something can be put behind.
LEMMA PrefixIff ==
  ASSUME NEW S, NEW s \in Seq(S), NEW t \in Seq(S)
  PROVE  IsPrefix(s, t) <=> \E u \in Seq(S) : t = s \o u
<1>1. ASSUME IsPrefix(s, t) PROVE \E u \in Seq(S) : t = s \o u
  <2>1. Len(s) \in Nat /\ Len(t) \in Nat /\ Len(s) <= Len(t)
        /\ SubSeq(s, 1, Len(s)) = SubSeq(t, 1, Len(s))
    BY <1>1 DEF IsPrefix
  <2>2. SubSeq(s, 1, Len(s)) = s
    BY SubSeqFull
  <2>3. Len(s) \in 0..Len(t)
    BY <2>1
  <2> DEFINE u == SubSeq(t, Len(s) + 1, Len(t))
  <2>4. u \in Seq(S) /\ t = SubSeq(t, 1, Len(s)) \o u
    BY <2>3, Cut, Zenon
  <2> QED BY <2>1, <2>2, <2>4
<1>2. ASSUME NEW u \in Seq(S), t = s \o u PROVE IsPrefix(s, t)
  <2>1. Len(t) = Len(s) + Len(u) /\ Len(s) \in Nat /\ Len(u) \in Nat
        /\ \A i \in 1..Len(s) : t[i] = s[i]
    BY <1>2, ConcatProperties
  <2>2. SubSeq(t, 1, Len(s)) = SubSeq(s, 1, Len(s))
    BY <2>1
  <2> QED BY <2>1, <2>2 DEF IsPrefix
<1> QED BY <1>1, <1>2

\* Names for what is said of sequences, so that it can be cited as it is.
Joined(s, t, z) == z = s \o t
Keeps(S, d, u, n) ==
  /\ SubSeq(u, 1, n) \in Seq(S) /\ Len(SubSeq(u, 1, n)) = n
  /\ SubSeq(u, n + 1, Len(u)) \in Seq(S)
  /\ d \o SubSeq(u, 1, n) \in Seq(S)
  /\ Len(d \o SubSeq(u, 1, n)) = Len(d) + n
  /\ (d \o SubSeq(u, 1, n)) \o SubSeq(u, n + 1, Len(u)) = d \o u

LEMMA BeginningGoesOn ==
  ASSUME NEW S, NEW s \in Seq(S), NEW t \in Seq(S), IsPrefix(s, t)
  PROVE  \E w \in Seq(S) : Joined(s, w, t)
BY PrefixIff DEF Joined

\* What is read moves from one sequence to the end of the other.
LEMMA FillKeeps ==
  ASSUME NEW S, NEW d \in Seq(S), NEW u \in Seq(S), NEW n \in 0..Len(u)
  PROVE  Keeps(S, d, u, n)
<1> DEFINE a == SubSeq(u, 1, n)
           b == SubSeq(u, n + 1, Len(u))
<1>1. a \in Seq(S) /\ Len(a) = n /\ b \in Seq(S) /\ u = a \o b
  BY Cut, ZenonT(40)
<1> HIDE DEF a, b
<1>2. d \o a \in Seq(S) /\ Len(d \o a) = Len(d) + Len(a)
  BY <1>1, ConcatProperties
<1>3. (d \o a) \o b = d \o (a \o b)
  BY <1>1, ConcatAssociative
<1> QED BY <1>1, <1>2, <1>3 DEF a, b, Keeps

\* Of two sequences of which one begins the other, m elements leave both.
LEMMA DropBoth ==
  ASSUME NEW S, NEW d \in Seq(S), NEW u \in Seq(S), NEW x \in Seq(S), NEW y \in Seq(S),
         NEW m \in Nat, Len(x) = m, m <= Len(d), IsPrefix(d \o u, x \o y)
  PROVE  /\ SubSeq(d, 1, m) = x
         /\ IsPrefix(SubSeq(d, m + 1, Len(d)) \o u, y)
<1> DEFINE a == SubSeq(d, 1, m)
           e == SubSeq(d, m + 1, Len(d))
<1>1. m \in 0..Len(d)
  OBVIOUS
<1>2. a \in Seq(S) /\ Len(a) = m /\ e \in Seq(S) /\ d = a \o e
  BY <1>1, Cut, Zenon
<1> HIDE DEF a, e
<1>3. d \o u \in Seq(S) /\ x \o y \in Seq(S)
  BY ConcatProperties
<1>4. PICK w \in Seq(S) : x \o y = (d \o u) \o w
  <2> DEFINE p == d \o u
             q == x \o y
  <2>1. p \in Seq(S) /\ q \in Seq(S) /\ IsPrefix(p, q)
    BY <1>3
  <2> HIDE DEF p, q
  <2>2. \E w \in Seq(S) : q = p \o w
    BY <2>1, PrefixIff
  <2> QED BY <2>2 DEF p, q
<1>5. e \o u \in Seq(S) /\ (e \o u) \o w \in Seq(S)
  BY <1>2, ConcatProperties
<1>6. (d \o u) \o w = a \o ((e \o u) \o w)
  <2>1. d \o u = a \o (e \o u)
    BY <1>2, ConcatAssociative, SMTT(20)
  <2> DEFINE v == e \o u
  <2>2. a \in Seq(S) /\ v \in Seq(S)
    BY <1>2, <1>5
  <2> HIDE DEF v
  <2>3. (a \o v) \o w = a \o (v \o w)
    <3>1. Associates(a, v, w)
      BY <2>2, ThreeJoin
    <3> QED BY <3>1 DEF Associates
  <2> QED BY <2>1, <2>3 DEF v
<1> DEFINE z == (e \o u) \o w
<1>7. z \in Seq(S) /\ x \o y = a \o z
  BY <1>4, <1>5, <1>6
<1> HIDE DEF z
<1>8. a = x
  <2>1. ASSUME NEW i \in 1..m PROVE a[i] = x[i]
    <3>1. i \in 1..(Len(x) + Len(y)) /\ i <= Len(x) /\ i \in 1..(Len(a) + Len(z)) /\ i <= Len(a)
      BY <1>2, <1>7
    <3>2. (x \o y)[i] = x[i]
      BY <3>1, ConcatProperties
    <3>3. (a \o z)[i] = a[i]
      BY <1>2, <1>7, <3>1, ConcatProperties
    <3> QED BY <1>7, <3>2, <3>3
  <2> QED BY <1>2, <2>1, SeqEqual
<1>9. y = z
  BY <1>2, <1>7, <1>8, ConcatSimplifications
<1>10. IsPrefix(e \o u, y)
  BY <1>5, <1>9, PrefixIff DEF z
<1> QED BY <1>8, <1>10 DEF a, e

\* What is not sent any more leaves a shorter beginning.
LEMMA CutShort ==
  ASSUME NEW S, NEW d \in Seq(S), NEW u \in Seq(S), NEW t \in Seq(S), NEW n \in 0..Len(u),
         IsPrefix(d \o u, t)
  PROVE  SubSeq(u, 1, n) \in Seq(S) /\ IsPrefix(d \o SubSeq(u, 1, n), t)
<1> DEFINE a == d \o SubSeq(u, 1, n)
           b == SubSeq(u, n + 1, Len(u))
<1>1. a \in Seq(S) /\ b \in Seq(S) /\ a \o b = d \o u /\ SubSeq(u, 1, n) \in Seq(S)
  <2>1. /\ SubSeq(u, 1, n) \in Seq(S) /\ SubSeq(u, n + 1, Len(u)) \in Seq(S)
        /\ d \o SubSeq(u, 1, n) \in Seq(S)
        /\ (d \o SubSeq(u, 1, n)) \o SubSeq(u, n + 1, Len(u)) = d \o u
    <3>1. Keeps(S, d, u, n)
      BY FillKeeps
    <3> QED BY <3>1 DEF Keeps
  <2> QED BY <2>1, Zenon
<1> HIDE DEF a, b
<1> DEFINE p == d \o u
<1>2. p \in Seq(S) /\ IsPrefix(p, t) /\ p = a \o b
  BY <1>1, ConcatProperties
<1> HIDE DEF p
<1>3. PICK w \in Seq(S) : t = p \o w
  <2>1. \E w \in Seq(S) : Joined(p, w, t)
    BY <1>2, BeginningGoesOn
  <2> QED BY <2>1 DEF Joined
<1>4. (a \o b) \o w = a \o (b \o w)
  <2>1. Associates(a, b, w)
    BY <1>1, ThreeJoin
  <2> QED BY <2>1 DEF Associates
<1>5. b \o w \in Seq(S)
  BY <1>1, ConcatProperties
<1>6. IsPrefix(a, t)
  <2> DEFINE v == b \o w
  <2>1. v \in Seq(S) /\ t = a \o v
    BY <1>2, <1>3, <1>4, <1>5
  <2> HIDE DEF v
  <2> QED BY <1>1, <2>1, PrefixIff
<1> QED BY <1>1, <1>6 DEF a

-----------------------------------------------------------------------------
(* Descriptors, the two slabs and the kill                                  *)

Places == {"free", "hello", "fill", "parse", "form", "route", "write", "bail", "end"}

Types ==
  /\ program \in {"none", "up", "killing", "freed"}
  /\ server \in {"none", "created", "running", "loop", "poll", "close", "routes",
                 "last", "done"}
  /\ open \subseteq Descriptor /\ orphans \subseteq Descriptor
  /\ pc \in [Client -> Places]
  /\ clientSocket \in [Client -> Descriptor \cup {Closed}]
  /\ requestsOut \in Int /\ repliesOut \in Int

\* threadRunning falls last, but for an accept that failed; a kill that is
\* not hasty finds the thread in its loop or behind it.
Running ==
  /\ server = "none" => program = "none"
  /\ threadRunning \/ acceptFailed \/ server \in {"none", "created", "done"}
  /\ program = "killing" /\ ~hasty => server \notin {"none", "created", "running"}
  /\ FreedAfterThread

\* The connections with a request, and those with a reply, out of its slab.
Busy    == {c \in Client : pc[c] \in {"form", "route", "write"}}
Writing == {c \in Client : pc[c] = "write"}

Counts ==
  /\ IsFiniteSet(Busy) /\ requestsOut = Cardinality(Busy)
  /\ IsFiniteSet(Writing) /\ repliesOut = Cardinality(Writing)

\* The connections with a socket, and the owners of descriptors.
Sockets == {c \in Client : clientSocket[c] # Closed}
listens == IF Listening THEN {listenSocket} ELSE {}

Disjoint ==
  /\ open = listens \cup {clientSocket[c] : c \in Sockets} \cup orphans
  /\ \A c, d \in Sockets : clientSocket[c] = clientSocket[d] => c = d
  /\ \A c \in Sockets : clientSocket[c] \notin listens \cup orphans
  /\ listens \cap orphans = {}
  /\ \A c \in Client : pc[c] \in {"free", "end"} => c \notin Sockets

Inv == Types /\ Running /\ Counts /\ Disjoint

-----------------------------------------------------------------------------
(* The kernel, and the counts                                               *)

\* Of numbers that are free the kernel gives one.
LEMMA LowestIsFree ==
  ASSUME open \subseteq Descriptor, open # Descriptor
  PROVE  Lowest \in Descriptor \ open
<1> DEFINE T == Descriptor \ open
<1>1. T \subseteq Nat /\ T # {}
  BY WebServerAssumption
<1>2. PICK x \in T : \A y \in T : x <= y
  <2> HIDE DEF T
  <2> QED BY <1>1, LeastNumber
<1> QED BY <1>2 DEF Lowest, Min

\* How much a connection at this place adds to a count.
InBusy(place)    == IF place \in {"form", "route", "write"} THEN 1 ELSE 0
InWriting(place) == IF place = "write" THEN 1 ELSE 0

\* A connection that moves takes its share of the counts with it.
LEMMA CountsMove ==
  ASSUME Types, Counts, NEW c \in Client, NEW there \in Places, Goto(c, there),
         requestsOut' = requestsOut + InBusy(there) - InBusy(pc[c]),
         repliesOut' = repliesOut + InWriting(there) - InWriting(pc[c])
  PROVE  Counts'
<1>1. pc' = [pc EXCEPT ![c] = there] /\ pc \in [Client -> Places]
  BY DEF Goto, Types
<1>2. /\ Busy' = IF InBusy(there) = 1 THEN Busy \cup {c} ELSE Busy \ {c}
      /\ c \in Busy <=> InBusy(pc[c]) = 1
  BY <1>1 DEF Busy, InBusy
<1>3. /\ Writing' = IF InWriting(there) = 1 THEN Writing \cup {c} ELSE Writing \ {c}
      /\ c \in Writing <=> InWriting(pc[c]) = 1
  BY <1>1 DEF Writing, InWriting
<1>4. /\ Cardinality(Busy) \in Nat /\ Cardinality(Writing) \in Nat
      /\ requestsOut = Cardinality(Busy) /\ repliesOut = Cardinality(Writing)
      /\ IsFiniteSet(Busy) /\ IsFiniteSet(Writing)
  BY FS_CardinalityType DEF Counts
<1>5. /\ IsFiniteSet(Busy')
      /\ Cardinality(Busy') = Cardinality(Busy) + InBusy(there) - InBusy(pc[c])
  <2>1. CASE InBusy(there) = 1
    <3>1. IsFiniteSet(Busy \cup {c}) /\ Cardinality(Busy \cup {c})
            = IF c \in Busy THEN Cardinality(Busy) ELSE Cardinality(Busy) + 1
      BY <1>4, FS_AddElement
    <3> QED BY <1>2, <1>4, <2>1, <3>1 DEF InBusy
  <2>2. CASE InBusy(there) = 0
    <3>1. IsFiniteSet(Busy \ {c}) /\ Cardinality(Busy \ {c})
            = IF c \in Busy THEN Cardinality(Busy) - 1 ELSE Cardinality(Busy)
      BY <1>4, FS_RemoveElement
    <3> QED BY <1>2, <1>4, <2>2, <3>1 DEF InBusy
  <2> QED BY <2>1, <2>2 DEF InBusy
<1>6. /\ IsFiniteSet(Writing')
      /\ Cardinality(Writing') = Cardinality(Writing) + InWriting(there) - InWriting(pc[c])
  <2>1. CASE InWriting(there) = 1
    <3>1. IsFiniteSet(Writing \cup {c}) /\ Cardinality(Writing \cup {c})
            = IF c \in Writing THEN Cardinality(Writing) ELSE Cardinality(Writing) + 1
      BY <1>4, FS_AddElement
    <3> QED BY <1>3, <1>4, <2>1, <3>1 DEF InWriting
  <2>2. CASE InWriting(there) = 0
    <3>1. IsFiniteSet(Writing \ {c}) /\ Cardinality(Writing \ {c})
            = IF c \in Writing THEN Cardinality(Writing) - 1 ELSE Cardinality(Writing)
      BY <1>4, FS_RemoveElement
    <3> QED BY <1>3, <1>4, <2>2, <3>1 DEF InWriting
  <2> QED BY <2>1, <2>2 DEF InWriting
<1> QED BY <1>4, <1>5, <1>6 DEF Counts

\* What is said of owners makes the descriptors add up.
LEMMA DisjointAddsUp == Types /\ Disjoint => DescriptorsOwned
<1> SUFFICES ASSUME Types, Disjoint PROVE DescriptorsOwned
  OBVIOUS
<1> DEFINE held == {clientSocket[c] : c \in Sockets}
           f == [c \in Sockets |-> clientSocket[c]]
<1>1. open = listens \cup held \cup orphans /\ open \subseteq Descriptor
  BY DEF Disjoint, Types
<1>2. IsFiniteSet(listens) /\ IsFiniteSet(held) /\ IsFiniteSet(orphans)
  <2>1. listens \in SUBSET Descriptor /\ held \in SUBSET Descriptor
        /\ orphans \in SUBSET Descriptor
    BY <1>1
  <2> QED BY <2>1, FS_Subset, WebServerAssumption
<1>3. listens \cap held = {} /\ (listens \cup held) \cap orphans = {}
  BY DEF Disjoint
<1>4. Cardinality(open) = Cardinality(listens) + Cardinality(held) + Cardinality(orphans)
  <2> HIDE DEF held
  <2>1. IsFiniteSet(listens \cup held)
        /\ Cardinality(listens \cup held)
             = Cardinality(listens) + Cardinality(held) - Cardinality(listens \cap held)
    BY <1>2, FS_Union
  <2>2. Cardinality(open) = Cardinality(listens \cup held) + Cardinality(orphans)
                              - Cardinality((listens \cup held) \cap orphans)
    BY <1>1, <1>2, <2>1, FS_Union
  <2>3. /\ Cardinality(listens) \in Nat /\ Cardinality(held) \in Nat
        /\ Cardinality(orphans) \in Nat
    BY <1>2, FS_CardinalityType
  <2>4. /\ Cardinality(listens \cap held) = 0
        /\ Cardinality((listens \cup held) \cap orphans) = 0
    BY <1>3, FS_EmptySet
  <2> QED BY <2>1, <2>2, <2>3, <2>4
<1>5. Cardinality(held) = Cardinality(Sockets)
  <2>1. f \in Bijection(Sockets, held)
    BY DEF Disjoint, Bijection, Injection, IsInjective, Surjection
  <2>2. ExistsBijection(held, Sockets)
    <3> HIDE DEF f, held
    <3> QED BY <2>1, Fun_ExistsBijSymmetric DEF ExistsBijection
  <2> HIDE DEF held
  <2> QED BY <1>2, <2>2, FS_Bijection
<1> QED BY <1>1, <1>4, <1>5 DEF DescriptorsOwned, Sockets, listens

-----------------------------------------------------------------------------
(* Steps of connections                                                     *)

\* A connection goes on, and its socket and those of others stay.
LEMMA Moves ==
  ASSUME Inv, NEW c \in Client, NEW there \in Places, Goto(c, there),
         UNCHANGED <<life, open, orphans, clientSocket>>,
         there \in {"free", "end"} => pc[c] = "end",
         requestsOut' = requestsOut + InBusy(there) - InBusy(pc[c]),
         repliesOut' = repliesOut + InWriting(there) - InWriting(pc[c])
  PROVE  Inv'
<1>1. Types'
  BY DEF Inv, Types, Goto, life, InBusy, InWriting
<1>2. Running'
  BY DEF Inv, Running, FreedAfterThread, life
<1>3. Counts'
  BY CountsMove DEF Inv
<1>4. Disjoint'
  <2>1. Sockets' = Sockets /\ listens' = listens
    BY DEF Sockets, listens, Listening, life
  <2>2. \A d \in Client : pc'[d] \in {"free", "end"} => pc[d] \in {"free", "end"}
    BY DEF Inv, Types, Goto
  <2> QED BY <2>1, <2>2 DEF Inv, Disjoint
<1> QED BY <1>1, <1>2, <1>3, <1>4 DEF Inv

\* Nothing moves that Inv speaks of.
LEMMA Stays ==
  ASSUME Inv, UNCHANGED <<life, open, orphans, slabs, pc, clientSocket>>
  PROVE  Inv'
<1>1. Types' /\ Running'
  BY DEF Inv, Types, Running, FreedAfterThread, life, slabs
<1>2. Counts'
  BY DEF Inv, Counts, Busy, Writing, slabs
<1>3. Disjoint'
  BY DEF Inv, Disjoint, Sockets, listens, Listening, life
<1> QED BY <1>1, <1>2, <1>3 DEF Inv

\* CS_serverKillClientSocket: the number is free again, if there was one.
LEMMA Closes ==
  ASSUME Inv, NEW c \in Client, NEW there \in {"bail", "end"}, Goto(c, there), Closing(c),
         UNCHANGED <<life, orphans>>,
         requestsOut' = requestsOut - InBusy(pc[c]),
         repliesOut' = repliesOut - InWriting(pc[c])
  PROVE  Inv'
<1>1. /\ open' = open \ {clientSocket[c]}
      /\ clientSocket' = [clientSocket EXCEPT ![c] = Closed]
      /\ pc' = [pc EXCEPT ![c] = there]
      /\ clientSocket \in [Client -> Descriptor \cup {Closed}]
      /\ Closed \notin Descriptor
  BY WebServerAssumption DEF Closing, Goto, Inv, Types
<1>2. Types'
  BY <1>1 DEF Inv, Types, Places, life, InBusy, InWriting
<1>3. Running'
  BY DEF Inv, Running, FreedAfterThread, life
<1>4. Counts'
  BY CountsMove DEF Inv, Places, InBusy, InWriting, Types
<1>5. Disjoint'
  <2>1. listens' = listens /\ orphans' = orphans
    BY DEF listens, Listening, life
  <2>2. Sockets' = Sockets \ {c}
    BY <1>1 DEF Sockets
  <2>3. \A d \in Sockets' : d \in Sockets /\ d # c /\ clientSocket'[d] = clientSocket[d]
    BY <1>1, <2>2 DEF Sockets
  <2>4. open' = listens' \cup {clientSocket'[d] : d \in Sockets'} \cup orphans'
    <3>1. CASE c \in Sockets
      BY <1>1, <2>1, <2>2, <2>3, <3>1 DEF Inv, Disjoint
    <3>2. CASE c \notin Sockets
      <4>1. clientSocket[c] = Closed /\ open' = open
        BY <1>1, <3>2 DEF Sockets, Inv, Types
      <4> QED BY <1>1, <2>1, <2>2, <2>3, <3>2, <4>1 DEF Inv, Disjoint
    <3> QED BY <3>1, <3>2
  <2>5. \A d \in Client : pc'[d] \in {"free", "end"} => d \notin Sockets'
    BY <1>1, <2>2 DEF Inv, Disjoint, Types
  <2> QED BY <2>1, <2>2, <2>3, <2>4, <2>5 DEF Inv, Disjoint
<1> QED BY <1>2, <1>3, <1>4, <1>5 DEF Inv

LEMMA ClientSteps ==
  ASSUME Inv, NEW c \in Client, ClientStep(c) \/ PeerLeaves(c)
  PROVE  Inv'
<1> USE DEF Reads, Routing, Writes, slabs, life, reply, request, InBusy, InWriting, Places
<1>1. ASSUME Hello(c) PROVE Inv'
  <2>1. PICK there \in {"fill", "bail"} : Goto(c, there)
    BY <1>1 DEF Hello
  <2> QED BY <1>1, <2>1, Moves DEF Hello, Inv, Types
<1>2. ASSUME FillIncoming(c) PROVE Inv'
  BY <1>2, Moves DEF FillIncoming, Inv, Types
<1>3. ASSUME FillEnds(c) PROVE Inv'
  BY <1>3, Moves DEF FillEnds, Inv, Types
<1>4. ASSUME Malformed(c) PROVE Inv'
  BY <1>4, Moves DEF Malformed, Inv, Types
<1>5. ASSUME Parse(c) PROVE Inv'
  BY <1>5, Moves DEF Parse, Inv, Types
<1>6. ASSUME FormFills(c) PROVE Inv'
  BY <1>6, Stays DEF FormFills
<1>7. ASSUME FormFails(c) PROVE Inv'
  BY <1>7, Moves DEF FormFails, Inv, Types
<1>8. ASSUME RequestIn(c) PROVE Inv'
  BY <1>8, Moves DEF RequestIn, Inv, Types
<1>9. ASSUME pc[c] = "route", NEW body, NEW close, Replies(c, body, close), Routing' = Routing
      PROVE  Inv'
  BY <1>9, Moves DEF Replies, Inv, Types
<1>10. ASSUME pc[c] = "route", Quits(c), Routing' = Routing PROVE Inv'
  BY <1>10, Moves DEF Quits, ReturnRequest, Inv, Types
<1>11. ASSUME FilterRefuses(c) PROVE Inv'
  BY <1>9, <1>10, <1>11 DEF FilterRefuses
<1>12. ASSUME RouteTakes(c) PROVE Inv'
  BY <1>9, <1>10, <1>12 DEF RouteTakes
<1>13. ASSUME RouteHangsUp(c) PROVE Inv'
  BY <1>13, Closes DEF RouteHangsUp, ReturnRequest, Inv, Types
<1>14. ASSUME NoRoute(c) PROVE Inv'
  BY <1>9, <1>14 DEF NoRoute
<1>15. ASSUME pc[c] = "write", NEW close, ReplyDone(c, close), UNCHANGED Writes PROVE Inv'
  <2>1. PICK there \in {"bail", "fill"} : Goto(c, there)
    BY <1>15 DEF ReplyDone
  <2> QED BY <1>15, <2>1, Moves DEF ReplyDone, ReturnRequest, Inv, Types
<1>16. ASSUME WriteReply(c) PROVE Inv'
  <2>1. CASE ReplyDone(c, ends[c])
    BY <1>15, <1>16, <2>1 DEF WriteReply
  <2>2. CASE ReplyGoesOn(c, taken[c] + Fitting(c))
    BY <1>16, <2>2, Stays DEF WriteReply, ReplyGoesOn
  <2> QED BY <1>16, <2>1, <2>2 DEF WriteReply
<1>17. ASSUME WriteFails(c) PROVE Inv'
  BY <1>15, <1>17 DEF WriteFails
<1>18. ASSUME KillClientSocket(c) PROVE Inv'
  BY <1>18, Closes DEF KillClientSocket, Inv, Types
<1>19. ASSUME ClientEnds(c) PROVE Inv'
  BY <1>19, Moves DEF ClientEnds, Inv, Types
<1>20. ASSUME PeerLeaves(c) PROVE Inv'
  BY <1>20, Stays DEF PeerLeaves
<1> QED
  BY <1>1, <1>2, <1>3, <1>4, <1>5, <1>6, <1>7, <1>8, <1>11, <1>12, <1>13, <1>14, <1>16,
     <1>17, <1>18, <1>19, <1>20 DEF ClientStep

-----------------------------------------------------------------------------
(* Steps of the program and of the server thread                            *)

\* The server thread moves, and listens as before.
LEMMA ServerStays ==
  ASSUME Inv, UNCHANGED <<listenSocket, open, Connections>>, Listening' = Listening
  PROVE  Counts' /\ Disjoint'
<1>1. Counts'
  BY DEF Inv, Counts, Busy, Writing, Connections, slabs
<1>2. Disjoint'
  BY DEF Inv, Disjoint, Sockets, listens, Connections
<1> QED BY <1>1, <1>2

LEMMA ProgramSteps ==
  ASSUME Inv, Start \/ KillStarts \/ KillFrees
  PROVE  Inv'
<1>1. ASSUME Start PROVE Inv'
  <2>1. Lowest \in Descriptor \ open
    BY <1>1, LowestIsFree DEF Start, Inv, Types
  <2>2. Types'
    BY <1>1, <2>1 DEF Start, Inv, Types
  <2>3. Running'
    BY <1>1 DEF Start, Inv, Running, FreedAfterThread
  <2>4. Counts'
    <3>1. Busy' = {} /\ Writing' = {}
      BY <1>1 DEF Start, Busy, Writing
    <3>2. requestsOut' = 0 /\ repliesOut' = 0
      BY <1>1 DEF Start
    <3> QED BY <3>1, <3>2, FS_EmptySet DEF Counts
  <2>5. Disjoint'
    <3>1. listens = {} /\ listens' = {Lowest} /\ Sockets' = Sockets
      BY <1>1 DEF Start, listens, Listening, Sockets
    <3>2. open' = open \cup {Lowest} /\ UNCHANGED <<orphans, pc, clientSocket>>
      BY <1>1 DEF Start
    <3> QED BY <2>1, <3>1, <3>2 DEF Inv, Disjoint
  <2> QED BY <2>2, <2>3, <2>4, <2>5 DEF Inv
<1>2. ASSUME KillStarts PROVE Inv'
  <2>1. Types' /\ Running'
    BY <1>2 DEF KillStarts, Inv, Types, Running, FreedAfterThread, Connections, slabs
  <2> QED BY <1>2, <2>1, ServerStays DEF KillStarts, Listening, Inv
<1>3. ASSUME KillFrees PROVE Inv'
  <2>1. Types' /\ Running'
    BY <1>3 DEF KillFrees, Inv, Types, Running, FreedAfterThread, Connections, slabs, flags
  <2> QED BY <1>3, <2>1, ServerStays DEF KillFrees, Listening, Inv
<1> QED BY <1>1, <1>2, <1>3

\* A step of the server thread between two places where it listens, or
\* between two where it does not.
LEMMA ServerMovesOn ==
  ASSUME Inv, NEW here, NEW there, ServerMoves(here, there),
         here \in {"loop", "poll", "routes"},
         there \in {"loop", "poll", "close", "last"},
         here = "routes" <=> there = "last"
  PROVE  Inv'
<1>1. Types' /\ Running'
  BY DEF ServerMoves, ServerGoes, Inv, Types, Running, FreedAfterThread, Connections, slabs,
     flags
<1>2. Listening' = Listening
  BY DEF ServerMoves, ServerGoes, Listening
<1> QED BY <1>1, <1>2, ServerStays DEF ServerMoves, Inv

\* The kernel gives a number to a connection.
LEMMA Accepts ==
  ASSUME Inv, NEW c \in Client, Accept(c)
  PROVE  Inv'
<1>1. /\ server = "poll" /\ server' = "loop"
      /\ UNCHANGED <<program, hasty, threadRunning, acceptFailed, listenSocket, orphans, slabs>>
      /\ pc[c] = "free" /\ pc' = [pc EXCEPT ![c] = "hello"]
      /\ open' = open \cup {Lowest}
      /\ clientSocket' = [clientSocket EXCEPT ![c] = Lowest]
  BY DEF Accept, ServerGoes, Goto, flags
<1>2. Lowest \in Descriptor \ open /\ Lowest # Closed
  BY LowestIsFree, WebServerAssumption DEF Accept, Inv, Types
<1>3. Types'
  BY <1>1, <1>2 DEF Inv, Types, Places, slabs
<1>4. Running'
  BY <1>1 DEF Inv, Running, FreedAfterThread
<1>5. Counts'
  <2>1. Types /\ Counts /\ Goto(c, "hello") /\ "hello" \in Places
    BY <1>1 DEF Inv, Goto, Places
  <2>2. /\ requestsOut' = requestsOut + InBusy("hello") - InBusy(pc[c])
        /\ repliesOut' = repliesOut + InWriting("hello") - InWriting(pc[c])
    BY <1>1 DEF Inv, Types, InBusy, InWriting, slabs
  <2> QED BY <2>1, <2>2, CountsMove
<1>6. Disjoint'
  <2>1. listens' = listens
    BY <1>1 DEF listens, Listening
  <2>2. Sockets' = Sockets \cup {c} /\ c \notin Sockets
    BY <1>1, <1>2 DEF Sockets, Inv, Types, Disjoint
  <2>3. /\ clientSocket'[c] = Lowest
        /\ \A d \in Sockets : clientSocket'[d] = clientSocket[d]
    BY <1>1, <2>2 DEF Inv, Types, Sockets
  <2>4. open' = listens' \cup {clientSocket'[d] : d \in Sockets'} \cup orphans'
    BY <1>1, <2>1, <2>2, <2>3 DEF Inv, Disjoint
  <2>5. \A d, e \in Sockets' : clientSocket'[d] = clientSocket'[e] => d = e
    BY <1>2, <2>2, <2>3 DEF Inv, Disjoint
  <2>6. /\ \A d \in Sockets' : clientSocket'[d] \notin listens' \cup orphans'
        /\ listens' \cap orphans' = {}
    BY <1>1, <1>2, <2>1, <2>2, <2>3 DEF Inv, Disjoint
  <2>7. \A d \in Client : pc'[d] \in {"free", "end"} => d \notin Sockets'
    BY <1>1, <2>2 DEF Inv, Disjoint, Types
  <2> QED BY <2>4, <2>5, <2>6, <2>7 DEF Disjoint
<1> QED BY <1>3, <1>4, <1>5, <1>6 DEF Inv

LEMMA ServerSteps ==
  ASSUME Inv, ServerStep
  PROVE  Inv'
<1> USE DEF ServerGoes, Inv, Types, Running, FreedAfterThread, Listening, flags
<1>1. ASSUME ServerRuns PROVE Inv'
  BY <1>1, ServerStays DEF ServerRuns, Connections, slabs
<1>2. ASSUME ServerClearsKill PROVE Inv'
  BY <1>2, ServerStays DEF ServerClearsKill, Connections, slabs
<1>3. ASSUME LoopEnds \/ Polls \/ PollTimesOut \/ PollFails \/ freeRoutes PROVE Inv'
  BY <1>3, ServerMovesOn DEF LoopEnds, Polls, PollTimesOut, PollFails, freeRoutes
<1>4. ASSUME AcceptFails PROVE Inv'
  BY <1>4, ServerStays DEF AcceptFails, Connections, slabs
<1>5. ASSUME AcceptUnserved PROVE Inv'
  <2>1. Lowest \in Descriptor \ open
    BY <1>5, LowestIsFree DEF AcceptUnserved
  <2>2. /\ server = "poll" /\ server' = "loop"
        /\ UNCHANGED <<listenSocket, slabs, pc, clientSocket>>
        /\ open' = open \cup {Lowest} /\ orphans' = orphans \cup {Lowest}
    BY <1>5 DEF AcceptUnserved
  <2>3. Types' /\ Running'
    BY <1>5, <2>1 DEF AcceptUnserved, slabs
  <2>4. Counts'
    BY <2>2 DEF Counts, Busy, Writing, slabs
  <2>5. listens' = listens /\ Sockets' = Sockets
    BY <2>2 DEF listens, Sockets
  <2>6. Disjoint'
    BY <2>1, <2>2, <2>5 DEF Disjoint
  <2> QED BY <2>3, <2>4, <2>6
<1>6. ASSUME CloseListen PROVE Inv'
  <2>1. /\ server = "close" /\ server' = "routes"
        /\ UNCHANGED <<listenSocket, orphans, slabs, pc, clientSocket>>
        /\ open' = open \ {listenSocket}
    BY <1>6 DEF CloseListen, Connections
  <2>2. Types' /\ Running'
    BY <1>6 DEF CloseListen, Connections, slabs
  <2>3. Counts'
    BY <2>1 DEF Counts, Busy, Writing, slabs
  <2>4. listens = {listenSocket} /\ listens' = {} /\ Sockets' = Sockets
    BY <2>1 DEF listens, Sockets
  <2>5. Disjoint'
    BY <2>1, <2>4 DEF Disjoint
  <2> QED BY <2>2, <2>3, <2>5
<1>7. ASSUME ServerEnds PROVE Inv'
  <2>1. /\ server = "last" /\ server' = "done"
        /\ UNCHANGED <<open, orphans, slabs, pc, clientSocket>>
    BY <1>7 DEF ServerEnds, Connections
  <2>2. Types' /\ Running'
    BY <1>7 DEF ServerEnds, Connections, slabs
  <2>3. Counts'
    BY <2>1 DEF Counts, Busy, Writing, slabs
  <2>4. listens = {} /\ listens' = {} /\ Sockets' = Sockets
    BY <2>1 DEF listens, Sockets
  <2>5. Disjoint'
    BY <2>1, <2>4 DEF Disjoint
  <2> QED BY <2>2, <2>3, <2>5
<1> QED
  BY <1>1, <1>2, <1>3, <1>4, <1>5, <1>6, <1>7, Accepts DEF ServerStep

-----------------------------------------------------------------------------
LEMMA InitInv == Init => Inv
<1> SUFFICES ASSUME Init PROVE Inv
  OBVIOUS
<1>1. Types /\ Running
  BY DEF Init, Types, Places, Running, FreedAfterThread
<1>2. Busy = {} /\ Writing = {} /\ Sockets = {} /\ listens = {}
  BY DEF Init, Busy, Writing, Sockets, listens, Listening
<1>3. Counts
  BY <1>2, FS_EmptySet DEF Init, Counts
<1>4. Disjoint
  BY <1>2 DEF Init, Disjoint
<1> QED BY <1>1, <1>3, <1>4 DEF Inv

LEMMA NextInv == Inv /\ [Next]_vars => Inv'
<1> SUFFICES ASSUME Inv, [Next]_vars PROVE Inv'
  OBVIOUS
<1>1. CASE Next
  BY <1>1, ProgramSteps, ServerSteps, ClientSteps DEF Next
<1>2. CASE UNCHANGED vars
  BY <1>2, Stays DEF vars
<1> QED BY <1>1, <1>2

\* The invariant holds of any server and any number of its connections.
THEOREM InvHolds == Spec => []Inv
<1> QED BY InitInv, NextInv, PTL DEF Spec

\* Whatever order connections come, hang up and end in, and wherever a kill
\* or an accept without memory comes between: every open descriptor has
\* exactly one owner (createClientInfoWithThread, CS_serverKillClientSocket,
\* serverThreadProc).
THEOREM OneOwnerEach == Spec => []DescriptorsOwned
<1>1. Inv => DescriptorsOwned
  BY DisjointAddsUp DEF Inv
<1> QED BY <1>1, InvHolds, PTL

\* On every path of any number of client threads, the requests and replies
\* out of the slabs are those of the threads between taking and returning
\* one (privateReturnRequest, CS_serverDoReply).
THEOREM Balanced == Spec => []SlabsBalanced
<1>1. Inv => SlabsBalanced
  BY DEF Inv, Counts, Busy, Writing, SlabsBalanced
<1> QED BY <1>1, InvHolds, PTL

\* CS_serverKill frees a server that was set up, and whose accepts work, only
\* after its thread is through.
THEOREM FreedLast == Spec => []FreedAfterThread
<1>1. Inv => FreedAfterThread
  BY DEF Inv, Running
<1> QED BY <1>1, InvHolds, PTL

-----------------------------------------------------------------------------
(* What a connection reads                                                  *)

Request == UNION {UNION {{s[i] : i \in 1..Len(s)} : s \in Script[c]} : c \in Client}
Piece   == {<<r, i>> : r \in Request, i \in Nat}

LEMMA RequestType ==
  ASSUME NEW r \in Request
  PROVE  /\ r.head \in Nat \ {0} /\ r.form \in Nat /\ r.head + r.form \in Nat
         /\ r.uri \in DOMAIN Body
<1>1. PICK c \in Client : r \in UNION {{s[i] : i \in 1..Len(s)} : s \in Script[c]}
  BY DEF Request
<1>2. PICK s \in Script[c] : \E i \in 1..Len(s) : r = s[i]
  BY <1>1
<1>3. PICK i \in 1..Len(s) : r = s[i]
  BY <1>2
<1>4. i \in DOMAIN s
  <2>1. s = [j \in 1..Len(s) |-> s[j]]
    BY WebServerAssumption
  <2> QED BY <2>1
<1>5. r.uri \in DOMAIN Body /\ r.head \in Nat \ {0} /\ r.form \in Nat
  BY <1>3, <1>4, WebServerAssumption
<1> QED BY <1>5

LEMMA ScriptType ==
  ASSUME NEW c \in Client, NEW s \in Script[c]
  PROVE  s \in Seq(Request)
<1>1. s = [i \in 1..Len(s) |-> s[i]] /\ Len(s) \in Nat
  BY WebServerAssumption
<1>2. \A i \in 1..Len(s) : s[i] \in Request
  BY DEF Request
<1> DEFINE n == Len(s)
<1>3. s = [i \in 1..n |-> s[i]] /\ n \in Nat /\ \A i \in 1..n : s[i] \in Request
  BY <1>1, <1>2
<1> HIDE DEF n
<1>4. s \in [1..n -> Request]
  BY <1>3
<1> QED BY <1>3, <1>4

LEMMA PiecesType ==
  ASSUME NEW r \in Request
  PROVE  /\ Pieces(r) \in Seq(Piece) /\ Len(Pieces(r)) = r.head + r.form
         /\ Pieces(r)[1] = <<r, 1>>
<1> DEFINE n == r.head + r.form
<1>1. n \in Nat /\ 1 \in 1..n
  BY RequestType
<1>2. \A i \in 1..n : <<r, i>> \in Piece
  BY <1>1 DEF Piece
<1>3. Pieces(r) = [i \in 1..n |-> <<r, i>>]
  BY DEF Pieces
<1> HIDE DEF n, Piece
<1>4. Pieces(r) \in [1..n -> Piece]
  BY <1>2, <1>3
<1>5. Pieces(r) \in Seq(Piece) /\ Len(Pieces(r)) = n
  BY <1>1, <1>4
<1>6. Pieces(r)[1] = <<r, 1>>
  BY <1>1, <1>3
<1> QED BY <1>5, <1>6 DEF n

\* The pieces of the requests of a from the k-th on.
From(a, k) == Stream(SubSeq(a, k, Len(a)))

LEMMA StreamType ==
  ASSUME NEW s \in Seq(Request)
  PROVE  Stream(s) \in Seq(Piece)
<1> DEFINE n  == Len(s)
           ss == [k \in 1..n |-> Pieces(s[k])]
<1>1. n \in Nat /\ DOMAIN s = 1..n
  OBVIOUS
<1>2. \A k \in 1..n : Pieces(s[k]) \in Seq(Piece)
  <2> TAKE k \in 1..n
  <2>1. s[k] \in Request
    BY ElementOfSeq
  <2> QED BY <2>1, PiecesType
<1>3. ss \in [1..n -> Seq(Piece)]
  BY <1>2
<1>4. Stream(s) = FlattenSeq(ss)
  BY <1>1 DEF Stream
<1> HIDE DEF ss, n
<1>5. ss \in Seq(Seq(Piece))
  BY <1>1, <1>3
<1> QED BY <1>4, <1>5, FlattenType

LEMMA FromType ==
  ASSUME NEW a \in Seq(Request), NEW k \in Nat, k >= 1
  PROVE  From(a, k) \in Seq(Piece) /\ (k > Len(a) => From(a, k) = <<>>)
<1> DEFINE s == SubSeq(a, k, Len(a))
<1>1. Len(a) \in Nat /\ \A i \in k..Len(a) : a[i] \in Request
  OBVIOUS
<1>2. s \in Seq(Request)
  BY <1>1, SubSeqProperties
<1>3. k > Len(a) => s = <<>>
  BY <1>1
<1>4. Stream(<<>>) = <<>>
  BY DEF Stream, FlattenSeq
<1> HIDE DEF s
<1>5. Stream(s) \in Seq(Piece) /\ (k > Len(a) => Stream(s) = <<>>)
  BY <1>2, <1>3, <1>4, StreamType
<1> QED BY <1>5 DEF From, s

\* The next request, and those behind it.
LEMMA FromHead ==
  ASSUME NEW a \in Seq(Request), NEW k \in 1..Len(a)
  PROVE  From(a, k) = Pieces(a[k]) \o From(a, k + 1)
<1> DEFINE s  == SubSeq(a, k, Len(a))
           t  == SubSeq(a, k + 1, Len(a))
           n  == Len(a) - k
           ss == [j \in 1..(n + 1) |-> Pieces(s[j])]
           tt == [j \in 1..n |-> Pieces(t[j])]
<1>1. Len(a) \in Nat /\ n \in Nat
  OBVIOUS
<1>2. DOMAIN s = 1..(n + 1) /\ \A j \in 1..(n + 1) : s[j] = a[(k - 1) + j]
  BY <1>1
<1>3. DOMAIN t = 1..n /\ \A j \in 1..n : t[j] = a[k + j]
  BY <1>1
<1>4. \A j \in 1..(n + 1) : Pieces(s[j]) \in Seq(Piece)
  <2> TAKE j \in 1..(n + 1)
  <2>1. (k - 1) + j \in 1..Len(a)
    BY <1>1
  <2>2. s[j] \in Request
    BY <1>1, <1>2, <2>1, ElementOfSeq
  <2> QED BY <2>2, PiecesType
<1>5. \A j \in 1..n : t[j] = s[1 + j] /\ 1 + j \in 1..(n + 1)
  <2> TAKE j \in 1..n
  <2>1. 1 + j \in 1..(n + 1) /\ (k - 1) + (1 + j) = k + j
    BY <1>1
  <2> QED BY <1>2, <1>3, <2>1
<1>6. /\ ss \in [1..(n + 1) -> Seq(Piece)] /\ tt \in [1..n -> Seq(Piece)]
      /\ \A j \in 1..n : tt[j] = ss[1 + j]
  BY <1>4, <1>5
<1>7. ss[1] = Pieces(a[k])
  <2>1. 1 \in 1..(n + 1) /\ (k - 1) + 1 = k
    BY <1>1
  <2> QED BY <1>2, <2>1
<1>8. From(a, k) = FlattenSeq(ss) /\ From(a, k + 1) = FlattenSeq(tt)
  BY <1>2, <1>3 DEF From, Stream
<1> HIDE DEF ss, tt, n, s, t
<1>9. ss \in Seq(Seq(Piece)) /\ tt \in Seq(Seq(Piece)) /\ IsBehind(n, tt, ss)
  <2>1. n + 1 \in Nat
    BY <1>1
  <2>2. ss \in Seq(Seq(Piece)) /\ Len(ss) = n + 1 /\ tt \in Seq(Seq(Piece)) /\ Len(tt) = n
    BY <1>1, <1>6, <2>1
  <2> QED BY <1>6, <2>2 DEF IsBehind
<1>10. FlattensBefore(ss, tt)
  BY <1>1, <1>9, FlattenHead, Zenon
<1> QED BY <1>7, <1>8, <1>10 DEF FlattensBefore

-----------------------------------------------------------------------------
(* The receive buffer                                                       *)

\* A buffer with items of S, no more than its block holds.
Fits(b, S, size) ==
  /\ b \in [gap : Nat, data : Seq(S)]
  /\ b.gap + Len(b.data) <= size

\* What the client thread has and will get, at a place of it and with n
\* requests answered.
ReadsWell(place, a, u, b, n) ==
  /\ a \in Seq(Request) /\ u \in Seq(Piece) /\ Fits(b, Piece, BufferSize) /\ n \in Nat
  /\ place \in {"hello", "fill", "parse", "form", "write"} =>
       IsPrefix(b.data \o u, From(a, n + 1))
  /\ place = "route" => IsPrefix(b.data \o u, From(a, n + 2))
  /\ place \in {"hello", "fill"} => b.gap + Len(b.data) < BufferSize
  /\ place \in {"route", "write"} => Len(b.data) < BufferSize
  /\ place \in {"parse", "form"} => Len(b.data) > 0
  /\ place = "free" => b = Empty

LEMMA EmptyFits ==
  ASSUME NEW S
  PROVE  /\ Fits(Empty, S, BufferSize) /\ Fits(Empty, S, OutputSize)
         /\ Empty.data = <<>> /\ Empty.gap = 0
BY WebServerAssumption DEF Fits, Empty

\* The first n items can leave it.
Drops(b, n, S, size) ==
  /\ Fits(Drop(b, n), S, size)
  /\ Drop(b, n).data = SubSeq(b.data, n + 1, Len(b.data))
  /\ Len(Drop(b, n).data) = Len(b.data) - n

LEMMA DropFits ==
  ASSUME NEW S, NEW size \in Nat, NEW b, Fits(b, S, size), NEW n \in Nat, n <= Len(b.data)
  PROVE  Drops(b, n, S, size)
<1> DEFINE d == b.data
<1>1. b.gap \in Nat /\ d \in Seq(S) /\ b.gap + Len(d) <= size
      /\ Len(d) \in Nat /\ n \in 0..Len(d)
  BY DEF Fits
<1>2. /\ SubSeq(d, n + 1, Len(d)) \in Seq(S)
      /\ Len(SubSeq(d, n + 1, Len(d))) = Len(d) - n
  <2> HIDE DEF d
  <2> QED BY <1>1, Cut, Zenon
<1>3. CASE n = Len(d)
  <2>1. Drop(b, n) = Empty
    BY <1>3 DEF Drop
  <2>2. SubSeq(d, n + 1, Len(d)) = <<>>
    BY <1>1, <1>3
  <2>3. Fits(Empty, S, size) /\ Empty.data = <<>>
    BY DEF Fits, Empty
  <2> QED BY <1>1, <1>2, <1>3, <2>1, <2>2, <2>3 DEF Drops
<1>4. CASE n # Len(d)
  <2>1. Drop(b, n) = [gap |-> b.gap + n, data |-> SubSeq(d, n + 1, Len(d))]
    BY <1>4 DEF Drop
  <2>2. b.gap + n \in Nat /\ (b.gap + n) + (Len(d) - n) <= size
    BY <1>1
  <2> QED BY <1>2, <2>1, <2>2 DEF Fits, Drops
<1> QED BY <1>3, <1>4

\* What comes is put behind what is there.
LEMMA ReadFills ==
  ASSUME NEW a, NEW u, NEW b, NEW k, NEW place \in {"fill", "form"},
         ReadsWell(place, a, u, b, k),
         NEW n \in Nat, n > 0, n <= Len(u), n <= room(b, BufferSize)
  PROVE  ReadsWell(IF place = "fill" THEN "parse" ELSE "form", a, SubSeq(u, n + 1, Len(u)),
                   [b EXCEPT !.data = @ \o SubSeq(u, 1, n)], k)
<1> DEFINE d  == b.data
           v  == SubSeq(u, n + 1, Len(u))
           e  == d \o SubSeq(u, 1, n)
           b2 == [b EXCEPT !.data = @ \o SubSeq(u, 1, n)]
<1>1. /\ a \in Seq(Request) /\ u \in Seq(Piece) /\ k \in Nat
      /\ b \in [gap : Nat, data : Seq(Piece)] /\ b.gap + Len(d) <= BufferSize
      /\ IsPrefix(d \o u, From(a, k + 1))
  BY DEF ReadsWell, Fits
<1>2. d \in Seq(Piece) /\ b.gap \in Nat /\ Len(d) \in Nat /\ BufferSize \in Nat
  BY <1>1, WebServerAssumption
<1>3. Keeps(Piece, d, u, n)
  <2>1. n \in 0..Len(u)
    BY <1>1
  <2> HIDE DEF d
  <2> QED BY <1>1, <1>2, <2>1, FillKeeps
<1>4. /\ v \in Seq(Piece) /\ e \in Seq(Piece) /\ Len(e) = Len(d) + n /\ e \o v = d \o u
  BY <1>3 DEF Keeps
<1>5. b2 = [gap |-> b.gap, data |-> e]
  <2>1. b2 = [b EXCEPT !.data = e]
    BY DEF b2
  <2>2. b = [gap |-> b.gap, data |-> b.data]
    BY <1>1
  <2> HIDE DEF e, b2
  <2> QED BY <2>1, <2>2
<1>6. n <= BufferSize - b.gap - Len(d)
  BY DEF room
<1> HIDE DEF d, v, e, b2
<1>7. b2.gap = b.gap /\ b2.data = e /\ b2 \in [gap : Nat, data : Seq(Piece)]
  BY <1>2, <1>4, <1>5
<1>8. b2.gap + Len(b2.data) <= BufferSize /\ Len(b2.data) > 0
  BY <1>2, <1>4, <1>6, <1>7
<1>9. IsPrefix(b2.data \o v, From(a, k + 1))
  BY <1>1, <1>4, <1>7
<1>10. ReadsWell(IF place = "fill" THEN "parse" ELSE "form", a, v, b2, k)
  BY <1>1, <1>4, <1>7, <1>8, <1>9 DEF ReadsWell, Fits
<1> QED BY <1>10 DEF v, b2, d

\* What the peer does not send any more.
LEMMA ReadCut ==
  ASSUME NEW a, NEW u, NEW b, NEW k, NEW place \in Places, ReadsWell(place, a, u, b, k),
         NEW n \in 0..Len(u)
  PROVE  ReadsWell(place, a, SubSeq(u, 1, n), b, k)
<1> DEFINE d == b.data
           v == SubSeq(u, 1, n)
<1>1. a \in Seq(Request) /\ u \in Seq(Piece) /\ k \in Nat /\ d \in Seq(Piece)
  BY DEF ReadsWell, Fits
<1>2. v \in Seq(Piece)
  <2>1. Keeps(Piece, d, u, n)
    <3> HIDE DEF d
    <3> QED BY <1>1, FillKeeps
  <2> QED BY <2>1 DEF Keeps
<1>3. ASSUME NEW j \in Nat, j >= 1, IsPrefix(d \o u, From(a, j))
      PROVE  IsPrefix(d \o v, From(a, j))
  <2> DEFINE t == From(a, j)
  <2>1. t \in Seq(Piece) /\ IsPrefix(d \o u, t)
    BY <1>1, <1>3, FromType
  <2> HIDE DEF t, d
  <2>2. IsPrefix(d \o SubSeq(u, 1, n), t)
    BY <1>1, <2>1, CutShort
  <2> QED BY <2>2 DEF t
<1>4. k + 1 \in Nat /\ k + 1 >= 1 /\ k + 2 \in Nat /\ k + 2 >= 1
  BY <1>1
<1>5. place \in {"hello", "fill", "parse", "form", "write"} => IsPrefix(d \o v, From(a, k + 1))
  BY <1>3, <1>4 DEF ReadsWell
<1>6. place = "route" => IsPrefix(d \o v, From(a, k + 2))
  BY <1>3, <1>4 DEF ReadsWell
<1> HIDE DEF v
<1>7. ReadsWell(place, a, v, b, k)
  BY <1>2, <1>5, <1>6 DEF ReadsWell
<1> QED BY <1>7 DEF v

\* The data begins with the next request, as much of it as there is.
LEMMA FirstIsNext ==
  ASSUME NEW a, NEW u, NEW b, NEW k, ReadsWell("form", a, u, b, k)
  PROVE  /\ k + 1 \in 1..Len(a) /\ a[k + 1] \in Request
         /\ b.data[1] = <<a[k + 1], 1>> /\ b.data[1][1] = a[k + 1]
         /\ From(a, k + 1) = Pieces(a[k + 1]) \o From(a, k + 2)
<1> DEFINE d == b.data
           q == From(a, k + 1)
<1>1. /\ a \in Seq(Request) /\ u \in Seq(Piece) /\ k \in Nat /\ d \in Seq(Piece)
      /\ Len(d) > 0 /\ IsPrefix(d \o u, q)
  BY DEF ReadsWell, Fits
<1>2. q \in Seq(Piece) /\ (k + 1 > Len(a) => q = <<>>)
  <2>1. k + 1 \in Nat /\ k + 1 >= 1
    BY <1>1
  <2> HIDE DEF Piece
  <2> QED BY <1>1, <2>1, FromType
<1> DEFINE p == d \o u
<1>3. p \in Seq(Piece) /\ Len(p) = Len(d) + Len(u) /\ p[1] = d[1]
  <2> HIDE DEF d, q, Piece
  <2>1. 1 \in 1..(Len(d) + Len(u)) /\ 1 <= Len(d)
    BY <1>1
  <2>2. d \o u \in Seq(Piece) /\ Len(d \o u) = Len(d) + Len(u)
    BY <1>1, ConcatProperties
  <2>3. (d \o u)[1] = d[1]
    BY <1>1, <2>1, ConcatProperties
  <2> QED BY <2>2, <2>3
<1> HIDE DEF p, q, d
<1>4. IsPrefix(p, q)
  BY <1>1 DEF p
<1>5. PICK w \in Seq(Piece) : Joined(p, w, q)
  BY <1>2, <1>3, <1>4, BeginningGoesOn
<1>6. Len(q) = Len(p) + Len(w) /\ q[1] = p[1]
  <2>1. 1 \in 1..(Len(p) + Len(w)) /\ 1 <= Len(p)
    BY <1>1, <1>3
  <2>2. p \in Seq(Piece)
    BY <1>3
  <2>3. Len(p \o w) = Len(p) + Len(w)
    BY <2>2, ConcatProperties
  <2>4. (p \o w)[1] = p[1]
    BY <2>1, <2>2, ConcatProperties
  <2> QED BY <1>5, <2>3, <2>4 DEF Joined
<1>7. k + 1 <= Len(a)
  <2>1. Len(q) > 0
    BY <1>1, <1>3, <1>6
  <2>2. q = <<>> => Len(q) = 0
    OBVIOUS
  <2>3. k + 1 > Len(a) \/ k + 1 <= Len(a)
    BY <1>1
  <2> QED BY <1>2, <2>1, <2>2, <2>3
<1>8. k + 1 \in 1..Len(a) /\ a[k + 1] \in Request
  <2>1. k + 1 \in 1..Len(a)
    BY <1>1, <1>7
  <2> HIDE DEF Request
  <2> QED BY <1>1, <2>1, ElementOfSeq
<1>9. From(a, k + 1) = Pieces(a[k + 1]) \o From(a, k + 2)
  <2>1. From(a, k + 1) = Pieces(a[k + 1]) \o From(a, (k + 1) + 1)
    BY <1>1, <1>8, FromHead
  <2>2. (k + 1) + 1 = k + 2
    BY <1>1
  <2> QED BY <2>1, <2>2
<1>10. q[1] = <<a[k + 1], 1>>
  <2> DEFINE x == Pieces(a[k + 1])
             y == From(a, k + 2)
  <2>1. x \in Seq(Piece) /\ Len(x) > 0 /\ x[1] = <<a[k + 1], 1>>
    BY <1>8, PiecesType, RequestType
  <2>2. y \in Seq(Piece)
    <3>1. k + 2 \in Nat /\ k + 2 >= 1
      BY <1>1
    <3> HIDE DEF Piece
    <3> QED BY <1>1, <3>1, FromType
  <2>3. q = x \o y
    BY <1>9 DEF q
  <2> HIDE DEF x, y
  <2>4. (x \o y)[1] = x[1]
    <3>1. 1 \in 1..(Len(x) + Len(y)) /\ 1 <= Len(x)
      BY <2>1, <2>2
    <3> QED BY <2>1, <2>2, <3>1, ConcatProperties
  <2> QED BY <2>1, <2>3, <2>4
<1>11. d[1] = <<a[k + 1], 1>>
  BY <1>3, <1>6, <1>10
<1> QED BY <1>8, <1>9, <1>11 DEF d

\* The request leaves the buffer whole.
LEMMA RequestLeaves ==
  ASSUME NEW a, NEW u, NEW b, NEW k, ReadsWell("form", a, u, b, k),
         NEW r, r = b.data[1][1], Len(b.data) >= r.head + r.form
  PROVE  r \in Request /\ ReadsWell("route", a, u, Drop(b, r.head + r.form), k)
<1> DEFINE m == r.head + r.form
           x == Pieces(r)
           y == From(a, k + 2)
           d == b.data
<1>1. r \in Request /\ From(a, k + 1) = x \o y
  BY FirstIsNext
<1>2. m \in Nat /\ m > 0
  BY <1>1, RequestType
<1>3. /\ a \in Seq(Request) /\ u \in Seq(Piece) /\ k \in Nat /\ d \in Seq(Piece)
      /\ IsPrefix(d \o u, From(a, k + 1)) /\ Fits(b, Piece, BufferSize)
      /\ b.gap \in Nat /\ b.gap + Len(d) <= BufferSize
  BY DEF ReadsWell, Fits
<1>4. x \in Seq(Piece) /\ Len(x) = m /\ y \in Seq(Piece)
  <2>1. x \in Seq(Piece) /\ Len(x) = m
    BY <1>1, PiecesType
  <2>2. k + 2 \in Nat /\ k + 2 >= 1
    BY <1>3
  <2>3. y \in Seq(Piece)
    <3> HIDE DEF Piece
    <3> QED BY <1>3, <2>2, FromType
  <2> QED BY <2>1, <2>3
<1>5. m <= Len(d) /\ IsPrefix(d \o u, x \o y) /\ Len(d) \in Nat
  <2>1. IsPrefix(d \o u, x \o y)
    BY <1>1, <1>3
  <2>2. Len(d) \in Nat /\ m <= Len(d)
    <3> HIDE DEF x, y, Piece
    <3> QED BY <1>2, <1>3
  <2> QED BY <2>1, <2>2
<1> HIDE DEF x, y, m, Piece
<1>6. Fits(Drop(b, m), Piece, BufferSize)
      /\ Drop(b, m).data = SubSeq(d, m + 1, Len(d)) /\ Len(Drop(b, m).data) = Len(d) - m
  <2>1. m <= Len(b.data) /\ BufferSize \in Nat /\ m \in Nat /\ Fits(b, Piece, BufferSize)
    BY <1>2, <1>3, <1>5, WebServerAssumption
  <2> HIDE DEF d
  <2>2. Drops(b, m, Piece, BufferSize)
    BY <2>1, DropFits
  <2> QED BY <2>2 DEF Drops, d
<1> HIDE DEF d
<1>7. SubSeq(d, 1, m) = x /\ IsPrefix(SubSeq(d, m + 1, Len(d)) \o u, y)
  BY <1>2, <1>3, <1>4, <1>5, DropBoth
<1>8. Len(Drop(b, m).data) < BufferSize
  BY <1>2, <1>3, <1>5, <1>6, WebServerAssumption, SMTT(20)
<1>9. IsPrefix(Drop(b, m).data \o u, From(a, k + 2))
  BY <1>6, <1>7 DEF y
<1>10. ReadsWell("route", a, u, Drop(b, m), k)
  BY <1>3, <1>6, <1>8, <1>9 DEF ReadsWell
<1> QED BY <1>1, <1>10 DEF m

\* The thread goes from one place to another, and its buffer stays.
LEMMA ReadMoves ==
  ASSUME NEW a, NEW u, NEW b, NEW k, NEW place, NEW there, ReadsWell(place, a, u, b, k),
         \/ place = "hello" /\ there = "fill"
         \/ place = "parse" /\ there = "form"
         \/ there \in {"bail", "end"}
  PROVE  ReadsWell(there, a, u, b, k)
BY DEF ReadsWell

LEMMA ReadAnswers ==
  ASSUME NEW a, NEW u, NEW b, NEW k, ReadsWell("route", a, u, b, k)
  PROVE  ReadsWell("write", a, u, b, k + 1)
<1>1. k \in Nat /\ k + 1 \in Nat /\ (k + 1) + 1 = k + 2
  BY DEF ReadsWell
<1> QED BY <1>1 DEF ReadsWell

\* makeRoom, before the thread reads on.
LEMMA ReadGoesOn ==
  ASSUME NEW a, NEW u, NEW b, NEW k, ReadsWell("write", a, u, b, k)
  PROVE  ReadsWell("fill", a, u, makeRoom(b), k)
<1>1. /\ b \in [gap : Nat, data : Seq(Piece)] /\ Len(b.data) < BufferSize
      /\ b.gap \in Nat /\ Len(b.data) \in Nat /\ BufferSize \in Nat
  BY WebServerAssumption DEF ReadsWell, Fits
<1>2. makeRoom(b) = [gap |-> 0, data |-> b.data]
  BY <1>1 DEF makeRoom
<1>3. Fits(makeRoom(b), Piece, BufferSize) /\ makeRoom(b).data = b.data /\ makeRoom(b).gap = 0
  BY <1>1, <1>2 DEF Fits
<1> QED BY <1>1, <1>3 DEF ReadsWell

\* A connection begins, and its thread has ended.
LEMMA ReadBegins ==
  ASSUME NEW c \in Client, NEW s \in Script[c]
  PROVE  ReadsWell("hello", s, Stream(s), Empty, 0)
<1>1. s \in Seq(Request) /\ Stream(s) \in Seq(Piece)
  BY ScriptType, StreamType
<1>2. SubSeq(s, 1, Len(s)) = s
  BY <1>1, SubSeqFull
<1>3. From(s, 0 + 1) = Stream(s)
  <2>1. 0 + 1 = 1
    OBVIOUS
  <2>2. From(s, 1) = Stream(s)
    BY <1>2 DEF From
  <2> QED BY <2>1, <2>2
<1> DEFINE u == Stream(s)
<1>4. <<>> \o u = u /\ u \o <<>> = u /\ u \in Seq(Piece) /\ <<>> \in Seq(Piece)
  BY <1>1, ConcatEmptySeq
<1> HIDE DEF u, Piece
<1>5. IsPrefix(u, u)
  BY <1>4, PrefixIff
<1>6. /\ Fits(Empty, Piece, BufferSize) /\ Empty.data = <<>> /\ Empty.gap = 0
  BY EmptyFits
<1>7. Empty.gap + Len(Empty.data) < BufferSize
  BY <1>6, WebServerAssumption
<1> QED BY <1>1, <1>3, <1>4, <1>5, <1>6, <1>7 DEF ReadsWell, u

LEMMA ReadFree == ReadsWell("free", <<>>, <<>>, Empty, 0)
BY EmptyFits DEF ReadsWell

-----------------------------------------------------------------------------
(* What a connection writes                                                 *)

Out   == Nat \X Nat
Count == Nat \cup {NoBody}

\* The size of a body, and n of its pieces behind the first ones.
BodySize(body)     == Max({body, 0})
BodyOf(k, from, n) == [i \in 1..n |-> <<k, from + i>>]

AnswersTo(rs) == FlattenSeq([k \in DOMAIN rs |-> Answer(k, rs[k])])

LEMMA BodyType ==
  ASSUME NEW k \in Nat, NEW from \in Nat, NEW n \in Nat
  PROVE  BodyOf(k, from, n) \in Seq(Out) /\ Len(BodyOf(k, from, n)) = n
<1>1. \A i \in 1..n : <<k, from + i>> \in Out
  BY DEF Out
<1> HIDE DEF Out
<1>2. BodyOf(k, from, n) \in [1..n -> Out]
  BY <1>1 DEF BodyOf
<1> QED BY <1>2

LEMMA BodySizeType ==
  ASSUME NEW body \in Count
  PROVE  BodySize(body) \in Nat
<1>1. body \in Int
  BY DEF Count, NoBody
<1>2. Max({body, 0}) = IF body >= 0 THEN body ELSE 0
  BY <1>1 DEF Max
<1> QED BY <1>1, <1>2 DEF BodySize

\* m pieces of a body, and the n behind them.
LEMMA BodySplit ==
  ASSUME NEW k \in Nat, NEW from \in Nat, NEW m \in Nat, NEW n \in Nat
  PROVE  Joined(BodyOf(k, from, m), BodyOf(k, from + m, n), BodyOf(k, from, m + n))
<1> DEFINE x == BodyOf(k, from, m)
           y == BodyOf(k, from + m, n)
           z == BodyOf(k, from, m + n)
<1>1. x \in Seq(Out) /\ Len(x) = m
  BY BodyType
<1>2. from + m \in Nat /\ m + n \in Nat
  OBVIOUS
<1>3. y \in Seq(Out) /\ Len(y) = n /\ z \in Seq(Out) /\ Len(z) = m + n
  BY <1>2, BodyType
<1>4. /\ \A i \in 1..m : x[i] = <<k, from + i>>
      /\ \A i \in 1..n : y[i] = <<k, (from + m) + i>>
      /\ \A i \in 1..(m + n) : z[i] = <<k, from + i>>
  BY DEF BodyOf
<1> HIDE DEF x, y, z, Out
<1> DEFINE w == x \o y
<1>5. /\ w \in Seq(Out) /\ Len(w) = m + n
      /\ \A i \in 1..(m + n) : w[i] = IF i <= m THEN x[i] ELSE y[i - m]
  BY <1>1, <1>3, ConcatProperties
<1>6. \A i \in 1..(m + n) : w[i] = z[i]
  <2> TAKE i \in 1..(m + n)
  <2> HIDE DEF w
  <2>1. CASE i <= m
    <3>1. i \in 1..m
      BY <2>1
    <3> QED BY <1>4, <1>5, <2>1, <3>1
  <2>2. CASE ~(i <= m)
    <3>1. i - m \in 1..n /\ (from + m) + (i - m) = from + i
      BY <2>2
    <3> QED BY <1>4, <1>5, <2>2, <3>1
  <2> QED BY <2>1, <2>2
<1> HIDE DEF w
<1>7. w = z
  BY <1>3, <1>5, <1>6, SeqEqual
<1> QED BY <1>7 DEF Joined, w, x, y, z

LEMMA AnswerType ==
  ASSUME NEW k \in Nat, NEW body \in Count
  PROVE  /\ Answer(k, body) \in Seq(Out) /\ <<<<k, 0>>>> \in Seq(Out)
         /\ Joined(<<<<k, 0>>>>, BodyOf(k, 0, BodySize(body)), Answer(k, body))
<1> DEFINE n == BodySize(body)
           x == <<<<k, 0>>>>
           y == BodyOf(k, 0, n)
           z == Answer(k, body)
<1>1. n \in Nat
  BY BodySizeType
<1>2. <<k, 0>> \in Out
  BY DEF Out
<1>3. y \in Seq(Out) /\ Len(y) = n
  <2> HIDE DEF n
  <2> QED BY <1>1, BodyType
<1>4. z = [i \in 1..(1 + n) |-> <<k, i - 1>>]
  BY DEF Answer, BodySize
<1> HIDE DEF n
<1>5. \A i \in 1..(1 + n) : <<k, i - 1>> \in Out
  BY <1>1 DEF Out
<1>6. \A i \in 1..n : y[i] = <<k, 0 + i>>
  BY DEF BodyOf
<1> HIDE DEF y, z, Out
<1>7. x \in Seq(Out) /\ Len(x) = 1 /\ x[1] = <<k, 0>>
  BY <1>2
<1>8. z \in Seq(Out) /\ Len(z) = 1 + n
  <2>1. z \in [1..(1 + n) -> Out] /\ 1 + n \in Nat
    BY <1>1, <1>4, <1>5
  <2> QED BY <2>1
<1> HIDE DEF x
<1> DEFINE w == x \o y
<1>9. /\ w \in Seq(Out) /\ Len(w) = 1 + n
      /\ \A i \in 1..(1 + n) : w[i] = IF i <= 1 THEN x[i] ELSE y[i - 1]
  <2>1. x \in Seq(Out) /\ y \in Seq(Out)
    BY <1>3, <1>7
  <2>2. /\ w \in Seq(Out) /\ Len(w) = Len(x) + Len(y)
        /\ \A i \in 1..(Len(x) + Len(y)) : w[i] = IF i <= Len(x) THEN x[i] ELSE y[i - Len(x)]
    BY <2>1, ConcatProperties
  <2> HIDE DEF w
  <2> QED BY <1>3, <1>7, <2>2
<1>10. \A i \in 1..(1 + n) : w[i] = z[i]
  <2> TAKE i \in 1..(1 + n)
  <2> HIDE DEF w
  <2>1. CASE i = 1
    BY <1>4, <1>7, <1>9, <2>1
  <2>2. CASE i # 1
    <3>1. i - 1 \in 1..n /\ 0 + (i - 1) = i - 1 /\ ~(i <= 1)
      BY <1>1, <2>2
    <3> QED BY <1>4, <1>6, <1>9, <3>1
  <2> QED BY <2>1, <2>2
<1> HIDE DEF w
<1>11. w = z
  BY <1>8, <1>9, <1>10, SeqEqual
<1> QED BY <1>7, <1>8, <1>11 DEF Joined, w, x, y, z, n

LEMMA AnswersToType ==
  ASSUME NEW rs \in Seq(Count)
  PROVE  AnswersTo(rs) \in Seq(Out)
<1> DEFINE n  == Len(rs)
           ss == [k \in 1..n |-> Answer(k, rs[k])]
<1>1. n \in Nat /\ DOMAIN rs = 1..n
  OBVIOUS
<1>2. \A k \in 1..n : Answer(k, rs[k]) \in Seq(Out)
  <2> TAKE k \in 1..n
  <2>1. rs[k] \in Count /\ k \in Nat
    BY <1>1, ElementOfSeq
  <2> QED BY <2>1, AnswerType
<1>3. ss \in [1..n -> Seq(Out)]
  BY <1>2
<1>4. AnswersTo(rs) = FlattenSeq(ss)
  BY <1>1 DEF AnswersTo
<1> HIDE DEF ss, n
<1>5. ss \in Seq(Seq(Out))
  BY <1>1, <1>3
<1> QED BY <1>4, <1>5, FlattenType

\* One more reply.
LEMMA AnswersAppend ==
  ASSUME NEW rs \in Seq(Count), NEW body \in Count
  PROVE  /\ Append(rs, body) \in Seq(Count) /\ Len(Append(rs, body)) = Len(rs) + 1
         /\ Last(Append(rs, body)) = body
         /\ Joined(AnswersTo(rs), Answer(Len(rs) + 1, body), AnswersTo(Append(rs, body)))
<1> DEFINE n  == Len(rs)
           t  == Append(rs, body)
           ss == [k \in 1..n |-> Answer(k, rs[k])]
           tt == [k \in 1..(n + 1) |-> Answer(k, t[k])]
<1>1. n \in Nat /\ DOMAIN rs = 1..n
  OBVIOUS
<1>2. /\ t \in Seq(Count) /\ Len(t) = n + 1 /\ DOMAIN t = 1..(n + 1) /\ t[n + 1] = body
      /\ \A k \in 1..n : t[k] = rs[k]
  <2> HIDE DEF Count
  <2> QED OBVIOUS
<1>3. Last(t) = body
  BY <1>2 DEF Last
<1> HIDE DEF t
<1>4. \A k \in 1..(n + 1) : Answer(k, t[k]) \in Seq(Out)
  <2> TAKE k \in 1..(n + 1)
  <2>1. k \in Nat /\ k \in 1..Len(t)
    BY <1>1, <1>2
  <2>2. t[k] \in Count
    BY <1>2, <2>1, ElementOfSeq
  <2> QED BY <2>1, <2>2, AnswerType
<1>5. \A k \in 1..n : k \in 1..(n + 1) /\ ss[k] = tt[k]
  <2> TAKE k \in 1..n
  <2>1. k \in 1..(n + 1)
    BY <1>1
  <2> QED BY <1>2, <2>1
<1>6. AnswersTo(rs) = FlattenSeq(ss) /\ AnswersTo(t) = FlattenSeq(tt)
  BY <1>1, <1>2 DEF AnswersTo
<1>7. tt \in [1..(n + 1) -> Seq(Out)] /\ tt[n + 1] = Answer(n + 1, body)
  <2>1. n + 1 \in 1..(n + 1)
    BY <1>1
  <2> QED BY <1>2, <1>4, <2>1
<1>8. ss \in [1..n -> Seq(Out)]
  <2>1. \A k \in 1..n : ss[k] \in Seq(Out)
    BY <1>5, <1>7
  <2> QED BY <2>1
<1> HIDE DEF ss, tt, n
<1>9. /\ ss \in Seq(Seq(Out)) /\ Len(ss) = n
      /\ tt \in Seq(Seq(Out)) /\ Len(tt) = n + 1
  <2>1. n + 1 \in Nat
    BY <1>1
  <2> QED BY <1>1, <1>7, <1>8, <2>1
<1>10. SameUpTo(n, ss, tt)
  BY <1>5 DEF SameUpTo
<1>11. FlattenSeq(tt) = FlattenSeq(ss) \o tt[n + 1]
  BY <1>1, <1>9, <1>10, FlattenAppend
<1>12. Joined(AnswersTo(rs), Answer(n + 1, body), AnswersTo(t))
  BY <1>6, <1>7, <1>11 DEF Joined
<1> QED BY <1>2, <1>3, <1>12 DEF t, n

\* What the peer has got and will get, at a place of the client thread: a
\* reply on its way lacks the pieces of its body that are not in the buffer.
WritesWell(place, o, t, rs, g) ==
  /\ Fits(o, Out, OutputSize) /\ t \in Nat /\ rs \in Seq(Count) /\ g \in Seq(Out)
  /\ IsPrefix(g, AnswersTo(rs))
  /\ place \notin {"write", "bail", "end"} => o = Empty /\ g = AnswersTo(rs)
  /\ place = "free" => rs = <<>>
  /\ place = "write" =>
       /\ Len(rs) > 0 /\ Last(rs) \in Count /\ t <= BodySize(Last(rs))
       /\ Joined(g \o o.data, BodyOf(Len(rs), t, BodySize(Last(rs)) - t), AnswersTo(rs))

\* The thread goes from one place to another without writing.
LEMMA WriteMoves ==
  ASSUME NEW o, NEW t, NEW rs, NEW g, NEW place, NEW there, WritesWell(place, o, t, rs, g),
         \/ /\ place \notin {"write", "bail", "end"}
            /\ there \notin {"free", "write"}
         \/ there \in {"bail", "end"}
  PROVE  WritesWell(there, o, t, rs, g)
BY DEF WritesWell

\* What is a beginning of what, when another part lies behind it.
LEMMA FirstOfThree ==
  ASSUME NEW S, NEW g \in Seq(S), NEW x \in Seq(S), NEW y \in Seq(S), NEW z \in Seq(S),
         Joined(g \o x, y, z)
  PROVE  IsPrefix(g, z)
<1> DEFINE w == x \o y
<1>1. w \in Seq(S)
  BY ConcatProperties
<1>2. Associates(g, x, y)
  BY ThreeJoin
<1>3. z = g \o w
  BY <1>2 DEF Joined, Associates
<1> HIDE DEF w
<1> QED BY <1>1, <1>3, PrefixIff

\* CS_serverDoReply puts the header into the empty buffer.
LEMMA WriteBegins ==
  ASSUME NEW o, NEW t, NEW rs, NEW g, WritesWell("route", o, t, rs, g), NEW body \in Count
  PROVE  WritesWell("write", [o EXCEPT !.data = Append(@, <<Len(rs) + 1, 0>>)], 0,
                    Append(rs, body), g)
<1> DEFINE k  == Len(rs) + 1
           h  == <<<<k, 0>>>>
           r2 == Append(rs, body)
           y  == BodyOf(k, 0, BodySize(body))
           o2 == [o EXCEPT !.data = Append(@, <<k, 0>>)]
<1>1. /\ o = Empty /\ g = AnswersTo(rs) /\ rs \in Seq(Count) /\ g \in Seq(Out) /\ k \in Nat
  BY DEF WritesWell
<1>2. /\ r2 \in Seq(Count) /\ Len(r2) = k /\ Last(r2) = body
      /\ Joined(g, Answer(k, body), AnswersTo(r2))
  BY <1>1, AnswersAppend
<1>3. h \in Seq(Out) /\ Joined(h, y, Answer(k, body)) /\ Answer(k, body) \in Seq(Out)
  <2> HIDE DEF k
  <2> QED BY <1>1, AnswerType
<1>4. BodySize(body) \in Nat
  BY BodySizeType
<1>5. y \in Seq(Out)
  <2> HIDE DEF k
  <2> QED BY <1>1, <1>4, BodyType
<1>6. AnswersTo(r2) \in Seq(Out)
  BY <1>2, AnswersToType
<1>7. o2.data = h /\ o2 = [gap |-> 0, data |-> h]
  <2> DEFINE p == <<k, 0>>
  <2>1. o = [gap |-> 0, data |-> <<>>]
    BY <1>1 DEF Empty
  <2> HIDE DEF p
  <2>2. Append(<<>>, p) = <<p>>
    OBVIOUS
  <2>3. [o EXCEPT !.data = Append(@, p)] = [gap |-> 0, data |-> Append(<<>>, p)]
    BY <2>1
  <2>4. [o EXCEPT !.data = Append(@, p)] = [gap |-> 0, data |-> <<p>>]
    BY <2>2, <2>3
  <2> QED BY <2>4 DEF p
<1>8. Fits(o2, Out, OutputSize)
  <2>1. Len(h) = 1
    OBVIOUS
  <2> HIDE DEF h, o2
  <2> QED BY <1>3, <1>7, <2>1, WebServerAssumption DEF Fits
<1> HIDE DEF h, r2, y, o2, k
<1>9. Joined(g \o h, y, AnswersTo(r2))
  <2>1. Associates(g, h, y)
    BY <1>1, <1>3, <1>5, ThreeJoin
  <2> QED BY <1>2, <1>3, <2>1 DEF Joined, Associates
<1>10. IsPrefix(g, AnswersTo(r2))
  BY <1>1, <1>3, <1>5, <1>6, <1>9, FirstOfThree
<1>11. BodySize(body) - 0 = BodySize(body) /\ 0 <= BodySize(body) /\ k > 0
  <2>1. k > 0
    BY <1>1 DEF k
  <2> QED BY <1>4, <2>1
<1>12. WritesWell("write", o2, 0, r2, g)
  BY <1>1, <1>2, <1>7, <1>8, <1>9, <1>10, <1>11 DEF WritesWell, y
<1> QED BY <1>12 DEF o2, r2, k

\* As much of the body as fits goes behind what is in the buffer.
LEMMA WriteFillsUp ==
  ASSUME NEW o, NEW t, NEW rs, NEW g, WritesWell("write", o, t, rs, g),
         NEW m \in Nat, m <= BodySize(Last(rs)) - t, m <= room(o, OutputSize)
  PROVE  WritesWell("write", [o EXCEPT !.data = @ \o BodyOf(Len(rs), t, m)], t + m, rs, g)
<1> DEFINE k  == Len(rs)
           n  == BodySize(Last(rs)) - t - m
           d  == o.data
           x  == BodyOf(k, t, m)
           y  == BodyOf(k, t + m, n)
           z  == BodyOf(k, t, m + n)
           o2 == [o EXCEPT !.data = @ \o BodyOf(Len(rs), t, m)]
<1>1. /\ rs \in Seq(Count) /\ g \in Seq(Out) /\ t \in Nat /\ Last(rs) \in Count
      /\ o \in [gap : Nat, data : Seq(Out)] /\ o.gap + Len(d) <= OutputSize
      /\ Len(rs) > 0 /\ t <= BodySize(Last(rs))
  BY DEF WritesWell, Fits
<1>2. k \in Nat /\ BodySize(Last(rs)) \in Nat
  BY <1>1, BodySizeType
<1>3. /\ n \in Nat /\ t + m \in Nat /\ BodySize(Last(rs)) - t = m + n
      /\ n = BodySize(Last(rs)) - (t + m) /\ t + m <= BodySize(Last(rs)) /\ m + n \in Nat
  BY <1>1, <1>2
<1>4. d \in Seq(Out) /\ o.gap \in Nat /\ Len(d) \in Nat
  BY <1>1
<1>5. Joined(g \o d, z, AnswersTo(rs))
  BY <1>3 DEF WritesWell
<1> HIDE DEF k, n
<1>6. x \in Seq(Out) /\ Len(x) = m /\ y \in Seq(Out) /\ z \in Seq(Out)
  BY <1>1, <1>2, <1>3, BodyType
<1>7. Joined(x, y, z)
  BY <1>1, <1>2, <1>3, BodySplit
<1>8. AnswersTo(rs) \in Seq(Out)
  BY <1>1, AnswersToType
<1> DEFINE e == d \o x
<1>9. o2 = [gap |-> o.gap, data |-> e]
  <2>1. o2 = [o EXCEPT !.data = e]
    BY DEF k
  <2>2. o = [gap |-> o.gap, data |-> o.data]
    BY <1>1
  <2> HIDE DEF o2, e
  <2> QED BY <2>1, <2>2
<1> HIDE DEF x, y, z, d, o2
<1>10. e \in Seq(Out) /\ Len(e) = Len(d) + Len(x) /\ g \o d \in Seq(Out)
  BY <1>1, <1>4, <1>6, ConcatProperties
<1>11. (g \o d) \o x = g \o e
  <2>1. Associates(g, d, x)
    BY <1>1, <1>4, <1>6, ThreeJoin
  <2> QED BY <2>1 DEF Associates
<1>12. Joined(g \o e, y, AnswersTo(rs))
  <2>1. Associates(g \o d, x, y)
    BY <1>6, <1>10, ThreeJoin
  <2> QED BY <1>5, <1>7, <1>11, <2>1 DEF Joined, Associates
<1> HIDE DEF e
<1>13. o2.data = e /\ o2.gap = o.gap /\ o2 \in [gap : Nat, data : Seq(Out)]
  BY <1>4, <1>9, <1>10
<1>14. o2.gap + Len(o2.data) <= OutputSize
  <2>1. m <= OutputSize - o.gap - Len(d)
    BY DEF room, d
  <2> QED BY <1>4, <1>6, <1>10, <1>13, <2>1, WebServerAssumption
<1>15. IsPrefix(g, AnswersTo(rs))
  BY DEF WritesWell
<1>16. Joined(g \o o2.data, BodyOf(Len(rs), t + m, BodySize(Last(rs)) - (t + m)), AnswersTo(rs))
  BY <1>3, <1>12, <1>13 DEF y, k
<1>17. WritesWell("write", o2, t + m, rs, g)
  BY <1>1, <1>3, <1>13, <1>14, <1>15, <1>16 DEF WritesWell, Fits
<1> QED BY <1>17 DEF o2

\* The first n pieces of the buffer go out.
LEMMA WriteSends ==
  ASSUME NEW o, NEW t, NEW rs, NEW g, WritesWell("write", o, t, rs, g),
         NEW n \in Nat, n <= Len(o.data)
  PROVE  WritesWell("write", Drop(o, n), t, rs, g \o SubSeq(o.data, 1, n))
<1> DEFINE d == o.data
           a == SubSeq(d, 1, n)
           e == SubSeq(d, n + 1, Len(d))
           h == g \o a
           y == BodyOf(Len(rs), t, BodySize(Last(rs)) - t)
<1>1. /\ rs \in Seq(Count) /\ g \in Seq(Out) /\ t \in Nat /\ Last(rs) \in Count
      /\ Fits(o, Out, OutputSize) /\ d \in Seq(Out) /\ Len(d) \in Nat /\ n \in 0..Len(d)
      /\ Len(rs) \in Nat /\ Len(rs) > 0 /\ t <= BodySize(Last(rs))
      /\ Joined(g \o d, y, AnswersTo(rs))
  BY DEF WritesWell, Fits
<1>2. y \in Seq(Out)
  <2>1. BodySize(Last(rs)) - t \in Nat
    BY <1>1, BodySizeType
  <2> HIDE DEF Out
  <2> QED BY <1>1, <2>1, BodyType
<1>3. AnswersTo(rs) \in Seq(Out)
  BY <1>1, AnswersToType
<1>4. Drops(o, n, Out, OutputSize)
  <2>1. OutputSize \in Nat
    BY WebServerAssumption
  <2> QED BY <1>1, <2>1, DropFits
<1>5. Keeps(Out, g, d, n)
  <2> HIDE DEF d, Out, y
  <2> QED BY <1>1, FillKeeps
<1>6. h \in Seq(Out) /\ e \in Seq(Out) /\ h \o e = g \o d
  BY <1>5 DEF Keeps
<1> HIDE DEF y, h, e
<1>7. Joined(h \o e, y, AnswersTo(rs))
  BY <1>1, <1>6
<1>8. IsPrefix(h, AnswersTo(rs))
  <2> HIDE DEF Out, d
  <2> QED BY <1>2, <1>3, <1>6, <1>7, FirstOfThree
<1>9. Fits(Drop(o, n), Out, OutputSize) /\ Drop(o, n).data = e
  BY <1>4 DEF Drops, e
<1>10. WritesWell("write", Drop(o, n), t, rs, h)
  BY <1>1, <1>6, <1>7, <1>8, <1>9 DEF WritesWell, y
<1> QED BY <1>10 DEF h

\* All of the reply is out.
LEMMA WriteEnds ==
  ASSUME NEW o, NEW t, NEW rs, NEW g, WritesWell("write", o, t, rs, g), o = Empty,
         t = BodySize(Last(rs))
  PROVE  WritesWell("fill", o, 0, rs, g)
<1>1. g \in Seq(Out) /\ BodySize(Last(rs)) \in Nat
  BY BodySizeType DEF WritesWell
<1>2. BodySize(Last(rs)) - t = 0 /\ o.data = <<>>
  BY <1>1 DEF Empty
<1>3. BodyOf(Len(rs), t, 0) = <<>>
  BY DEF BodyOf
<1>4. (g \o <<>>) \o <<>> = g
  <2> HIDE DEF Out
  <2>1. g \o <<>> = g
    BY <1>1, ConcatEmptySeq
  <2> QED BY <2>1
<1>5. g = AnswersTo(rs)
  BY <1>2, <1>3, <1>4 DEF WritesWell, Joined
<1> QED BY <1>5 DEF WritesWell

\* A reply is given up, or the connection ends.
LEMMA WriteGivesUp ==
  ASSUME NEW o, NEW t, NEW rs, NEW g, NEW place, WritesWell(place, o, t, rs, g)
  PROVE  WritesWell("bail", o, 0, rs, g)
BY DEF WritesWell

\* A connection begins, and its thread has ended.
LEMMA WriteFree ==
  ASSUME NEW t \in Nat
  PROVE  WritesWell("free", Empty, t, <<>>, <<>>)
<1>1. AnswersTo(<<>>) = <<>>
  BY DEF AnswersTo, FlattenSeq
<1>2. <<>> \in Seq(Out) /\ <<>> \in Seq(Count) /\ <<>> \o <<>> = <<>>
  BY ConcatEmptySeq
<1>3. IsPrefix(<<>>, <<>>)
  BY <1>2, PrefixIff
<1> QED BY <1>1, <1>2, <1>3, EmptyFits DEF WritesWell


-----------------------------------------------------------------------------
(* What is kept of each connection                                          *)

Functions ==
  /\ DOMAIN pc = Client /\ DOMAIN peer = Client
  /\ DOMAIN asked = Client /\ DOMAIN unread = Client
  /\ DOMAIN buffer = Client /\ DOMAIN serving = Client
  /\ DOMAIN output = Client /\ DOMAIN taken = Client /\ DOMAIN ends = Client
  /\ DOMAIN replies = Client /\ DOMAIN got = Client

Connection(c) ==
  /\ ReadsWell(pc[c], asked[c], unread[c], buffer[c], Len(replies[c]))
  /\ WritesWell(pc[c], output[c], taken[c], replies[c], got[c])
  /\ pc[c] = "route" => serving[c] \in Request
  /\ peer[c] \in {"there", "closed", "reset"}

Connected == Functions /\ \A c \in Client : Connection(c)

\* A step of one connection.
Only(c) ==
  /\ Functions'
  /\ \A d \in Client \ {c} :
       /\ pc'[d] = pc[d] /\ peer'[d] = peer[d] /\ asked'[d] = asked[d]
       /\ unread'[d] = unread[d] /\ buffer'[d] = buffer[d] /\ serving'[d] = serving[d]
       /\ output'[d] = output[d] /\ taken'[d] = taken[d]
       /\ replies'[d] = replies[d] /\ got'[d] = got[d]

LEMMA OneMoves ==
  ASSUME Connected, NEW c \in Client, Only(c), Connection(c)'
  PROVE  Connected'
<1>1. ASSUME NEW d \in Client \ {c} PROVE Connection(d)'
  BY <1>1 DEF Only, Connected, Connection
<1> QED BY <1>1 DEF Only, Connected

LEMMA NoneMoves ==
  ASSUME Connected, UNCHANGED <<pc, peer, request, reply>>
  PROVE  Connected'
BY DEF Connected, Connection, Functions, request, reply

LEMMA LesserOfTwo ==
  ASSUME NEW x \in Int, NEW y \in Int
  PROVE  Min({x, y}) = IF x <= y THEN x ELSE y
BY DEF Min

\* Reading fills the buffer.
LEMMA Filling ==
  ASSUME Connected, NEW c \in Client, NEW place \in {"fill", "form"}, pc[c] = place,
         NEW n \in 1..BufferSize, Fill(c, n)
  PROVE  ReadsWell(IF place = "fill" THEN "parse" ELSE "form", asked[c], unread'[c],
                   buffer'[c], Len(replies[c]))
<1> DEFINE b == buffer[c]
           u == unread[c]
<1>1. /\ ReadsWell(place, asked[c], u, b, Len(replies[c]))
      /\ DOMAIN buffer = Client /\ DOMAIN unread = Client
  BY DEF Connected, Connection, Functions
<1>2. b.gap \in Nat /\ Len(b.data) \in Nat /\ Len(u) \in Nat
  BY <1>1 DEF ReadsWell, Fits
<1>3. n <= Len(u) /\ n <= room(b, BufferSize) /\ n \in Nat /\ n > 0
  <2>1. room(b, BufferSize) \in Int /\ Len(u) \in Int /\ n \in Nat /\ n > 0
    BY <1>2, WebServerAssumption DEF room
  <2>2. n <= Min({room(b, BufferSize), Len(u)})
    BY DEF Fill
  <2> HIDE DEF b, u
  <2> QED BY <2>1, <2>2, LesserOfTwo
<1>4. /\ unread'[c] = SubSeq(u, n + 1, Len(u))
      /\ buffer'[c] = [b EXCEPT !.data = @ \o SubSeq(u, 1, n)]
  BY <1>1 DEF Fill
<1> HIDE DEF b, u
<1>5. ReadsWell(IF place = "fill" THEN "parse" ELSE "form", asked[c],
                SubSeq(u, n + 1, Len(u)), [b EXCEPT !.data = @ \o SubSeq(u, 1, n)],
                Len(replies[c]))
  BY <1>1, <1>3, ReadFills
<1> QED BY <1>4, <1>5

LEMMA ReadingSteps ==
  ASSUME Inv, Connected, NEW c \in Client,
         \/ Hello(c) \/ FillIncoming(c) \/ FillEnds(c) \/ Malformed(c) \/ Parse(c)
         \/ FormFills(c) \/ FormFails(c) \/ RequestIn(c)
  PROVE  Connected'
<1> USE DEF Reads, reply
<1>0. /\ Functions /\ Connection(c) /\ pc \in [Client -> Places]
  BY DEF Connected, Inv, Types
\* The thread only goes to another place.
<1>1. ASSUME NEW there \in {"fill", "form", "bail"}, Goto(c, there),
             UNCHANGED <<Reads, serving, unread, buffer>>,
             \/ pc[c] = "hello" /\ there = "fill"
             \/ pc[c] = "parse" /\ there = "form"
             \/ there = "bail"
      PROVE  Connected'
  <2>1. Only(c) /\ pc'[c] = there
    BY <1>0, <1>1 DEF Only, Functions, Goto
  <2>2. ReadsWell(there, asked[c], unread[c], buffer[c], Len(replies[c]))
    BY <1>0, <1>1, ReadMoves DEF Connection
  <2>3. WritesWell(there, output[c], taken[c], replies[c], got[c])
    BY <1>0, <1>1, WriteMoves DEF Connection
  <2>4. Connection(c)'
    BY <1>0, <1>1, <2>1, <2>2, <2>3 DEF Connection
  <2> QED BY <2>1, <2>4, OneMoves
<1>2. ASSUME Hello(c) PROVE Connected'
  BY <1>1, <1>2 DEF Hello
<1>3. ASSUME FillIncoming(c) PROVE Connected'
  <2>1. PICK n \in 1..BufferSize : Fill(c, n)
    BY <1>3 DEF FillIncoming
  <2>2. pc[c] = "fill" /\ Goto(c, "parse") /\ UNCHANGED <<Reads, serving>>
    BY <1>3 DEF FillIncoming
  <2>3. Only(c) /\ pc'[c] = "parse"
    BY <1>0, <2>1, <2>2 DEF Only, Functions, Goto, Fill
  <2>4. ReadsWell("parse", asked[c], unread'[c], buffer'[c], Len(replies[c]))
    BY <2>1, <2>2, Filling
  <2>5. WritesWell("parse", output[c], taken[c], replies[c], got[c])
    BY <1>0, <2>2, WriteMoves DEF Connection
  <2>6. Connection(c)'
    BY <1>0, <2>2, <2>3, <2>4, <2>5 DEF Connection
  <2> QED BY <2>3, <2>6, OneMoves
<1>4. ASSUME FillEnds(c) PROVE Connected'
  BY <1>1, <1>4 DEF FillEnds
<1>5. ASSUME Malformed(c) PROVE Connected'
  BY <1>1, <1>5 DEF Malformed
<1>6. ASSUME Parse(c) PROVE Connected'
  BY <1>1, <1>6 DEF Parse
<1>7. ASSUME FormFills(c) PROVE Connected'
  <2>1. PICK n \in 1..BufferSize : Fill(c, n)
    BY <1>7 DEF FormFills
  <2>2. pc[c] = "form" /\ UNCHANGED <<Reads, serving, pc>>
    BY <1>7 DEF FormFills
  <2>3. Only(c)
    BY <1>0, <2>1, <2>2 DEF Only, Functions, Fill
  <2>4. ReadsWell("form", asked[c], unread'[c], buffer'[c], Len(replies[c]))
    BY <2>1, <2>2, Filling
  <2>5. Connection(c)'
    BY <1>0, <2>2, <2>4 DEF Connection
  <2> QED BY <2>3, <2>5, OneMoves
<1>8. ASSUME FormFails(c) PROVE Connected'
  BY <1>1, <1>8 DEF FormFails
<1>9. ASSUME RequestIn(c) PROVE Connected'
  <2> DEFINE r == First(c)
             n == r.head + r.form
  <2>1. /\ pc[c] = "form" /\ Goto(c, "route") /\ UNCHANGED <<Reads, unread>>
        /\ serving' = [serving EXCEPT ![c] = r]
        /\ buffer' = [buffer EXCEPT ![c] = Drop(@, n)]
        /\ Len(buffer[c].data) >= n
    BY <1>9 DEF RequestIn, WholeRequestIn
  <2>2. r = buffer[c].data[1][1]
    BY DEF First
  <2> HIDE DEF r
  <2>3. r \in Request
        /\ ReadsWell("route", asked[c], unread[c], Drop(buffer[c], n), Len(replies[c]))
    BY <1>0, <2>1, <2>2, RequestLeaves DEF Connection
  <2> HIDE DEF n
  <2>4. /\ Only(c) /\ pc'[c] = "route" /\ serving'[c] = r /\ buffer'[c] = Drop(buffer[c], n)
    BY <1>0, <2>1 DEF Only, Functions, Goto
  <2>5. WritesWell("route", output[c], taken[c], replies[c], got[c])
    BY <1>0, <2>1, WriteMoves DEF Connection
  <2>6. Connection(c)'
    BY <1>0, <2>1, <2>3, <2>4, <2>5 DEF Connection
  <2> QED BY <2>4, <2>6, OneMoves
<1> QED BY <1>2, <1>3, <1>4, <1>5, <1>6, <1>7, <1>8, <1>9

LEMMA RoutingSteps ==
  ASSUME Inv, Connected, NEW c \in Client,
         FilterRefuses(c) \/ RouteTakes(c) \/ RouteHangsUp(c) \/ NoRoute(c)
  PROVE  Connected'
<1> USE DEF Routing
<1>0. /\ Functions /\ Connection(c) /\ pc \in [Client -> Places] /\ pc[c] = "route"
  BY DEF Connected, Inv, Types, FilterRefuses, RouteTakes, RouteHangsUp, NoRoute
<1>1. ASSUME NEW body \in Count, NEW close, Replies(c, body, close), Routing' = Routing
      PROVE  Connected'
  <2> DEFINE rs == replies[c]
             o2 == [output[c] EXCEPT !.data = Append(@, <<Len(rs) + 1, 0>>)]
  <2>1. /\ Goto(c, "write") /\ UNCHANGED <<serving, got, Routing>>
        /\ replies' = [replies EXCEPT ![c] = Append(@, body)]
        /\ taken' = [taken EXCEPT ![c] = 0] /\ ends' = [ends EXCEPT ![c] = close]
        /\ output' = [output EXCEPT ![c].data = Append(@, <<Len(replies[c]) + 1, 0>>)]
    BY <1>1 DEF Replies
  <2>2. /\ pc'[c] = "write" /\ replies'[c] = Append(rs, body) /\ taken'[c] = 0
        /\ output'[c] = o2
    BY <1>0, <2>1 DEF Functions, Goto
  <2>3. Only(c)
    BY <1>0, <2>1 DEF Only, Functions, Goto
  <2>4. WritesWell("write", o2, 0, Append(rs, body), got[c])
    BY <1>0, WriteBegins DEF Connection
  <2>5. ReadsWell("write", asked[c], unread[c], buffer[c], Len(rs) + 1)
    BY <1>0, ReadAnswers DEF Connection
  <2>6. Len(Append(rs, body)) = Len(rs) + 1
    <3>1. rs \in Seq(Count)
      BY <1>0 DEF Connection, WritesWell
    <3> HIDE DEF Count, rs
    <3> QED BY <3>1
  <2> HIDE DEF o2, rs
  <2>7. Connection(c)'
    BY <1>0, <2>1, <2>2, <2>4, <2>5, <2>6 DEF Connection
  <2> QED BY <2>3, <2>7, OneMoves
<1>2. ASSUME ReturnRequest(c), Goto(c, "bail"), UNCHANGED <<peer, asked, unread, buffer, reply>>
      PROVE  Connected'
  <2>1. Only(c) /\ pc'[c] = "bail"
    BY <1>0, <1>2 DEF Only, Functions, Goto, ReturnRequest, reply
  <2>2. ReadsWell("bail", asked[c], unread[c], buffer[c], Len(replies[c]))
    BY <1>0, ReadMoves DEF Connection
  <2>3. WritesWell("bail", output[c], taken[c], replies[c], got[c])
    BY <1>0, WriteMoves DEF Connection
  <2>4. Connection(c)'
    BY <1>0, <1>2, <2>1, <2>2, <2>3 DEF Connection, reply
  <2> QED BY <2>1, <2>4, OneMoves
<1>3. 1 \in Count /\ Body[serving[c].uri] \in Count
  <2>1. serving[c] \in Request
    BY <1>0 DEF Connection
  <2>2. serving[c].uri \in DOMAIN Body
    BY <2>1, RequestType
  <2> QED BY <2>2, WebServerAssumption DEF Count
<1>4. ASSUME FilterRefuses(c) PROVE Connected'
  BY <1>1, <1>2, <1>3, <1>4 DEF FilterRefuses, Quits
<1>5. ASSUME RouteTakes(c) PROVE Connected'
  BY <1>1, <1>2, <1>3, <1>5 DEF RouteTakes, Quits
<1>6. ASSUME RouteHangsUp(c) PROVE Connected'
  BY <1>2, <1>6 DEF RouteHangsUp
<1>7. ASSUME NoRoute(c) PROVE Connected'
  BY <1>1, <1>3, <1>7 DEF NoRoute
<1> QED BY <1>4, <1>5, <1>6, <1>7

\* The output buffer with as much of the body as fits.
LEMMA FillingUp ==
  ASSUME Connected, NEW c \in Client, pc[c] = "write"
  PROVE  /\ WritesWell("write", Filled(c), taken[c] + Fitting(c), replies[c], got[c])
         /\ Len(Filled(c).data) \in Nat /\ BodyLength(c) = BodySize(Last(replies[c]))
<1> DEFINE o  == output[c]
           t  == taken[c]
           rs == replies[c]
           m  == Fitting(c)
<1>1. WritesWell("write", o, t, rs, got[c])
  BY DEF Connected, Connection
<1>2. /\ t \in Nat /\ Last(rs) \in Count /\ t <= BodySize(Last(rs))
      /\ o.gap \in Nat /\ Len(o.data) \in Nat /\ o.gap + Len(o.data) <= OutputSize
  BY <1>1 DEF WritesWell, Fits
<1>3. BodySize(Last(rs)) \in Nat /\ BodyLength(c) = BodySize(Last(rs))
  BY <1>2, BodySizeType DEF BodyLength, BodySize
<1>4. m \in Nat /\ m <= BodySize(Last(rs)) - t /\ m <= room(o, OutputSize)
  <2> DEFINE x == BodySize(Last(rs)) - t
             y == room(o, OutputSize)
  <2>1. x \in Nat /\ y \in Nat
    BY <1>2, <1>3, WebServerAssumption, SMTT(20) DEF room
  <2>2. m = Min({x, y})
    BY <1>3 DEF Fitting
  <2> HIDE DEF x, y, m
  <2>3. m = IF x <= y THEN x ELSE y
    BY <2>1, <2>2, LesserOfTwo
  <2>4. m \in Nat /\ m <= x /\ m <= y
    BY <2>1, <2>3
  <2> QED BY <2>4 DEF x, y
<1>5. Filled(c) = [o EXCEPT !.data = @ \o BodyOf(Len(rs), t, m)]
  BY DEF Filled, BodyOf
<1> HIDE DEF o, t, rs, m
<1>6. WritesWell("write", Filled(c), t + m, rs, got[c])
  BY <1>1, <1>4, <1>5, WriteFillsUp, SMTT(20)
<1>7. Len(Filled(c).data) \in Nat
  BY <1>6 DEF WritesWell, Fits
<1> QED BY <1>3, <1>6, <1>7 DEF t, m, rs

LEMMA WritingSteps ==
  ASSUME Inv, Connected, NEW c \in Client, WriteReply(c) \/ WriteFails(c)
  PROVE  Connected'
<1> DEFINE f  == Filled(c)
           m  == taken[c] + Fitting(c)
           rs == replies[c]
<1>0. /\ Functions /\ Connection(c) /\ pc \in [Client -> Places] /\ pc[c] = "write"
  BY DEF Connected, Inv, Types, WriteReply, WriteFails
<1>1. WritesWell("write", f, m, rs, got[c]) /\ Len(f.data) \in Nat
      /\ BodyLength(c) = BodySize(Last(rs))
  BY <1>0, FillingUp
<1>2. ASSUME WriteReply(c) PROVE Connected'
  <2>1. PICK n \in 1..Len(f.data) :
          /\ got' = [got EXCEPT ![c] = @ \o SubSeq(f.data, 1, n)]
          /\ output' = [output EXCEPT ![c] = Drop(f, n)]
          /\ IF m = BodyLength(c) /\ output'[c] = Empty
             THEN ReplyDone(c, ends[c]) ELSE ReplyGoesOn(c, m)
    BY <1>2 DEF WriteReply
  <2>2. UNCHANGED <<peer, asked, unread, replies>>
    BY <1>2 DEF WriteReply, Writes
  <2>3. /\ got'[c] = got[c] \o SubSeq(f.data, 1, n) /\ output'[c] = Drop(f, n)
        /\ n \in Nat /\ n <= Len(f.data)
    BY <1>0, <1>1, <2>1 DEF Functions
  <2> HIDE DEF f, m, rs
  <2>4. WritesWell("write", output'[c], m, rs, got'[c])
    <3>1. WritesWell("write", Drop(f, n), m, rs, got[c] \o SubSeq(f.data, 1, n))
      BY <1>1, <2>3, WriteSends
    <3> QED BY <2>3, <3>1
  <2>5. CASE m = BodyLength(c) /\ output'[c] = Empty
    <3>1. ReplyDone(c, ends[c])
      BY <2>1, <2>5
    <3>2. Only(c) /\ taken'[c] = 0
      BY <1>0, <2>1, <2>2, <3>1 DEF Only, Functions, Goto, ReplyDone, ReturnRequest
    <3>3. \/ pc'[c] = "bail" /\ buffer'[c] = buffer[c]
          \/ pc'[c] = "fill" /\ buffer'[c] = makeRoom(buffer[c])
      BY <1>0, <3>1 DEF Functions, Goto, ReplyDone
    <3>4. WritesWell("fill", output'[c], 0, rs, got'[c])
      BY <1>1, <2>4, <2>5, WriteEnds
    <3>5. WritesWell("bail", output'[c], 0, rs, got'[c])
      BY <2>4, WriteGivesUp
    <3>6. ReadsWell("bail", asked[c], unread[c], buffer[c], Len(rs))
      BY <1>0, ReadMoves DEF Connection, rs
    <3>7. ReadsWell("fill", asked[c], unread[c], makeRoom(buffer[c]), Len(rs))
      BY <1>0, ReadGoesOn DEF Connection, rs
    <3>8. Connection(c)'
      BY <1>0, <2>2, <3>2, <3>3, <3>4, <3>5, <3>6, <3>7 DEF Connection, rs
    <3> QED BY <3>2, <3>8, OneMoves
  <2>6. CASE ~(m = BodyLength(c) /\ output'[c] = Empty)
    <3>1. ReplyGoesOn(c, m)
      BY <2>1, <2>6
    <3>2. /\ Only(c) /\ taken'[c] = m /\ pc'[c] = "write" /\ buffer'[c] = buffer[c]
      BY <1>0, <2>1, <2>2, <3>1 DEF Only, Functions, ReplyGoesOn
    <3>3. Connection(c)'
      BY <1>0, <2>2, <2>4, <3>2 DEF Connection, rs
    <3> QED BY <3>2, <3>3, OneMoves
  <2> QED BY <2>5, <2>6
<1>3. ASSUME WriteFails(c) PROVE Connected'
  <2>1. /\ output' = [output EXCEPT ![c] = f] /\ ReplyDone(c, TRUE)
        /\ UNCHANGED <<peer, asked, unread, replies, got>>
    BY <1>3 DEF WriteFails, Writes
  <2> HIDE DEF f, m, rs
  <2>2. /\ Only(c) /\ taken'[c] = 0 /\ pc'[c] = "bail" /\ buffer'[c] = buffer[c]
        /\ output'[c] = f
    BY <1>0, <2>1 DEF Only, Functions, Goto, ReplyDone, ReturnRequest
  <2>3. WritesWell("bail", f, 0, rs, got[c])
    BY <1>1, WriteGivesUp
  <2>4. ReadsWell("bail", asked[c], unread[c], buffer[c], Len(rs))
    BY <1>0, ReadMoves DEF Connection, rs
  <2>5. Connection(c)'
    BY <1>0, <2>1, <2>2, <2>3, <2>4 DEF Connection, rs
  <2> QED BY <2>2, <2>5, OneMoves
<1> QED BY <1>2, <1>3

LEMMA EndingSteps ==
  ASSUME Inv, Connected, NEW c \in Client,
         KillClientSocket(c) \/ ClientEnds(c) \/ PeerLeaves(c)
  PROVE  Connected'
<1>0. /\ Functions /\ Connection(c) /\ pc \in [Client -> Places]
  BY DEF Connected, Inv, Types
<1>1. ASSUME KillClientSocket(c) PROVE Connected'
  <2>1. Goto(c, "end") /\ UNCHANGED <<peer, request, reply>> /\ pc[c] = "bail"
    BY <1>1 DEF KillClientSocket
  <2>2. Only(c) /\ pc'[c] = "end"
    BY <1>0, <2>1 DEF Only, Functions, Goto, request, reply
  <2>3. ReadsWell("end", asked[c], unread[c], buffer[c], Len(replies[c]))
    BY <1>0, ReadMoves DEF Connection
  <2>4. WritesWell("end", output[c], taken[c], replies[c], got[c])
    BY <1>0, WriteMoves DEF Connection
  <2>5. Connection(c)'
    BY <1>0, <2>1, <2>2, <2>3, <2>4 DEF Connection, request, reply
  <2> QED BY <2>2, <2>5, OneMoves
<1>2. ASSUME ClientEnds(c) PROVE Connected'
  <2>1. Only(c)
    BY <1>0, <1>2 DEF ClientEnds, Only, Functions, Goto
  <2>2. /\ pc'[c] = "free" /\ peer'[c] = "there" /\ asked'[c] = <<>> /\ unread'[c] = <<>>
        /\ buffer'[c] = Empty /\ output'[c] = Empty /\ replies'[c] = <<>> /\ got'[c] = <<>>
        /\ taken'[c] = taken[c]
    BY <1>0, <1>2 DEF ClientEnds, Functions, Goto
  <2>3. taken[c] \in Nat
    BY <1>0 DEF Connection, WritesWell
  <2>4. WritesWell("free", Empty, taken[c], <<>>, <<>>)
    BY <2>3, WriteFree
  <2>5. ReadsWell("free", <<>>, <<>>, Empty, Len(<<>>))
    <3>1. Len(<<>>) = 0
      OBVIOUS
    <3> QED BY <3>1, ReadFree
  <2>6. Connection(c)'
    BY <2>2, <2>4, <2>5 DEF Connection
  <2> QED BY <2>1, <2>6, OneMoves
<1>3. ASSUME PeerLeaves(c) PROVE Connected'
  <2>1. UNCHANGED <<pc, asked, buffer, serving, reply>>
    BY <1>3 DEF PeerLeaves
  <2>2. PICK n \in 0..Len(unread[c]) : unread'[c] = SubSeq(unread[c], 1, n)
    <3>1. CASE peer' = [peer EXCEPT ![c] = "closed"]
               /\ \E n \in 0..Len(unread[c]) : unread' = [unread EXCEPT ![c] = SubSeq(@, 1, n)]
      BY <1>0, <3>1 DEF Functions
    <3>2. CASE unread' = [unread EXCEPT ![c] = <<>>]
      <4>1. unread[c] \in Seq(Piece)
        BY <1>0 DEF Connection, ReadsWell
      <4>2. SubSeq(unread[c], 1, 0) = <<>> /\ 0 \in 0..Len(unread[c])
        <5> HIDE DEF Piece
        <5> QED BY <4>1
      <4> QED BY <1>0, <3>2, <4>2 DEF Functions
    <3> QED BY <1>3, <3>1, <3>2 DEF PeerLeaves
  <2>3. peer'[c] \in {"there", "closed", "reset"} /\ Only(c)
    BY <1>0, <1>3, <2>1 DEF PeerLeaves, Only, Functions, reply
  <2>4. ReadsWell(pc[c], asked[c], unread'[c], buffer[c], Len(replies[c]))
    <3>1. pc[c] \in Places
      BY <1>0
    <3> QED BY <1>0, <2>2, <3>1, ReadCut DEF Connection
  <2>5. Connection(c)'
    BY <1>0, <2>1, <2>3, <2>4 DEF Connection, reply
  <2> QED BY <2>3, <2>5, OneMoves
<1> QED BY <1>1, <1>2, <1>3

LEMMA AcceptConnects ==
  ASSUME Inv, Connected, NEW c \in Client, Accept(c)
  PROVE  Connected'
<1>0. /\ Functions /\ Connection(c) /\ pc \in [Client -> Places]
  BY DEF Connected, Inv, Types
<1>1. /\ pc[c] = "free" /\ Goto(c, "hello")
      /\ UNCHANGED <<peer, buffer, serving, reply>>
  BY DEF Accept
<1>2. PICK s \in Script[c] : /\ asked' = [asked EXCEPT ![c] = s]
                             /\ unread' = [unread EXCEPT ![c] = Stream(s)]
  BY DEF Accept
<1>3. Only(c) /\ pc'[c] = "hello" /\ asked'[c] = s /\ unread'[c] = Stream(s)
  BY <1>0, <1>1, <1>2 DEF Only, Functions, Goto, reply
<1>4. buffer[c] = Empty /\ Len(replies[c]) = 0
  <2>1. buffer[c] = Empty /\ replies[c] = <<>>
    BY <1>0, <1>1 DEF Connection, ReadsWell, WritesWell
  <2> QED BY <2>1
<1>5. ReadsWell("hello", s, Stream(s), Empty, 0)
  BY ReadBegins
<1>6. WritesWell("hello", output[c], taken[c], replies[c], got[c])
  BY <1>0, <1>1, WriteMoves DEF Connection
<1>7. Connection(c)'
  BY <1>0, <1>1, <1>3, <1>4, <1>5, <1>6 DEF Connection, reply
<1> QED BY <1>3, <1>7, OneMoves

LEMMA ConnectedNext == Inv /\ Connected /\ [Next]_vars => Connected'
<1> SUFFICES ASSUME Inv, Connected, [Next]_vars PROVE Connected'
  OBVIOUS
<1>1. ASSUME UNCHANGED vars PROVE Connected'
  BY <1>1, NoneMoves DEF vars
<1>2. ASSUME Start \/ KillStarts \/ KillFrees PROVE Connected'
  BY <1>2, NoneMoves DEF Start, KillStarts, KillFrees, Connections
<1>3. ASSUME ServerStep PROVE Connected'
  <2>1. ASSUME NEW c \in Client, Accept(c) PROVE Connected'
    BY <2>1, AcceptConnects
  <2> QED
    BY <1>3, <2>1, NoneMoves
       DEF ServerStep, ServerRuns, ServerClearsKill, LoopEnds, Polls, PollTimesOut, PollFails,
           AcceptFails, AcceptUnserved, CloseListen, freeRoutes, ServerEnds, ServerMoves,
           Connections
<1>4. ASSUME NEW c \in Client, ClientStep(c) \/ PeerLeaves(c) PROVE Connected'
  BY <1>4, ReadingSteps, RoutingSteps, WritingSteps, EndingSteps DEF ClientStep
<1> QED BY <1>1, <1>2, <1>3, <1>4 DEF Next

LEMMA ConnectedInit == Init => Connected
<1> SUFFICES ASSUME Init PROVE Connected
  OBVIOUS
<1>1. Functions
  BY DEF Init, Functions
<1>2. ASSUME NEW c \in Client PROVE Connection(c)
  <2>1. /\ pc[c] = "free" /\ peer[c] = "there" /\ asked[c] = <<>> /\ unread[c] = <<>>
        /\ buffer[c] = Empty /\ output[c] = Empty /\ replies[c] = <<>> /\ got[c] = <<>>
        /\ taken[c] = 0
    BY DEF Init
  <2>2. WritesWell("free", Empty, 0, <<>>, <<>>)
    BY WriteFree
  <2>3. Len(<<>>) = 0
    OBVIOUS
  <2> QED BY <2>1, <2>2, <2>3, ReadFree DEF Connection
<1> QED BY <1>1, <1>2 DEF Connected

LEMMA ConnectedHolds == Spec => [](Inv /\ Connected)
<1>1. Init => Inv /\ Connected
  BY InitInv, ConnectedInit
<1>2. Inv /\ Connected /\ [Next]_vars => (Inv /\ Connected)'
  BY NextInv, ConnectedNext
<1> QED BY <1>1, <1>2, PTL DEF Spec

\* The flags of the server, and its own descriptor.
Flags ==
  /\ hasty \in BOOLEAN /\ killMe \in BOOLEAN /\ threadRunning \in BOOLEAN
  /\ wantSSL \in BOOLEAN /\ acceptFailed \in BOOLEAN
  /\ listenSocket \in Descriptor \cup {-1}

LEMMA FlagsNext == Inv /\ Flags /\ [Next]_vars => Flags'
<1> SUFFICES ASSUME Inv, Flags, [Next]_vars PROVE Flags'
  OBVIOUS
<1> USE DEF Flags, life, flags
<1>1. ASSUME UNCHANGED vars PROVE Flags'
  BY <1>1 DEF vars
<1>2. ASSUME Start PROVE Flags'
  <2>1. Lowest \in Descriptor
    BY <1>2, LowestIsFree DEF Start, Inv, Types
  <2> QED BY <1>2, <2>1, WebServerAssumption DEF Start
<1>3. ASSUME KillStarts PROVE Flags'
  BY <1>3 DEF KillStarts
<1>4. ASSUME KillFrees PROVE Flags'
  BY <1>4 DEF KillFrees
<1>5. ASSUME ServerStep PROVE Flags'
  BY <1>5
     DEF ServerStep, ServerRuns, ServerClearsKill, LoopEnds, Polls, PollTimesOut, PollFails,
         AcceptFails, Accept, AcceptUnserved, CloseListen, freeRoutes, ServerEnds,
         ServerMoves, ServerGoes
<1>6. ASSUME NEW c \in Client, ClientStep(c) \/ PeerLeaves(c) PROVE Flags'
  BY <1>6
     DEF ClientStep, Hello, FillIncoming, FillEnds, Malformed, Parse, FormFills, FormFails,
         RequestIn, FilterRefuses, RouteTakes, RouteHangsUp, NoRoute, WriteReply, WriteFails,
         KillClientSocket, ClientEnds, PeerLeaves, Reads, Routing, Writes
<1> QED BY <1>1, <1>2, <1>3, <1>4, <1>5, <1>6 DEF Next

-----------------------------------------------------------------------------
\* The state keeps its type: neither buffer of a connection ever holds more
\* than its block, whatever is read into it and put in front of what is
\* written, and no more of a body is taken than there is of it.
THEOREM TypeCorrect == Spec => []TypeOK
<1>1. Init => Flags
  BY WebServerAssumption DEF Init, Flags
<1>2. Inv /\ Connected /\ Flags => TypeOK
  <2> SUFFICES ASSUME Inv, Connected, Flags PROVE TypeOK
    OBVIOUS
  <2>1. /\ program \in {"none", "up", "killing", "freed"}
        /\ server \in {"none", "created", "running", "loop", "poll", "close", "routes",
                       "last", "done"}
        /\ open \subseteq Descriptor
    BY DEF Inv, Types
  <2>2. {hasty, killMe, threadRunning, wantSSL, acceptFailed} \subseteq BOOLEAN
        /\ listenSocket \in Descriptor \cup {-1}
    BY DEF Flags
  <2>3. orphans \subseteq open
    BY DEF Inv, Disjoint
  <2>4. ASSUME NEW c \in Client
        PROVE  /\ pc[c] \in {"free", "hello", "fill", "parse", "form", "route", "write",
                             "bail", "end"}
               /\ clientSocket[c] \in Descriptor \cup {Closed}
               /\ peer[c] \in {"there", "closed", "reset"}
               /\ BufferOK(buffer[c], BufferSize) /\ BufferOK(output[c], OutputSize)
               /\ pc[c] = "write" => taken[c] \in 0..BodyLength(c)
    <3>1. Connection(c)
      BY DEF Connected
    <3>2. pc[c] \in Places /\ clientSocket[c] \in Descriptor \cup {Closed}
      BY DEF Inv, Types
    <3>3. ASSUME NEW b, NEW S, NEW size \in Nat, Fits(b, S, size) PROVE BufferOK(b, size)
      <4>1. b.gap \in Nat /\ Len(b.data) \in Nat /\ b.gap + Len(b.data) <= size
        BY <3>3 DEF Fits
      <4> QED BY <4>1 DEF BufferOK
    <3>4. BufferOK(buffer[c], BufferSize) /\ BufferOK(output[c], OutputSize)
      BY <3>1, <3>3, WebServerAssumption DEF Connection, ReadsWell, WritesWell
    <3>5. ASSUME pc[c] = "write" PROVE taken[c] \in 0..BodyLength(c)
      <4>1. /\ taken[c] \in Nat /\ Last(replies[c]) \in Count
            /\ taken[c] <= BodySize(Last(replies[c]))
        BY <3>1, <3>5 DEF Connection, WritesWell
      <4>2. BodyLength(c) = BodySize(Last(replies[c])) /\ BodyLength(c) \in Nat
        BY <4>1, BodySizeType DEF BodyLength, BodySize
      <4> QED BY <4>1, <4>2
    <3> QED BY <3>1, <3>2, <3>4, <3>5 DEF Connection, Places
  <2> QED BY <2>1, <2>2, <2>3, <2>4 DEF TypeOK
<1> QED BY <1>1, <1>2, ConnectedHolds, FlagsNext, PTL DEF Spec

\* What the peer has got begins what it is owed, whole replies in the order
\* of the requests, and is all of it whenever the thread reads on
\* (CS_serverDoReply), for every size of the buffers, every body and every
\* way the kernel cuts the writes.
THEOREM RepliesWhole == Spec => []RepliesInOrder
<1>1. Connected => RepliesInOrder
  <2> SUFFICES ASSUME Connected, NEW c \in Client
               PROVE  /\ IsPrefix(got[c], Answers(c))
                      /\ pc[c] = "fill" => got[c] = Answers(c)
    BY DEF RepliesInOrder
  <2>1. WritesWell(pc[c], output[c], taken[c], replies[c], got[c])
    BY DEF Connected, Connection
  <2>2. Answers(c) = AnswersTo(replies[c])
    BY DEF Answers, AnswersTo
  <2> QED BY <2>1, <2>2 DEF WritesWell
<1> QED BY <1>1, ConnectedHolds, PTL

\* Whenever the thread reads there is room to read into, and what it has and
\* will get begins with the first request it has not answered: parsing, the
\* form loop and the pipelined requests lose no piece and leave none behind.
THEOREM ReadyWhenReading == Spec => []ReadyToRead
<1>1. Connected => ReadyToRead
  <2> SUFFICES ASSUME Connected, NEW c \in Client, pc[c] = "fill"
               PROVE  /\ room(buffer[c], BufferSize) > 0
                      /\ IsPrefix(buffer[c].data \o unread[c],
                                  Stream(SubSeq(asked[c], Len(replies[c]) + 1, Len(asked[c]))))
    BY DEF ReadyToRead
  <2>1. ReadsWell("fill", asked[c], unread[c], buffer[c], Len(replies[c]))
    BY DEF Connected, Connection
  <2>2. /\ buffer[c].gap \in Nat /\ Len(buffer[c].data) \in Nat
        /\ buffer[c].gap + Len(buffer[c].data) < BufferSize
    BY <2>1 DEF ReadsWell, Fits
  <2>3. room(buffer[c], BufferSize) > 0
    BY <2>2, WebServerAssumption DEF room
  <2>4. IsPrefix(buffer[c].data \o unread[c], From(asked[c], Len(replies[c]) + 1))
    BY <2>1 DEF ReadsWell
  <2> QED BY <2>3, <2>4 DEF From
<1> QED BY <1>1, ConnectedHolds, PTL
=============================================================================
