-------------------------- MODULE WebSocketReadProofs --------------------------
(***************************************************************************)
(* What WebSocketRead promises of the frames the handler gets, for any     *)
(* frames a peer may send, any size of the receive buffer and any cuts.    *)
(* The invariant says of every place of the reader how the bytes it has    *)
(* and will get go on.                                                     *)
(***************************************************************************)
EXTENDS WebSocketRead, SequenceTheorems, FiniteSetTheorems, WellFoundedInduction, TLAPS

-----------------------------------------------------------------------------
(* Sequences                                                                *)

\* A set of numbers with a member has a least one.
LEMMA LeastNumber ==
  ASSUME NEW T, T \subseteq Nat, T # {}
  PROVE  \E x \in T : \A y \in T : x <= y
<1>1. PICK x \in T : \A y \in T : ~(<<y, x>> \in OpToRel(<, Nat))
  BY WFMin, NatLessThanWellFounded
<1>2. ASSUME NEW y \in T PROVE x <= y
  <2>1. x \in Nat /\ y \in Nat
    OBVIOUS
  <2>2. y < x => <<y, x>> \in OpToRel(<, Nat)
    BY <2>1 DEF OpToRel
  <2>3. ~(y < x)
    BY <1>1, <2>2, Zenon
  <2> QED BY <2>1, <2>3
<1> QED BY <1>2

\* f joins the first n of the sequences ss, one after the other.
Joining(ss, n, f) ==
  f = [i \in 1..n |-> IF i = 1 THEN ss[1] ELSE f[i - 1] \o ss[i]]

\* Two sequences, or functions, are the same up to n.
SameUpTo(n, ss, tt) == \A i \in 1..n : ss[i] = tt[i]

\* There is such a function, ...
LEMMA JoiningExists ==
  ASSUME NEW ss, NEW n \in Nat
  PROVE  \E f : Joining(ss, n, f)
<1> DEFINE T == {m \in Nat : ~\E f : Joining(ss, m, f)}
<1>1. SUFFICES ASSUME T # {} PROVE FALSE
  OBVIOUS
<1>2. PICK m \in T : \A y \in T : m <= y
  <2> HIDE DEF T
  <2>1. T \subseteq Nat
    BY DEF T
  <2> QED BY <1>1, <2>1, LeastNumber
<1>3. m \in Nat /\ ~\E f : Joining(ss, m, f)
  OBVIOUS
<1>4. m # 0
  <2>1. Joining(ss, 0, [i \in 1..0 |-> <<>>])
    BY DEF Joining
  <2> QED BY <1>3, <2>1
<1>5. PICK g : Joining(ss, m - 1, g)
  <2>1. m - 1 \in Nat /\ m - 1 \notin T
    BY <1>2, <1>3, <1>4
  <2> QED BY <2>1
<1>6. g = [i \in 1..(m - 1) |-> IF i = 1 THEN ss[1] ELSE g[i - 1] \o ss[i]]
  BY <1>5 DEF Joining
<1> DEFINE f == [i \in 1..m |-> IF i < m THEN g[i]
                                ELSE IF m = 1 THEN ss[1] ELSE g[m - 1] \o ss[m]]
<1>7. \A i \in 1..m : f[i] = IF i = 1 THEN ss[1] ELSE f[i - 1] \o ss[i]
  <2> TAKE i \in 1..m
  <2>1. CASE i < m
    <3>1. i \in 1..(m - 1)
      BY <1>3, <2>1
    <3>2. f[i] = g[i] /\ (i # 1 => f[i - 1] = g[i - 1])
      BY <1>3, <2>1
    <3>3. g[i] = IF i = 1 THEN ss[1] ELSE g[i - 1] \o ss[i]
      BY <1>6, <3>1
    <3> QED BY <3>2, <3>3
  <2>2. CASE i = m
    <3>1. f[i] = IF m = 1 THEN ss[1] ELSE g[m - 1] \o ss[m]
      BY <1>3, <2>2
    <3>2. m # 1 => f[i - 1] = g[m - 1]
      BY <1>3, <1>4, <2>2
    <3> QED BY <2>2, <3>1, <3>2
  <2> QED BY <1>3, <2>1, <2>2
<1>8. Joining(ss, m, f)
  BY <1>7 DEF Joining
<1> QED BY <1>3, <1>8

\* ... and only one, that knows nothing of the sequences behind.
LEMMA JoiningUnique ==
  ASSUME NEW ss, NEW tt, NEW n \in Nat, NEW m \in Nat, n <= m,
         SameUpTo(n, ss, tt), NEW f, Joining(ss, n, f), NEW g, Joining(tt, m, g)
  PROVE  SameUpTo(n, f, g)
<1> USE DEF SameUpTo
<1> DEFINE T == {i \in 1..n : f[i] # g[i]}
<1>1. SUFFICES ASSUME T # {} PROVE FALSE
  OBVIOUS
<1>2. PICK x \in T : \A y \in T : x <= y
  <2> HIDE DEF T
  <2>1. T \subseteq Nat
    BY DEF T
  <2> QED BY <1>1, <2>1, LeastNumber
<1>3. x \in 1..n /\ x \in 1..m /\ f[x] # g[x]
  OBVIOUS
<1>4. /\ f[x] = IF x = 1 THEN ss[1] ELSE f[x - 1] \o ss[x]
      /\ g[x] = IF x = 1 THEN tt[1] ELSE g[x - 1] \o tt[x]
  <2> HIDE DEF T
  <2>1. f = [i \in 1..n |-> IF i = 1 THEN ss[1] ELSE f[i - 1] \o ss[i]]
    BY DEF Joining
  <2>2. g = [i \in 1..m |-> IF i = 1 THEN tt[1] ELSE g[i - 1] \o tt[i]]
    BY DEF Joining
  <2> QED BY <1>3, <2>1, <2>2
<1>5. x # 1 => f[x - 1] = g[x - 1]
  <2>1. ASSUME x # 1 PROVE x - 1 \in 1..n /\ ~(x <= x - 1)
    BY <1>3, <2>1
  <2> QED BY <1>2, <2>1
<1>6. ss[x] = tt[x] /\ (x = 1 => ss[1] = tt[1])
  BY <1>3
<1> QED BY <1>3, <1>4, <1>5, <1>6

\* FlattenSeq is its last value.
LEMMA FlattenIsJoining ==
  ASSUME NEW ss, NEW n \in Nat \ {0}, Len(ss) = n
  PROVE  \E f : Joining(ss, n, f) /\ FlattenSeq(ss) = f[n]
<1> DEFINE F == CHOOSE f : f = [i \in 1..Len(ss) |-> IF i = 1 THEN ss[i] ELSE f[i - 1] \o ss[i]]
<1>1. FlattenSeq(ss) = F[n]
  BY DEF FlattenSeq
<1>2. Joining(ss, n, F)
  <2>1. PICK f : Joining(ss, n, f)
    BY JoiningExists
  <2>2. f = [i \in 1..n |-> IF i = 1 THEN ss[i] ELSE f[i - 1] \o ss[i]]
    <3>1. \A i \in 1..n : (IF i = 1 THEN ss[1] ELSE f[i - 1] \o ss[i])
                             = (IF i = 1 THEN ss[i] ELSE f[i - 1] \o ss[i])
      OBVIOUS
    <3> QED BY <2>1, <3>1 DEF Joining
  <2>3. F = [i \in 1..n |-> IF i = 1 THEN ss[i] ELSE F[i - 1] \o ss[i]]
    BY <2>2
  <2>4. \A i \in 1..n : (IF i = 1 THEN ss[1] ELSE F[i - 1] \o ss[i])
                           = (IF i = 1 THEN ss[i] ELSE F[i - 1] \o ss[i])
    OBVIOUS
  <2> HIDE DEF F
  <2> QED BY <2>3, <2>4 DEF Joining
<1> QED BY <1>1, <1>2

\* All its values are sequences of what the others hold.
LEMMA JoiningType ==
  ASSUME NEW S, NEW n \in Nat, NEW ss \in Seq(Seq(S)), Len(ss) = n, NEW f, Joining(ss, n, f)
  PROVE  \A i \in 1..n : f[i] \in Seq(S)
<1> DEFINE T == {i \in 1..n : f[i] \notin Seq(S)}
<1>1. SUFFICES ASSUME T # {} PROVE FALSE
  OBVIOUS
<1>2. PICK x \in T : \A y \in T : x <= y
  <2> HIDE DEF T
  <2>1. T \subseteq Nat
    BY DEF T
  <2> QED BY <1>1, <2>1, LeastNumber
<1>3. x \in 1..n /\ f[x] \notin Seq(S)
  OBVIOUS
<1>4. f[x] = IF x = 1 THEN ss[1] ELSE f[x - 1] \o ss[x]
  <2> HIDE DEF T
  <2>1. f = [i \in 1..n |-> IF i = 1 THEN ss[1] ELSE f[i - 1] \o ss[i]]
    BY DEF Joining
  <2> QED BY <1>3, <2>1
<1>5. ASSUME x # 1 PROVE f[x - 1] \in Seq(S)
  <2>1. x - 1 \in 1..n /\ ~(x <= x - 1)
    BY <1>3, <1>5
  <2> QED BY <1>2, <2>1
<1>6. \A i \in 1..n : ss[i] \in Seq(S)
  OBVIOUS
<1> QED BY <1>3, <1>4, <1>5, <1>6

\* Flattening gives a sequence, ...
LEMMA FlattenType ==
  ASSUME NEW S, NEW ss \in Seq(Seq(S))
  PROVE  FlattenSeq(ss) \in Seq(S)
<1>1. CASE Len(ss) = 0
  <2>1. ss = <<>>
    BY <1>1
  <2> QED BY <1>1, <2>1 DEF FlattenSeq
<1>2. CASE Len(ss) # 0
  <2> DEFINE n == Len(ss)
  <2>1. n \in Nat \ {0} /\ n \in Nat /\ n \in 1..n
    BY <1>2
  <2>2. PICK f : Joining(ss, n, f) /\ FlattenSeq(ss) = f[n]
    BY <2>1, FlattenIsJoining
  <2>3. \A i \in 1..n : f[i] \in Seq(S)
    BY <2>1, <2>2, JoiningType
  <2> QED BY <2>1, <2>2, <2>3
<1> QED BY <1>1, <1>2

\* ... to which one more sequence at the end adds itself, ...
LEMMA FlattenAppend ==
  ASSUME NEW S, NEW n \in Nat, NEW ss, NEW tt, ss \in Seq(Seq(S)), Len(ss) = n,
         tt \in Seq(Seq(S)), Len(tt) = n + 1, SameUpTo(n, ss, tt)
  PROVE  FlattenSeq(tt) = FlattenSeq(ss) \o tt[n + 1]
<1>1. PICK g : Joining(tt, n + 1, g) /\ FlattenSeq(tt) = g[n + 1]
  BY FlattenIsJoining
<1>2. g[n + 1] = IF n = 0 THEN tt[1] ELSE g[n] \o tt[n + 1]
  <2>1. g = [i \in 1..(n + 1) |-> IF i = 1 THEN tt[1] ELSE g[i - 1] \o tt[i]]
    BY <1>1 DEF Joining
  <2>2. n + 1 \in 1..(n + 1) /\ (n + 1) - 1 = n /\ (n + 1 = 1 <=> n = 0)
    OBVIOUS
  <2>3. g[n + 1] = IF n + 1 = 1 THEN tt[1] ELSE g[(n + 1) - 1] \o tt[n + 1]
    BY <2>1, <2>2
  <2> QED BY <2>2, <2>3
<1>3. CASE n = 0
  <2>1. ss = <<>> /\ FlattenSeq(ss) = <<>> /\ tt[1] \in Seq(S)
    BY <1>3 DEF FlattenSeq
  <2> QED BY <1>1, <1>2, <1>3, <2>1, ConcatEmptySeq
<1>4. CASE n # 0
  <2>1. PICK f : Joining(ss, n, f) /\ FlattenSeq(ss) = f[n]
    BY <1>4, FlattenIsJoining
  <2>2. f[n] = g[n]
    <3>1. n <= n + 1 /\ n + 1 \in Nat /\ n \in 1..n
      BY <1>4
    <3>2. SameUpTo(n, f, g)
      BY <1>1, <2>1, <3>1, JoiningUnique
    <3> QED BY <3>1, <3>2 DEF SameUpTo
  <2> QED BY <1>1, <1>2, <1>4, <2>1, <2>2
<1> QED BY <1>3, <1>4

\* A name for what is said of three, so that it can be cited as it is.
Associates(s, t, u) == (s \o t) \o u = s \o (t \o u)

LEMMA ThreeJoin ==
  ASSUME NEW S, NEW s \in Seq(S), NEW t \in Seq(S), NEW u \in Seq(S)
  PROVE  Associates(s, t, u)
BY ConcatAssociative DEF Associates

\* tt is the n sequences of ss behind the first.
IsBehind(n, tt, ss) ==
  Len(ss) = n + 1 /\ Len(tt) = n /\ \A i \in 1..n : tt[i] = ss[1 + i]

FlattensBefore(ss, tt) == FlattenSeq(ss) = ss[1] \o FlattenSeq(tt)

\* ... and so does one at the start.
LEMMA FlattenHead ==
  ASSUME NEW S, NEW n \in Nat, NEW ss, NEW tt, ss \in Seq(Seq(S)), tt \in Seq(Seq(S)),
         IsBehind(n, tt, ss)
  PROVE  FlattensBefore(ss, tt)
<1>0. Len(ss) = n + 1 /\ Len(tt) = n /\ \A i \in 1..n : tt[i] = ss[1 + i]
  BY DEF IsBehind
<1>1. PICK f : Joining(ss, n + 1, f) /\ FlattenSeq(ss) = f[n + 1]
  <2>1. n + 1 \in Nat \ {0} /\ Len(ss) = n + 1
    BY <1>0
  <2> QED BY <2>1, FlattenIsJoining
<1>2. f = [i \in 1..(n + 1) |-> IF i = 1 THEN ss[1] ELSE f[i - 1] \o ss[i]]
  BY <1>1 DEF Joining
<1>3. f[1] = ss[1] /\ ss[1] \in Seq(S)
  <2>1. 1 \in 1..(n + 1)
    OBVIOUS
  <2>2. f[1] = ss[1]
    BY <1>2, <2>1
  <2> QED BY <1>0, <2>1, <2>2
<1>4. CASE n = 0
  <2>1. tt = <<>> /\ FlattenSeq(tt) = <<>>
    BY <1>0, <1>4 DEF FlattenSeq
  <2>2. FlattenSeq(ss) = ss[1]
    BY <1>1, <1>3, <1>4
  <2> QED BY <1>3, <2>1, <2>2, ConcatEmptySeq DEF FlattensBefore
<1>5. CASE n # 0
  <2>1. PICK g : Joining(tt, n, g) /\ FlattenSeq(tt) = g[n]
    BY <1>0, <1>5, FlattenIsJoining
  <2>2. g = [i \in 1..n |-> IF i = 1 THEN tt[1] ELSE g[i - 1] \o tt[i]]
    BY <2>1 DEF Joining
  <2>3. \A i \in 1..n : g[i] \in Seq(S) /\ tt[i] \in Seq(S)
    <3>1. \A i \in 1..n : g[i] \in Seq(S)
      BY <1>0, <2>1, JoiningType
    <3> QED BY <1>0, <3>1
  <2> DEFINE T == {i \in 1..n : f[i + 1] # ss[1] \o g[i]}
  <2>4. ASSUME T # {} PROVE FALSE
    <3>1. PICK x \in T : \A y \in T : x <= y
      <4> HIDE DEF T
      <4>1. T \subseteq Nat
        <5>1. T \subseteq 1..n
          BY Zenon DEF T
        <5> QED BY <5>1
      <4> QED BY <2>4, <4>1, LeastNumber
    <3>2. x \in 1..n /\ f[x + 1] # ss[1] \o g[x]
      OBVIOUS
    <3>3. f[x + 1] = f[x] \o tt[x]
      <4>1. x + 1 \in 1..(n + 1) /\ x + 1 # 1 /\ (x + 1) - 1 = x /\ 1 + x = x + 1
        BY <3>2
      <4>2. f[x + 1] = f[(x + 1) - 1] \o ss[x + 1]
        <5> HIDE DEF T
        <5> QED BY <1>2, <4>1
      <4>3. tt[x] = ss[1 + x]
        BY <1>0, <3>2
      <4> QED BY <4>1, <4>2, <4>3
    <3>4. g[x] = IF x = 1 THEN tt[1] ELSE g[x - 1] \o tt[x]
      <4> HIDE DEF T
      <4> QED BY <2>2, <3>2
    <3>5. CASE x = 1
      BY <1>3, <3>2, <3>3, <3>4, <3>5
    <3>6. CASE x # 1
      <4>1. x - 1 \in 1..n /\ ~(x <= x - 1) /\ (x - 1) + 1 = x
        BY <3>2, <3>6
      <4>2. f[x] = ss[1] \o g[x - 1]
        BY <3>1, <4>1
      <4> DEFINE a == ss[1]
                 b == g[x - 1]
                 c == tt[x]
      <4>3. a \in Seq(S) /\ b \in Seq(S) /\ c \in Seq(S)
        BY <1>3, <2>3, <3>2, <4>1
      <4>4. f[x + 1] = (a \o b) \o c /\ g[x] = b \o c
        BY <3>3, <3>4, <3>6, <4>2
      <4>5. f[x + 1] # a \o g[x]
        BY <3>2
      <4> HIDE DEF a, b, c, T
      <4>6. (a \o b) \o c = a \o (b \o c)
        <5>1. Associates(a, b, c)
          BY <4>3, ThreeJoin
        <5> QED BY <5>1 DEF Associates
      <4> QED BY <4>4, <4>5, <4>6
    <3> QED BY <3>5, <3>6
  <2>5. f[n + 1] = ss[1] \o g[n]
    <3>1. n \in 1..n
      BY <1>5
    <3> QED BY <2>4, <3>1
  <2> QED BY <1>1, <2>1, <2>5 DEF FlattensBefore
<1> QED BY <1>4, <1>5

\* A sequence is its first n elements and the others.
LEMMA Cut ==
  ASSUME NEW S, NEW t \in Seq(S), NEW n \in 0..Len(t)
  PROVE  /\ SubSeq(t, 1, n) \in Seq(S) /\ Len(SubSeq(t, 1, n)) = n
         /\ SubSeq(t, n + 1, Len(t)) \in Seq(S)
         /\ Len(SubSeq(t, n + 1, Len(t))) = Len(t) - n
         /\ t = SubSeq(t, 1, n) \o SubSeq(t, n + 1, Len(t))
<1>1. Len(t) \in Nat /\ n \in Nat /\ n <= Len(t)
  OBVIOUS
<1>2. SubSeq(t, 1, n) \in Seq(S) /\ Len(SubSeq(t, 1, n)) = n
  BY <1>1
<1>3. SubSeq(t, n + 1, Len(t)) \in Seq(S) /\ Len(SubSeq(t, n + 1, Len(t))) = Len(t) - n
  <2>1. \A i \in (n + 1)..Len(t) : t[i] \in S
    BY <1>1, ElementOfSeq
  <2>2. /\ SubSeq(t, n + 1, Len(t)) \in Seq(S)
        /\ Len(SubSeq(t, n + 1, Len(t)))
             = IF n + 1 <= Len(t) THEN Len(t) - (n + 1) + 1 ELSE 0
    <3>1. n + 1 \in Int /\ Len(t) \in Int
      BY <1>1
    <3> QED BY <2>1, <3>1, SubSeqProperties, Zenon
  <2> QED BY <1>1, <2>2
<1>4. SubSeq(t, 1, n) \o SubSeq(t, n + 1, Len(t)) = SubSeq(t, 1, Len(t))
  <2>1. 1 \in 1..(Len(t) + 1) /\ n \in (1 - 1)..Len(t) /\ Len(t) \in n..Len(t)
    BY <1>1
  <2> QED BY <2>1, ConcatAdjacentSubSeq, Zenon
<1> QED BY <1>2, <1>3, <1>4, SubSeqFull

\* A prefix is what something can be put behind.
LEMMA PrefixIff ==
  ASSUME NEW S, NEW s \in Seq(S), NEW t \in Seq(S)
  PROVE  IsPrefix(s, t) <=> \E u \in Seq(S) : t = s \o u
<1>1. ASSUME IsPrefix(s, t) PROVE \E u \in Seq(S) : t = s \o u
  <2>1. Len(s) \in Nat /\ Len(t) \in Nat /\ Len(s) <= Len(t)
        /\ SubSeq(s, 1, Len(s)) = SubSeq(t, 1, Len(s))
    BY <1>1 DEF IsPrefix
  <2>2. SubSeq(s, 1, Len(s)) = s
    BY SubSeqFull
  <2>3. Len(s) \in 0..Len(t)
    BY <2>1
  <2> DEFINE u == SubSeq(t, Len(s) + 1, Len(t))
  <2>4. u \in Seq(S) /\ t = SubSeq(t, 1, Len(s)) \o u
    BY <2>3, Cut, Zenon
  <2> QED BY <2>1, <2>2, <2>4
<1>2. ASSUME NEW u \in Seq(S), t = s \o u PROVE IsPrefix(s, t)
  <2>1. Len(t) = Len(s) + Len(u) /\ Len(s) \in Nat /\ Len(u) \in Nat
        /\ \A i \in 1..Len(s) : t[i] = s[i]
    BY <1>2, ConcatProperties
  <2>2. SubSeq(t, 1, Len(s)) = SubSeq(s, 1, Len(s))
    BY <2>1
  <2> QED BY <2>1, <2>2 DEF IsPrefix
<1> QED BY <1>1, <1>2

\* Names for what is said of sequences, so that it can be cited as it is.
Joined(s, t, z) == z = s \o t
Keeps(S, d, u, n) ==
  /\ SubSeq(u, 1, n) \in Seq(S) /\ Len(SubSeq(u, 1, n)) = n
  /\ SubSeq(u, n + 1, Len(u)) \in Seq(S)
  /\ d \o SubSeq(u, 1, n) \in Seq(S)
  /\ Len(d \o SubSeq(u, 1, n)) = Len(d) + n
  /\ (d \o SubSeq(u, 1, n)) \o SubSeq(u, n + 1, Len(u)) = d \o u

LEMMA BeginningGoesOn ==
  ASSUME NEW S, NEW s \in Seq(S), NEW t \in Seq(S), IsPrefix(s, t)
  PROVE  \E w \in Seq(S) : Joined(s, w, t)
BY PrefixIff DEF Joined

\* What is read moves from one sequence to the end of the other.
LEMMA FillKeeps ==
  ASSUME NEW S, NEW d \in Seq(S), NEW u \in Seq(S), NEW n \in 0..Len(u)
  PROVE  Keeps(S, d, u, n)
<1> DEFINE a == SubSeq(u, 1, n)
           b == SubSeq(u, n + 1, Len(u))
<1>1. a \in Seq(S) /\ Len(a) = n /\ b \in Seq(S) /\ u = a \o b
  BY Cut, ZenonT(40)
<1> HIDE DEF a, b
<1>2. d \o a \in Seq(S) /\ Len(d \o a) = Len(d) + Len(a)
  BY <1>1, ConcatProperties
<1>3. (d \o a) \o b = d \o (a \o b)
  BY <1>1, ConcatAssociative
<1> QED BY <1>1, <1>2, <1>3 DEF a, b, Keeps

\* Of two sequences of which one begins the other, m elements leave both.
LEMMA DropBoth ==
  ASSUME NEW S, NEW d \in Seq(S), NEW u \in Seq(S), NEW x \in Seq(S), NEW y \in Seq(S),
         NEW m \in Nat, Len(x) = m, m <= Len(d), IsPrefix(d \o u, x \o y)
  PROVE  /\ SubSeq(d, 1, m) = x
         /\ IsPrefix(SubSeq(d, m + 1, Len(d)) \o u, y)
<1> DEFINE a == SubSeq(d, 1, m)
           e == SubSeq(d, m + 1, Len(d))
<1>1. m \in 0..Len(d)
  OBVIOUS
<1>2. a \in Seq(S) /\ Len(a) = m /\ e \in Seq(S) /\ d = a \o e
  BY <1>1, Cut, Zenon
<1> HIDE DEF a, e
<1>3. d \o u \in Seq(S) /\ x \o y \in Seq(S)
  BY ConcatProperties
<1>4. PICK w \in Seq(S) : x \o y = (d \o u) \o w
  <2> DEFINE p == d \o u
             q == x \o y
  <2>1. p \in Seq(S) /\ q \in Seq(S) /\ IsPrefix(p, q)
    BY <1>3
  <2> HIDE DEF p, q
  <2>2. \E w \in Seq(S) : q = p \o w
    BY <2>1, PrefixIff
  <2> QED BY <2>2 DEF p, q
<1>5. e \o u \in Seq(S) /\ (e \o u) \o w \in Seq(S)
  BY <1>2, ConcatProperties
<1>6. (d \o u) \o w = a \o ((e \o u) \o w)
  <2>1. d \o u = a \o (e \o u)
    BY <1>2, ConcatAssociative, SMTT(20)
  <2> DEFINE v == e \o u
  <2>2. a \in Seq(S) /\ v \in Seq(S)
    BY <1>2, <1>5
  <2> HIDE DEF v
  <2>3. (a \o v) \o w = a \o (v \o w)
    <3>1. Associates(a, v, w)
      BY <2>2, ThreeJoin
    <3> QED BY <3>1 DEF Associates
  <2> QED BY <2>1, <2>3 DEF v
<1> DEFINE z == (e \o u) \o w
<1>7. z \in Seq(S) /\ x \o y = a \o z
  BY <1>4, <1>5, <1>6
<1> HIDE DEF z
<1>8. a = x
  <2>1. ASSUME NEW i \in 1..m PROVE a[i] = x[i]
    <3>1. i \in 1..(Len(x) + Len(y)) /\ i <= Len(x) /\ i \in 1..(Len(a) + Len(z)) /\ i <= Len(a)
      BY <1>2, <1>7
    <3>2. (x \o y)[i] = x[i]
      BY <3>1, ConcatProperties
    <3>3. (a \o z)[i] = a[i]
      BY <1>2, <1>7, <3>1, ConcatProperties
    <3> QED BY <1>7, <3>2, <3>3
  <2> QED BY <1>2, <2>1, SeqEqual
<1>9. y = z
  BY <1>2, <1>7, <1>8, ConcatSimplifications
<1>10. IsPrefix(e \o u, y)
  BY <1>5, <1>9, PrefixIff DEF z
<1> QED BY <1>8, <1>10 DEF a, e

\* What is not sent any more leaves a shorter beginning.
LEMMA CutShort ==
  ASSUME NEW S, NEW d \in Seq(S), NEW u \in Seq(S), NEW t \in Seq(S), NEW n \in 0..Len(u),
         IsPrefix(d \o u, t)
  PROVE  SubSeq(u, 1, n) \in Seq(S) /\ IsPrefix(d \o SubSeq(u, 1, n), t)
<1> DEFINE a == d \o SubSeq(u, 1, n)
           b == SubSeq(u, n + 1, Len(u))
<1>1. a \in Seq(S) /\ b \in Seq(S) /\ a \o b = d \o u /\ SubSeq(u, 1, n) \in Seq(S)
  <2>1. /\ SubSeq(u, 1, n) \in Seq(S) /\ SubSeq(u, n + 1, Len(u)) \in Seq(S)
        /\ d \o SubSeq(u, 1, n) \in Seq(S)
        /\ (d \o SubSeq(u, 1, n)) \o SubSeq(u, n + 1, Len(u)) = d \o u
    <3>1. Keeps(S, d, u, n)
      BY FillKeeps
    <3> QED BY <3>1 DEF Keeps
  <2> QED BY <2>1, Zenon
<1> HIDE DEF a, b
<1> DEFINE p == d \o u
<1>2. p \in Seq(S) /\ IsPrefix(p, t) /\ p = a \o b
  BY <1>1, ConcatProperties
<1> HIDE DEF p
<1>3. PICK w \in Seq(S) : t = p \o w
  <2>1. \E w \in Seq(S) : Joined(p, w, t)
    BY <1>2, BeginningGoesOn
  <2> QED BY <2>1 DEF Joined
<1>4. (a \o b) \o w = a \o (b \o w)
  <2>1. Associates(a, b, w)
    BY <1>1, ThreeJoin
  <2> QED BY <2>1 DEF Associates
<1>5. b \o w \in Seq(S)
  BY <1>1, ConcatProperties
<1>6. IsPrefix(a, t)
  <2> DEFINE v == b \o w
  <2>1. v \in Seq(S) /\ t = a \o v
    BY <1>2, <1>3, <1>4, <1>5
  <2> HIDE DEF v
  <2> QED BY <1>1, <2>1, PrefixIff
<1> QED BY <1>1, <1>6 DEF a

-----------------------------------------------------------------------------
(* Frames                                                                   *)

\* What the peer may send, and the bytes it is made of.
Frame == UNION {{s[i] : i \in 1..Len(s)} : s \in Scripts}

Byte ==
  {FirstByte(f) : f \in Frame} \cup {<<"len", f.mask, Marker(f)>> : f \in Frame}
  \cup {<<"size", n, i>> : n \in Nat, i \in Nat}
  \cup {<<"key", f.opcode, i>> : f \in Frame, i \in Nat}
  \cup {<<"byte", f.opcode, i>> : f \in Frame, i \in Nat}

Start(f)    == <<FirstByte(f), <<"len", f.mask, Marker(f)>>>>
SizePart(f) == CASE Marker(f) = Marker16 -> SizeBytes(f.length, 2)
                 [] Marker(f) = Marker64 -> SizeBytes(f.length, 8)
                 [] OTHER -> <<>>

LEMMA FrameType ==
  ASSUME NEW f \in Frame
  PROVE  /\ f = [opcode |-> f.opcode, mask |-> f.mask, length |-> f.length]
         /\ f.length \in Nat /\ f.mask \in BOOLEAN /\ Marker(f) \in Nat
         /\ Marker(f) \notin {Marker16, Marker64} => Marker(f) = f.length
<1>1. PICK s \in Scripts : \E i \in 1..Len(s) : f = s[i]
  BY DEF Frame
<1>2. PICK i \in 1..Len(s) : f = s[i]
  BY <1>1
<1>3. i \in DOMAIN s
  <2>1. s = [j \in 1..Len(s) |-> s[j]]
    BY ReadAssumption
  <2> QED BY <2>1
<1>4. /\ f = [opcode |-> f.opcode, mask |-> f.mask, length |-> f.length]
      /\ f.length \in Nat /\ f.mask \in BOOLEAN
  BY <1>2, <1>3, ReadAssumption
<1> QED BY <1>4, LengthAssumption DEF Marker, Marker16, Marker64

LEMMA SizeType ==
  ASSUME NEW n \in Nat, NEW w \in Nat
  PROVE  SizeBytes(n, w) \in Seq(Byte) /\ Len(SizeBytes(n, w)) = w
<1>1. \A i \in 1..w : <<"size", n, w - i>> \in Byte
  BY DEF Byte
<1>2. SizeBytes(n, w) \in [1..w -> Byte]
  BY <1>1 DEF SizeBytes
<1> QED BY <1>2

LEMMA FrameParts ==
  ASSUME NEW f \in Frame
  PROVE  /\ Start(f) \in Seq(Byte) /\ Len(Start(f)) = 2
         /\ SizePart(f) \in Seq(Byte)
         /\ Marker(f) = Marker16 => SizePart(f) = SizeBytes(f.length, 2)
         /\ Marker(f) \notin {Marker16, Marker64} => SizePart(f) = <<>>
         /\ SizeBytes(f.length, 2) \in Seq(Byte) /\ Len(SizeBytes(f.length, 2)) = 2
         /\ KeyBytes(f) \in Seq(Byte)
         /\ f.mask => Len(KeyBytes(f)) = 4
         /\ ~f.mask => KeyBytes(f) = <<>>
         /\ Payload(f) \in Seq(Byte) /\ Len(Payload(f)) = f.length
<1>1. f.length \in Nat
  BY FrameType
<1>2. Start(f) \in Seq(Byte) /\ Len(Start(f)) = 2
  <2>1. FirstByte(f) \in Byte /\ <<"len", f.mask, Marker(f)>> \in Byte
    BY DEF Byte
  <2> HIDE DEF Byte
  <2> QED BY <2>1 DEF Start
<1>3. /\ SizeBytes(f.length, 2) \in Seq(Byte) /\ Len(SizeBytes(f.length, 2)) = 2
      /\ SizeBytes(f.length, 8) \in Seq(Byte)
  <2>1. 2 \in Nat /\ 8 \in Nat
    OBVIOUS
  <2> QED BY <1>1, <2>1, SizeType
<1>4. /\ SizePart(f) \in Seq(Byte)
      /\ Marker(f) = Marker16 => SizePart(f) = SizeBytes(f.length, 2)
      /\ Marker(f) \notin {Marker16, Marker64} => SizePart(f) = <<>>
  <2>1. Marker16 # Marker64
    BY LengthAssumption DEF Marker16, Marker64
  <2>2. CASE Marker(f) = Marker16
    <3>1. SizePart(f) = SizeBytes(f.length, 2)
      BY <2>1, <2>2, Zenon DEF SizePart
    <3> QED BY <1>3, <2>2, <3>1
  <2>3. CASE Marker(f) = Marker64
    <3>1. SizePart(f) = SizeBytes(f.length, 8)
      BY <2>1, <2>3, Zenon DEF SizePart
    <3> QED BY <1>3, <2>1, <2>3, <3>1
  <2>4. CASE Marker(f) \notin {Marker16, Marker64}
    <3>1. SizePart(f) = <<>>
      BY <2>4 DEF SizePart
    <3> QED BY <2>4, <3>1
  <2> QED BY <2>2, <2>3, <2>4
<1>5. /\ KeyBytes(f) \in Seq(Byte)
      /\ f.mask => Len(KeyBytes(f)) = 4
      /\ ~f.mask => KeyBytes(f) = <<>>
  <2>1. \A i \in 1..4 : <<"key", f.opcode, i>> \in Byte
    BY DEF Byte
  <2>2. [i \in 1..4 |-> <<"key", f.opcode, i>>] \in [1..4 -> Byte]
    BY <2>1
  <2>3. CASE f.mask
    BY <2>2, <2>3 DEF KeyBytes
  <2>4. CASE ~f.mask
    BY <2>4 DEF KeyBytes
  <2> QED BY <2>3, <2>4
<1>6. Payload(f) \in Seq(Byte) /\ Len(Payload(f)) = f.length
  <2>1. \A i \in 1..f.length : <<"byte", f.opcode, i>> \in Byte
    BY <1>1 DEF Byte
  <2>2. Payload(f) \in [1..f.length -> Byte]
    BY <2>1 DEF Payload
  <2> QED BY <1>1, <2>2
<1> QED BY <1>2, <1>3, <1>4, <1>5, <1>6

\* How a frame and what follows it go on, part by part.
LEMMA FrameFirst ==
  ASSUME NEW f \in Frame, NEW z \in Seq(Byte)
  PROVE  /\ Encoding(f) \in Seq(Byte)
         /\ Payload(f) \o z \in Seq(Byte)
         /\ KeyBytes(f) \o (Payload(f) \o z) \in Seq(Byte)
         /\ SizePart(f) \o (KeyBytes(f) \o (Payload(f) \o z)) \in Seq(Byte)
         /\ Encoding(f) \o z
              = Start(f) \o (SizePart(f) \o (KeyBytes(f) \o (Payload(f) \o z)))
<1> DEFINE a == Start(f)
           b == SizePart(f)
           c == KeyBytes(f)
           d == Payload(f)
<1>1. a \in Seq(Byte) /\ b \in Seq(Byte) /\ c \in Seq(Byte) /\ d \in Seq(Byte)
  BY FrameParts
<1>2. Encoding(f) = a \o b \o c \o d
  BY DEF Encoding, Start, SizePart
<1> HIDE DEF a, b, c, d
<1>3. a \o b \in Seq(Byte) /\ d \o z \in Seq(Byte)
  BY <1>1, ConcatProperties
<1>4. (a \o b) \o c \in Seq(Byte) /\ c \o (d \o z) \in Seq(Byte)
  BY <1>1, <1>3, ConcatProperties
<1>5. ((a \o b) \o c) \o d \in Seq(Byte) /\ b \o (c \o (d \o z)) \in Seq(Byte)
  BY <1>1, <1>4, ConcatProperties
<1>6. (((a \o b) \o c) \o d) \o z = ((a \o b) \o c) \o (d \o z)
  <2>1. Associates((a \o b) \o c, d, z)
    BY <1>1, <1>4, ThreeJoin
  <2> QED BY <2>1 DEF Associates
<1>7. ((a \o b) \o c) \o (d \o z) = (a \o b) \o (c \o (d \o z))
  <2>1. Associates(a \o b, c, d \o z)
    BY <1>1, <1>3, ThreeJoin
  <2> QED BY <2>1 DEF Associates
<1>8. (a \o b) \o (c \o (d \o z)) = a \o (b \o (c \o (d \o z)))
  <2>1. Associates(a, b, c \o (d \o z))
    BY <1>1, <1>4, ThreeJoin
  <2> QED BY <2>1 DEF Associates
<1> QED BY <1>2, <1>3, <1>4, <1>5, <1>6, <1>7, <1>8 DEF a, b, c, d

\* A script is a sequence of frames, and what it is cut to.
LEMMA ScriptType ==
  ASSUME NEW s \in Scripts
  PROVE  s \in Seq(Frame) /\ Len(s) \in Nat
<1>1. s = [i \in 1..Len(s) |-> s[i]] /\ Len(s) \in Nat
  BY ReadAssumption
<1>2. \A i \in 1..Len(s) : s[i] \in Frame
  BY DEF Frame
<1> DEFINE n == Len(s)
<1>3. s = [i \in 1..n |-> s[i]] /\ n \in Nat /\ \A i \in 1..n : s[i] \in Frame
  BY <1>1, <1>2
<1> HIDE DEF n
<1>4. s \in [1..n -> Frame]
  BY <1>3
<1> QED BY <1>1, <1>3, <1>4

\* The bytes of the frames from i on.
Rest(i) == Bytes(SubSeq(sent, i, Len(sent)))

LEMMA RestEnd ==
  ASSUME sent \in Scripts
  PROVE  Rest(Len(sent) + 1) = <<>>
<1>1. sent \in Seq(Frame) /\ Len(sent) \in Nat
  BY ScriptType
<1>2. SubSeq(sent, Len(sent) + 1, Len(sent)) = <<>>
  BY <1>1
<1>3. Bytes(<<>>) = <<>>
  BY DEF Bytes, FlattenSeq
<1> QED BY <1>2, <1>3 DEF Rest

LEMMA RestType ==
  ASSUME sent \in Scripts, NEW i \in 1..(Len(sent) + 1)
  PROVE  Rest(i) \in Seq(Byte)
<1> DEFINE s  == SubSeq(sent, i, Len(sent))
           n  == Len(sent) - i + 1
           ss == [k \in 1..n |-> Encoding(s[k])]
<1>1. sent \in Seq(Frame) /\ Len(sent) \in Nat /\ n \in Nat
  BY ScriptType
<1>2. Len(s) = n /\ DOMAIN s = 1..n /\ \A k \in 1..n : s[k] = sent[(i - 1) + k]
  BY <1>1
<1>3. \A k \in 1..n : Encoding(s[k]) \in Seq(Byte)
  <2> TAKE k \in 1..n
  <2>1. (i - 1) + k \in 1..Len(sent)
    BY <1>1
  <2>2. s[k] \in Frame
    BY <1>1, <1>2, <2>1, ElementOfSeq
  <2>3. <<>> \in Seq(Byte)
    OBVIOUS
  <2> QED BY <2>2, <2>3, FrameFirst
<1>4. ss \in [1..n -> Seq(Byte)]
  BY <1>3
<1>5. Rest(i) = FlattenSeq(ss)
  BY <1>2 DEF Rest, Bytes
<1> HIDE DEF ss, n
<1>6. ss \in Seq(Seq(Byte))
  BY <1>1, <1>4
<1> QED BY <1>5, <1>6, FlattenType

LEMMA RestHead ==
  ASSUME sent \in Scripts, NEW i \in 1..Len(sent)
  PROVE  Rest(i) = Encoding(sent[i]) \o Rest(i + 1)
<1> DEFINE s  == SubSeq(sent, i, Len(sent))
           t  == SubSeq(sent, i + 1, Len(sent))
           n  == Len(sent) - i
           ss == [k \in 1..(n + 1) |-> Encoding(s[k])]
           tt == [k \in 1..n |-> Encoding(t[k])]
<1>1. sent \in Seq(Frame) /\ Len(sent) \in Nat /\ n \in Nat
  BY ScriptType
<1>2. DOMAIN s = 1..(n + 1) /\ \A k \in 1..(n + 1) : s[k] = sent[(i - 1) + k]
  BY <1>1
<1>3. DOMAIN t = 1..n /\ \A k \in 1..n : t[k] = sent[i + k]
  BY <1>1
<1>4. \A k \in 1..(n + 1) : Encoding(s[k]) \in Seq(Byte)
  <2> TAKE k \in 1..(n + 1)
  <2>1. (i - 1) + k \in 1..Len(sent)
    BY <1>1
  <2>2. s[k] \in Frame
    BY <1>1, <1>2, <2>1, ElementOfSeq
  <2>3. <<>> \in Seq(Byte)
    OBVIOUS
  <2> QED BY <2>2, <2>3, FrameFirst
<1>5. \A k \in 1..n : t[k] = s[1 + k] /\ 1 + k \in 1..(n + 1)
  <2> TAKE k \in 1..n
  <2>1. 1 + k \in 1..(n + 1) /\ (i - 1) + (1 + k) = i + k
    BY <1>1
  <2> QED BY <1>2, <1>3, <2>1
<1>6. /\ ss \in [1..(n + 1) -> Seq(Byte)] /\ tt \in [1..n -> Seq(Byte)]
      /\ \A k \in 1..n : tt[k] = ss[1 + k]
  BY <1>4, <1>5
<1>7. ss[1] = Encoding(sent[i])
  <2>1. 1 \in 1..(n + 1) /\ (i - 1) + 1 = i
    BY <1>1
  <2> QED BY <1>2, <2>1
<1>8. Rest(i) = FlattenSeq(ss) /\ Rest(i + 1) = FlattenSeq(tt)
  BY <1>2, <1>3 DEF Rest, Bytes
<1> HIDE DEF ss, tt, n, s, t
<1>9. /\ ss \in Seq(Seq(Byte)) /\ Len(ss) = n + 1
      /\ tt \in Seq(Seq(Byte)) /\ Len(tt) = n
  <2>1. n + 1 \in Nat
    BY <1>1
  <2> QED BY <1>1, <1>6, <2>1
<1>10. FlattenSeq(ss) = ss[1] \o FlattenSeq(tt)
  <2>1. /\ n \in Nat /\ ss \in Seq(Seq(Byte)) /\ tt \in Seq(Seq(Byte))
        /\ IsBehind(n, tt, ss)
    BY <1>1, <1>6, <1>9 DEF IsBehind
  <2>2. FlattensBefore(ss, tt)
    BY <2>1, FlattenHead, Zenon
  <2> QED BY <2>2 DEF FlattensBefore
<1> QED BY <1>7, <1>8, <1>10

-----------------------------------------------------------------------------
(* The receive buffer                                                       *)

Buffer == [gap : Nat, data : Seq(Byte)]

\* It is a buffer, and holds no more than its block.
Fit(b) == b \in Buffer /\ b.gap + Len(b.data) <= BufferSize

LEMMA EmptyFits == Fit(Empty) /\ Empty.data = <<>>
BY ReadAssumption DEF Fit, Empty, Buffer

LEMMA DropFits ==
  ASSUME NEW b, Fit(b), NEW n \in Nat, n <= Len(b.data)
  PROVE  Fit(Drop(b, n)) /\ Drop(b, n).data = SubSeq(b.data, n + 1, Len(b.data))
<1> DEFINE d == b.data
<1>1. b.gap \in Nat /\ d \in Seq(Byte) /\ b.gap + Len(d) <= BufferSize
      /\ Len(d) \in Nat /\ n \in 0..Len(d)
  BY DEF Fit, Buffer
<1>2. /\ SubSeq(d, n + 1, Len(d)) \in Seq(Byte)
      /\ Len(SubSeq(d, n + 1, Len(d))) = Len(d) - n
  <2> HIDE DEF d
  <2> QED BY <1>1, Cut, Zenon
<1>3. CASE n = Len(d)
  <2>1. Drop(b, n) = Empty
    BY <1>3 DEF Drop
  <2>2. SubSeq(d, n + 1, Len(d)) = <<>>
    BY <1>1, <1>3
  <2> QED BY <2>1, <2>2, EmptyFits
<1>4. CASE n # Len(d)
  <2>1. Drop(b, n) = [gap |-> b.gap + n, data |-> SubSeq(d, n + 1, Len(d))]
    BY <1>4 DEF Drop
  <2>2. b.gap + n \in Nat /\ (b.gap + n) + (Len(d) - n) <= BufferSize
    BY <1>1
  <2> QED BY <1>2, <2>1, <2>2 DEF Fit, Buffer
<1> QED BY <1>3, <1>4

\* A part that is read finds room, and comes from what is on its way.
LEMMA PartType ==
  ASSUME Fit(buffer), unread \in Seq(Byte), NEW n \in Part
  PROVE  /\ n \in 0..Len(unread) /\ n \in Nat /\ n > 0
         /\ n <= BufferSize - buffer.gap - Len(Data)
<1> DEFINE r == room(buffer, BufferSize)
           u == Len(unread)
<1>1. r \in Int /\ u \in Nat /\ r = BufferSize - buffer.gap - Len(Data)
  BY ReadAssumption DEF Fit, Buffer, room, Data
<1> HIDE DEF r, u
<1>2. n \in 1..Min({r, u})
  BY DEF Part, r, u
<1>3. Min({r, u}) = IF r <= u THEN r ELSE u
  BY <1>1 DEF Min
<1>4. n \in Nat /\ n > 0 /\ n <= r /\ n <= u
  BY <1>1, <1>2, <1>3
<1> QED BY <1>1, <1>4 DEF u

LEMMA FillFits ==
  ASSUME Fit(buffer), unread \in Seq(Byte), NEW n \in Part, Gets(n)
  PROVE  /\ Fit(Filled(n)) /\ unread' \in Seq(Byte)
         /\ Filled(n).data \o unread' = Data \o unread
<1> DEFINE d == Data
           a == SubSeq(unread, 1, n)
<1>1. n \in 0..Len(unread) /\ n \in Nat /\ n <= BufferSize - buffer.gap - Len(d)
  BY PartType
<1>2. d \in Seq(Byte) /\ buffer.gap \in Nat /\ Len(d) \in Nat
  BY DEF Fit, Buffer, Data
<1>3. Keeps(Byte, d, unread, n)
  <2> HIDE DEF d
  <2> QED BY <1>1, <1>2, FillKeeps
<1>4. unread' = SubSeq(unread, n + 1, Len(unread))
  BY DEF Gets
<1>5. Filled(n) = [buffer EXCEPT !.data = d \o a] /\ buffer \in Buffer
  BY DEF Filled, Put, Data, Fit
<1>6. d \o a \in Seq(Byte) /\ Len(d \o a) = Len(d) + n
  BY <1>3 DEF Keeps
<1>7. unread' \in Seq(Byte) /\ (d \o a) \o unread' = d \o unread
  BY <1>3, <1>4 DEF Keeps
<1>8. Filled(n).data = d \o a /\ Filled(n).gap = buffer.gap /\ Filled(n) \in Buffer
  BY <1>5, <1>6 DEF Buffer
<1> HIDE DEF d, a
<1>9. Filled(n).gap + Len(Filled(n).data) <= BufferSize
  BY <1>1, <1>2, <1>6, <1>8, ReadAssumption
<1> QED BY <1>7, <1>8, <1>9 DEF Fit, d

\* The bytes that begin a buffer leave it.
LEMMA TakesPart ==
  ASSUME NEW b, Fit(b), NEW u \in Seq(Byte), NEW x \in Seq(Byte), NEW y \in Seq(Byte),
         NEW m \in Nat, Len(x) = m, m <= Len(b.data), IsPrefix(b.data \o u, x \o y)
  PROVE  /\ Fit(Drop(b, m)) /\ \A i \in 1..m : b.data[i] = x[i]
         /\ IsPrefix(Drop(b, m).data \o u, y)
<1> DEFINE d == b.data
<1>1. d \in Seq(Byte)
  BY DEF Fit, Buffer
<1>2. SubSeq(d, 1, m) = x /\ IsPrefix(SubSeq(d, m + 1, Len(d)) \o u, y)
  <2>1. IsPrefix(d \o u, x \o y) /\ m <= Len(d)
    OBVIOUS
  <2> HIDE DEF d, Byte
  <2> QED BY <1>1, <2>1, DropBoth
<1>3. Fit(Drop(b, m)) /\ Drop(b, m).data = SubSeq(d, m + 1, Len(d))
  BY DropFits
<1>4. \A i \in 1..m : SubSeq(d, 1, m)[i] = d[i]
  <2>1. m <= Len(d)
    OBVIOUS
  <2> HIDE DEF d
  <2> QED BY <1>1, <2>1
<1> QED BY <1>2, <1>3, <1>4

-----------------------------------------------------------------------------
(* The invariant                                                            *)

Places == {"header", "size", "key", "alloc", "payload", "more", "handle", "over", "misread"}

Handing == {Whole(f) : f \in Frame}
Replies == {Answer(h.frame, h.payload) : h \in Handing}

Types ==
  /\ sent \in Scripts /\ unread \in Seq(Byte) /\ Fit(buffer) /\ payload \in Seq(Byte)
  /\ peer \in {"there", "closed", "reset"} /\ pc \in Places
  /\ webSocket \in {"there", "destroyed", "left"}

\* What was handed up are the first of the frames sent, ...
Handed ==
  /\ handed \in Seq(Handing) /\ Len(handed) <= Len(sent)
  /\ \A k \in 1..Len(handed) : handed[k] = Whole(sent[k])

\* ... and was answered.
Answered ==
  answers = IF webSocket = "destroyed" THEN Front(Answers(handed)) ELSE Answers(handed)

\* The frame that is read, and the bytes of those behind it.
Now   == sent[Len(handed) + 1]
After == Rest(Len(handed) + 2)

\* How the bytes go on at a place of the reader.
Todo(place) ==
  IF place = "header" THEN Rest(Len(handed) + 1)
  ELSE IF place = "size"
       THEN SizeBytes(Now.length, 2) \o (KeyBytes(Now) \o (Payload(Now) \o After))
  ELSE IF place = "key" THEN KeyBytes(Now) \o (Payload(Now) \o After)
  ELSE Payload(Now) \o After

\* What the reader has, and will get.
Ahead == payload \o (Data \o unread)

InOrder == pc \notin {"over", "misread"} => IsPrefix(Ahead, Todo(pc))

Inside == {"size", "key", "alloc", "payload", "more", "handle"}

\* The frame is the one that was sent; at "size" its length is not known.
Placed ==
  /\ pc \in Inside =>
       /\ Len(handed) + 1 <= Len(sent)
       /\ frame = IF pc = "size" THEN [Now EXCEPT !.length = Marker16] ELSE Now
  /\ pc = "size" => Marker(Now) = Marker16
  /\ pc = "key" => Now.mask
  /\ pc = "misread" => frame.length = Marker16
  /\ pc \in {"header", "over"} => frame = NoFrame
  /\ pc \notin {"payload", "more", "handle"} => payload = <<>>
  /\ pc \in {"payload", "more", "handle"} => Len(payload) <= frame.length
  /\ pc = "handle" => Len(payload) = frame.length
  /\ pc # "over" => webSocket = "there"

Returned == framesOut = IF pc \in {"header", "over"} THEN 0 ELSE 1

Inv == Types /\ Handed /\ Answered /\ InOrder /\ Placed /\ Returned

-----------------------------------------------------------------------------
(* Steps of every kind                                                      *)

\* What the reader leaves alone.
Kept == <<connection, handed, answers>>

LEMMA KeptStays ==
  ASSUME Inv, UNCHANGED Kept, webSocket # "destroyed", webSocket' # "destroyed"
  PROVE  /\ Handed' /\ Answered' /\ Now' = Now /\ After' = After
         /\ \A place : Todo(place)' = Todo(place)
<1> USE DEF Kept, connection
<1>1. Rest(Len(handed) + 1)' = Rest(Len(handed) + 1) /\ After' = After
  BY DEF Rest, After
<1>2. Now' = Now
  BY DEF Now
<1> QED BY <1>1, <1>2 DEF Inv, Handed, Answered, Todo

\* The frame is given up, and the handler returns.
LEMMA GivesUp ==
  ASSUME Inv, UNCHANGED Kept, pc # "over", pc' = "over", webSocket' = "left",
         frame' = NoFrame, payload' = <<>>, framesOut' = 0,
         Fit(buffer'), unread' \in Seq(Byte)
  PROVE  Inv'
<1>1. webSocket # "destroyed"
  BY DEF Inv, Placed
<1>2. Handed' /\ Answered'
  BY <1>1, KeptStays
<1>3. Types'
  BY DEF Inv, Types, Places, Kept, connection
<1>4. InOrder' /\ Placed' /\ Returned'
  BY DEF InOrder, Placed, Returned, Inside
<1> QED BY <1>2, <1>3, <1>4 DEF Inv

\* The reader goes on.
LEMMA GoesOn ==
  ASSUME Inv, UNCHANGED Kept, UNCHANGED webSocket, pc # "over",
         pc' \in Places \ {"over"}, Fit(buffer'), unread' \in Seq(Byte), payload' \in Seq(Byte),
         framesOut' = IF pc' = "header" THEN 0 ELSE 1,
         Placed', pc' # "misread" => IsPrefix(Ahead', Todo(pc'))
  PROVE  Inv'
<1>1. webSocket = "there"
  BY DEF Inv, Placed
<1>2. Handed' /\ Answered' /\ \A place : Todo(place)' = Todo(place)
  BY <1>1, KeptStays
<1>3. Types'
  BY <1>1 DEF Inv, Types, Places, Kept, connection
<1>4. Todo(pc)' = Todo(pc')
  BY DEF Todo, Now, After, Rest, Kept, connection
<1>5. InOrder'
  BY <1>4 DEF InOrder
<1>6. Returned'
  BY DEF Returned, Places
<1> QED BY <1>2, <1>3, <1>5, <1>6 DEF Inv

\* What is known of the place of the reader.
LEMMA Known ==
  ASSUME Inv
  PROVE  /\ sent \in Scripts /\ unread \in Seq(Byte) /\ Fit(buffer) /\ payload \in Seq(Byte)
         /\ Data \in Seq(Byte) /\ Data = buffer.data /\ Len(handed) \in Nat
         /\ Len(sent) \in Nat /\ Len(handed) <= Len(sent)
         /\ Rest(Len(handed) + 1) \in Seq(Byte)
         /\ Data \o unread \in Seq(Byte)
         /\ payload = <<>> => Ahead = Data \o unread
<1>1. /\ sent \in Scripts /\ unread \in Seq(Byte) /\ Fit(buffer) /\ payload \in Seq(Byte)
      /\ Len(handed) \in Nat /\ Len(handed) <= Len(sent)
  BY DEF Inv, Types, Handed
<1>2. Len(sent) \in Nat
  BY <1>1, ScriptType
<1>3. Data \in Seq(Byte) /\ Data = buffer.data
  BY <1>1 DEF Fit, Buffer, Data
<1>4. Rest(Len(handed) + 1) \in Seq(Byte)
  <2>1. Len(handed) + 1 \in 1..(Len(sent) + 1)
    BY <1>1, <1>2
  <2> QED BY <1>1, <2>1, RestType
<1>5. Data \o unread \in Seq(Byte)
  BY <1>1, <1>3, ConcatProperties
<1>6. payload = <<>> => Ahead = Data \o unread
  BY <1>5, ConcatEmptySeq DEF Ahead
<1> QED BY <1>1, <1>2, <1>3, <1>4, <1>5, <1>6

\* A frame that was sent, and the bytes behind its parts.
LEMMA KnownFrame ==
  ASSUME Inv, Len(handed) + 1 <= Len(sent)
  PROVE  /\ Now \in Frame /\ After \in Seq(Byte)
         /\ Rest(Len(handed) + 1) = Encoding(Now) \o After
         /\ Payload(Now) \o After \in Seq(Byte)
         /\ KeyBytes(Now) \o (Payload(Now) \o After) \in Seq(Byte)
<1>1. sent \in Scripts /\ Len(handed) \in Nat /\ Len(sent) \in Nat
  BY Known
<1> DEFINE i == Len(handed) + 1
<1>2. i \in 1..Len(sent) /\ i \in 1..(Len(sent) + 1) /\ i + 1 \in 1..(Len(sent) + 1)
      /\ i + 1 = Len(handed) + 2
  BY <1>1
<1>3. Now \in Frame
  BY <1>1, <1>2, ScriptType, ElementOfSeq DEF Now
<1>4. After \in Seq(Byte)
  BY <1>1, <1>2, RestType DEF After
<1>5. Rest(i) = Encoding(sent[i]) \o Rest(i + 1)
  <2> HIDE DEF i
  <2> QED BY <1>1, <1>2, RestHead
<1>6. Rest(i) = Encoding(Now) \o After
  BY <1>2, <1>5 DEF Now, After
<1>7. /\ Payload(Now) \o After \in Seq(Byte)
      /\ KeyBytes(Now) \o (Payload(Now) \o After) \in Seq(Byte)
  BY <1>3, <1>4, FrameFirst
<1> QED BY <1>3, <1>4, <1>6, <1>7

-----------------------------------------------------------------------------
(* Every step                                                               *)

LEMMA NowStays ==
  ASSUME UNCHANGED Kept
  PROVE  Now' = Now
BY DEF Kept, connection, Now

\* A sequence with an element is not the beginning of an empty one.
LEMMA NotInEmpty ==
  ASSUME NEW S, NEW p \in Seq(S), IsPrefix(p, <<>>)
  PROVE  Len(p) = 0
<1>1. <<>> \in Seq(S)
  OBVIOUS
<1>2. PICK w \in Seq(S) : Joined(p, w, <<>>)
  BY <1>1, BeginningGoesOn
<1>3. Len(p \o w) = Len(p) + Len(w)
  BY ConcatProperties
<1>4. Len(p \o w) = 0
  BY <1>2 DEF Joined
<1> QED BY <1>3, <1>4

\* Bytes that come keep what is ahead, and the reader goes on with it.
LEMMA FillGoesOn ==
  ASSUME Inv, UNCHANGED Kept, UNCHANGED <<webSocket, frame, payload, framesOut>>,
         NEW n \in Part, Gets(n), buffer' = Filled(n),
         \/ pc = "header" /\ pc' = "header"
         \/ pc = "more" /\ pc' = "payload"
  PROVE  Inv'
<1>1. unread \in Seq(Byte) /\ Fit(buffer) /\ payload \in Seq(Byte)
  BY Known
<1>2. /\ Fit(buffer') /\ unread' \in Seq(Byte)
      /\ buffer'.data \o unread' = Data \o unread
  BY <1>1, FillFits
<1>3. Ahead' = Ahead
  BY <1>2 DEF Ahead, Data
<1>4. Todo(pc') = Todo(pc)
  BY DEF Todo
<1>5. IsPrefix(Ahead', Todo(pc'))
  BY <1>3, <1>4 DEF Inv, InOrder
<1>6. Now' = Now
  BY NowStays
<1>7. Placed'
  BY <1>6 DEF Inv, Placed, Inside, Kept, connection
<1>8. framesOut' = IF pc' = "header" THEN 0 ELSE 1
  BY DEF Inv, Returned
<1>9. pc' \in Places \ {"over"} /\ pc # "over" /\ payload' \in Seq(Byte)
  BY <1>1 DEF Places
<1> QED BY <1>2, <1>5, <1>7, <1>8, <1>9, GoesOn

LEMMA FillHeaderStep ==
  ASSUME Inv, FillHeader
  PROVE  Inv'
<1>1. PICK n \in Part : Gets(n) /\ buffer' = Filled(n)
  BY DEF FillHeader
<1> QED BY <1>1, FillGoesOn DEF FillHeader, Reading, Goes, Kept

LEMMA MorePayloadStep ==
  ASSUME Inv, MorePayload
  PROVE  Inv'
<1>1. PICK n \in Part : Gets(n) /\ buffer' = Filled(n)
  BY DEF MorePayload
<1> QED BY <1>1, FillGoesOn DEF MorePayload, Reading, Goes, Kept

\* ERROR_READING.
LEMMA ErrorReadingStep ==
  ASSUME Inv, UNCHANGED Kept, pc \in Inside, ErrorReading, Fit(buffer'), unread' \in Seq(Byte)
  PROVE  Inv'
<1>1. framesOut' = 0
  BY DEF Inv, Returned, Inside, ErrorReading
<1> QED BY <1>1, GivesUp DEF ErrorReading, Over, Inside

LEMMA WaysOutStep ==
  ASSUME Inv, NoHeader \/ NoEmptyFrame \/ SizeOrKeyFails \/ PayloadFails
  PROVE  Inv'
<1>1. unread \in Seq(Byte) /\ Fit(buffer)
  BY Known
<1>2. CASE NoHeader \/ NoEmptyFrame
  <2>1. pc = "header" /\ UNCHANGED <<Kept, unread, buffer, frame, payload, framesOut>> /\ Over
    BY <1>2 DEF NoHeader, NoEmptyFrame, Reading, Kept
  <2>2. frame = NoFrame /\ payload = <<>> /\ framesOut = 0
    BY <2>1 DEF Inv, Placed, Returned
  <2> QED BY <1>1, <2>1, <2>2, GivesUp DEF Over
<1>3. CASE SizeOrKeyFails \/ PayloadFails
  <2>1. pc \in Inside /\ UNCHANGED <<Kept, unread, buffer>> /\ ErrorReading
    BY <1>3 DEF SizeOrKeyFails, PayloadFails, Reading, Kept, Inside
  <2> QED BY <1>1, <2>1, ErrorReadingStep
<1> QED BY <1>2, <1>3

\* The first two bytes of what is ahead are the start of a frame that was sent.
LEMMA HeaderIsStart ==
  ASSUME Inv, pc = "header", Len(Data) >= 2
  PROVE  /\ Len(handed) + 1 <= Len(sent) /\ Fit(Drop(buffer, 2))
         /\ Data[1][2] = Now.opcode /\ Data[2][2] = Now.mask /\ Data[2][3] = Marker(Now)
         /\ IsPrefix(Drop(buffer, 2).data \o unread,
                     SizePart(Now) \o (KeyBytes(Now) \o (Payload(Now) \o After)))
<1>1. /\ sent \in Scripts /\ unread \in Seq(Byte) /\ Fit(buffer)
      /\ Data \in Seq(Byte) /\ Data = buffer.data /\ Len(handed) \in Nat
      /\ Len(sent) \in Nat /\ Len(handed) <= Len(sent)
      /\ Data \o unread \in Seq(Byte)
  BY Known
<1>2. Ahead = Data \o unread
  BY Known DEF Inv, Placed
<1>3. IsPrefix(Data \o unread, Rest(Len(handed) + 1))
  BY <1>2 DEF Inv, InOrder, Todo
<1>4. Len(handed) + 1 <= Len(sent)
  <2>1. SUFFICES ASSUME Len(handed) = Len(sent) PROVE FALSE
    BY <1>1
  <2>2. Rest(Len(handed) + 1) = <<>>
    BY <1>1, <2>1, RestEnd
  <2>3. Len(Data \o unread) = Len(Data) + Len(unread)
    BY <1>1, ConcatProperties
  <2> DEFINE p == Data \o unread
  <2>4. p \in Seq(Byte) /\ IsPrefix(p, <<>>)
    BY <1>1, <1>3, <2>2
  <2> HIDE DEF p
  <2>5. Len(p) = 0
    BY <2>4, NotInEmpty
  <2> QED BY <1>1, <2>3, <2>5 DEF p
<1> DEFINE y == SizePart(Now) \o (KeyBytes(Now) \o (Payload(Now) \o After))
<1>5. Now \in Frame /\ After \in Seq(Byte) /\ Rest(Len(handed) + 1) = Encoding(Now) \o After
  BY <1>4, KnownFrame
<1>6. y \in Seq(Byte) /\ Encoding(Now) \o After = Start(Now) \o y
  BY <1>5, FrameFirst
<1>7. Start(Now) \in Seq(Byte) /\ Len(Start(Now)) = 2
  BY <1>5, FrameParts
<1>8. IsPrefix(buffer.data \o unread, Start(Now) \o y)
  BY <1>1, <1>3, <1>5, <1>6
<1> HIDE DEF y
<1>9. /\ Fit(Drop(buffer, 2)) /\ \A i \in 1..2 : buffer.data[i] = Start(Now)[i]
      /\ IsPrefix(Drop(buffer, 2).data \o unread, y)
  <2>1. 2 \in Nat /\ 2 <= Len(buffer.data)
    BY <1>1
  <2> HIDE DEF Byte
  <2> QED BY <1>1, <1>6, <1>7, <1>8, <2>1, TakesPart, ZenonT(40)
<1>10. Data[1] = <<"op", Now.opcode>> /\ Data[2] = <<"len", Now.mask, Marker(Now)>>
  <2>1. 1 \in 1..2 /\ 2 \in 1..2
    OBVIOUS
  <2> QED BY <1>1, <1>9, <2>1 DEF Start, FirstByte
<1> QED BY <1>4, <1>9, <1>10 DEF y

LEMMA HeaderStep ==
  ASSUME Inv, Header
  PROVE  Inv'
<1> DEFINE f == [opcode |-> Data[1][2], mask |-> Data[2][2], length |-> Data[2][3]]
<1>1. /\ pc = "header" /\ UNCHANGED <<Kept, unread, payload>> /\ Len(Data) >= 2
      /\ buffer' = Drop(buffer, 2)
  BY DEF Header, Reading, Have, Kept
<1>2. /\ IF f.length = Marker64
         THEN Over /\ UNCHANGED <<frame, framesOut>>
         ELSE /\ frame' = f /\ framesOut' = framesOut + 1
              /\ Goes(IF f.length = Marker16 THEN "size" ELSE Then(f))
  BY Zenon DEF Header
<1>3. /\ Len(handed) + 1 <= Len(sent) /\ Fit(buffer')
      /\ Data[1][2] = Now.opcode /\ Data[2][2] = Now.mask /\ Data[2][3] = Marker(Now)
      /\ IsPrefix(buffer'.data \o unread,
                  SizePart(Now) \o (KeyBytes(Now) \o (Payload(Now) \o After)))
  BY <1>1, HeaderIsStart
<1>4. frame = NoFrame /\ payload = <<>> /\ framesOut = 0 /\ webSocket = "there"
  BY <1>1 DEF Inv, Placed, Returned
<1>5. unread' \in Seq(Byte) /\ payload' \in Seq(Byte) /\ unread' = unread
  BY <1>1, Known
<1>6. Now \in Frame /\ KeyBytes(Now) \o (Payload(Now) \o After) \in Seq(Byte)
      /\ Payload(Now) \o After \in Seq(Byte)
  BY <1>3, KnownFrame
<1>7. f = [opcode |-> Now.opcode, mask |-> Now.mask, length |-> Marker(Now)]
  BY <1>3
<1>8. CASE Marker(Now) = Marker64
  <2>1. Over /\ UNCHANGED <<frame, framesOut>>
    BY <1>2, <1>7, <1>8
  <2> QED BY <1>1, <1>3, <1>4, <1>5, <2>1, GivesUp DEF Over
<1>9. CASE Marker(Now) # Marker64
  <2>1. /\ frame' = f /\ framesOut' = 1 /\ UNCHANGED webSocket
        /\ pc' = IF Marker(Now) = Marker16 THEN "size" ELSE IF Now.mask THEN "key" ELSE "alloc"
    BY <1>2, <1>4, <1>7, <1>9 DEF Goes, Then
  <2>2. Now' = Now
    BY <1>1, NowStays
  <2>3. /\ Now = [opcode |-> Now.opcode, mask |-> Now.mask, length |-> Now.length]
        /\ Marker(Now) # Marker16 => Marker(Now) = Now.length
    BY <1>6, <1>9, FrameType
  <2>4. Placed'
    <3>1. UNCHANGED <<sent, handed>>
      BY <1>1 DEF Kept, connection
    <3>2. frame' = IF pc' = "size" THEN [Now EXCEPT !.length = Marker16] ELSE Now
      BY <1>7, <2>1, <2>3
    <3>3. pc' \in {"size", "key", "alloc"} /\ webSocket' = "there" /\ payload' = <<>>
      BY <1>1, <1>4, <2>1
    <3>4. (pc' = "size" => Marker(Now) = Marker16) /\ (pc' = "key" => Now.mask)
      BY <2>1
    <3> QED BY <1>3, <2>2, <3>1, <3>2, <3>3, <3>4 DEF Placed, Inside
  <2>5. Ahead' = buffer'.data \o unread
    <3>1. buffer'.data \in Seq(Byte)
      BY <1>3 DEF Fit, Buffer
    <3>2. buffer'.data \o unread' \in Seq(Byte)
      BY <1>5, <3>1, ConcatProperties
    <3> QED BY <1>1, <1>4, <1>5, <3>2, ConcatEmptySeq DEF Ahead, Data
  <2>6. SizePart(Now) \o (KeyBytes(Now) \o (Payload(Now) \o After)) = Todo(pc')
    <3>1. CASE Marker(Now) = Marker16
      <4>1. SizePart(Now) = SizeBytes(Now.length, 2)
        BY <1>6, <3>1, FrameParts
      <4> QED BY <2>1, <3>1, <4>1, Zenon DEF Todo
    <3>2. CASE Marker(Now) # Marker16
      <4>1. SizePart(Now) = <<>>
        BY <1>6, <1>9, <3>2, FrameParts
      <4>2. <<>> \o (KeyBytes(Now) \o (Payload(Now) \o After))
              = KeyBytes(Now) \o (Payload(Now) \o After)
        BY <1>6, ConcatEmptySeq
      <4>3. CASE Now.mask
        BY <2>1, <3>2, <4>1, <4>2, <4>3 DEF Todo
      <4>4. CASE ~Now.mask
        <5>1. KeyBytes(Now) = <<>>
          BY <1>6, <4>4, FrameParts
        <5>2. <<>> \o (Payload(Now) \o After) = Payload(Now) \o After
          BY <1>6, ConcatEmptySeq
        <5> QED BY <2>1, <3>2, <4>1, <4>2, <4>4, <5>1, <5>2 DEF Todo
      <4> QED BY <4>3, <4>4
    <3> QED BY <3>1, <3>2
  <2>7. IsPrefix(Ahead', Todo(pc'))
    BY <1>3, <2>5, <2>6
  <2>8. pc' \in Places \ {"over"} /\ pc' # "header" /\ pc # "over"
    BY <1>1, <2>1 DEF Places
  <2> QED BY <1>1, <1>3, <1>5, <2>1, <2>4, <2>7, <2>8, GoesOn
<1> QED BY <1>8, <1>9

\* The two bytes of an extended length, in a buffer b that u follows.
LEMMA SizeStep ==
  ASSUME Inv, pc = "size", UNCHANGED Kept, UNCHANGED <<payload, framesOut>>,
         NEW b, Fit(b), unread' \in Seq(Byte), b.data \o unread' = Data \o unread, Size(b)
  PROVE  Inv'
<1>1. /\ payload = <<>> /\ framesOut = 1 /\ webSocket = "there" /\ Len(handed) + 1 <= Len(sent)
      /\ Marker(Now) = Marker16 /\ frame = [Now EXCEPT !.length = Marker16]
  BY DEF Inv, Placed, Returned, Inside
<1>2. /\ Now \in Frame /\ After \in Seq(Byte)
      /\ KeyBytes(Now) \o (Payload(Now) \o After) \in Seq(Byte)
      /\ Payload(Now) \o After \in Seq(Byte)
  BY <1>1, KnownFrame
<1>3. Now = [opcode |-> Now.opcode, mask |-> Now.mask, length |-> Now.length]
  BY <1>2, FrameType
<1>4. Now' = Now
  BY NowStays
<1>5. payload' \in Seq(Byte) /\ Len(handed) \in Nat
  BY <1>1, Known
<1>6. UNCHANGED <<sent, handed>>
  BY DEF Kept, connection
<1>7. CASE Len(b.data) < 2
  <2>1. pc' = "misread" /\ UNCHANGED <<webSocket, frame>> /\ buffer' = b
    BY <1>7 DEF Size, Goes
  <2>2. frame.length = Marker16
    BY <1>1, <1>3
  <2>3. Placed'
    BY <1>1, <2>1, <2>2 DEF Placed, Inside
  <2> QED BY <1>1, <1>5, <2>1, <2>3, GoesOn DEF Places
<1>8. CASE ~(Len(b.data) < 2)
  <2> DEFINE f == [frame EXCEPT !.length = b.data[1][2]]
             y == KeyBytes(Now) \o (Payload(Now) \o After)
  <2>1. Goes(Then(f)) /\ frame' = f /\ buffer' = Drop(b, 2)
    BY <1>8 DEF Size
  <2>2. IsPrefix(Data \o unread, SizeBytes(Now.length, 2) \o y)
    <3>1. Ahead = Data \o unread
      BY <1>1, Known
    <3> QED BY <3>1 DEF Inv, InOrder, Todo
  <2>3. SizeBytes(Now.length, 2) \in Seq(Byte) /\ Len(SizeBytes(Now.length, 2)) = 2
    BY <1>2, FrameParts
  <2>4. Len(b.data) \in Nat
    BY DEF Fit, Buffer
  <2>5. /\ Fit(Drop(b, 2)) /\ \A i \in 1..2 : b.data[i] = SizeBytes(Now.length, 2)[i]
        /\ IsPrefix(Drop(b, 2).data \o unread', y)
    <3>1. 2 \in Nat /\ 2 <= Len(b.data) /\ y \in Seq(Byte)
      BY <1>2, <1>8, <2>4
    <3>2. IsPrefix(b.data \o unread', SizeBytes(Now.length, 2) \o y)
      BY <2>2
    <3> HIDE DEF Byte, y
    <3> QED BY <2>3, <3>1, <3>2, TakesPart
  <2>6. b.data[1][2] = Now.length
    <3>1. 1 \in 1..2
      OBVIOUS
    <3> QED BY <2>5, <3>1 DEF SizeBytes
  <2>7. f = Now
    BY <1>1, <1>3, <2>6
  <2>8. /\ frame' = Now /\ UNCHANGED webSocket
        /\ pc' = IF Now.mask THEN "key" ELSE "alloc"
    BY <2>1, <2>7 DEF Goes, Then
  <2>9. Placed'
    BY <1>1, <1>4, <1>6, <2>8 DEF Placed, Inside
  <2>10. Ahead' = Drop(b, 2).data \o unread'
    <3>1. buffer'.data \in Seq(Byte)
      BY <2>1, <2>5 DEF Fit, Buffer
    <3>2. buffer'.data \o unread' \in Seq(Byte)
      BY <3>1, ConcatProperties
    <3> QED BY <1>1, <2>1, <3>2, ConcatEmptySeq DEF Ahead, Data
  <2>11. y = Todo(pc')
    <3>1. CASE Now.mask
      BY <2>8, <3>1 DEF Todo
    <3>2. CASE ~Now.mask
      <4>1. KeyBytes(Now) = <<>>
        BY <1>2, <3>2, FrameParts
      <4>2. <<>> \o (Payload(Now) \o After) = Payload(Now) \o After
        BY <1>2, ConcatEmptySeq
      <4> QED BY <2>8, <3>2, <4>1, <4>2 DEF Todo
    <3> QED BY <3>1, <3>2
  <2>12. IsPrefix(Ahead', Todo(pc'))
    BY <2>5, <2>10, <2>11
  <2>13. pc' \in Places \ {"over"} /\ pc' # "header" /\ Fit(buffer')
    BY <2>1, <2>5, <2>8 DEF Places
  <2> QED BY <1>1, <1>5, <2>8, <2>9, <2>12, <2>13, GoesOn
<1> QED BY <1>7, <1>8

LEMMA ReadSizeStep ==
  ASSUME Inv, ReadSize
  PROVE  Inv'
<1>1. pc = "size" /\ UNCHANGED Kept /\ UNCHANGED <<payload, framesOut>>
  BY DEF ReadSize, Reading, Kept
<1>2. unread \in Seq(Byte) /\ Fit(buffer)
  BY Known
<1>3. CASE Size(buffer) /\ UNCHANGED unread
  BY <1>1, <1>2, <1>3, SizeStep DEF Data
<1>4. CASE \E n \in Part : Gets(n) /\ Size(Filled(n))
  <2>1. PICK n \in Part : Gets(n) /\ Size(Filled(n))
    BY <1>4
  <2>2. Fit(Filled(n)) /\ unread' \in Seq(Byte) /\ Filled(n).data \o unread' = Data \o unread
    BY <1>2, <2>1, FillFits
  <2> QED BY <1>1, <2>1, <2>2, SizeStep
<1> QED BY <1>3, <1>4 DEF ReadSize

\* The mask, in a buffer b.
LEMMA KeyStep ==
  ASSUME Inv, pc = "key", UNCHANGED Kept,
         NEW b, Fit(b), unread' \in Seq(Byte), b.data \o unread' = Data \o unread, Key(b)
  PROVE  Inv'
<1>1. /\ payload = <<>> /\ framesOut = 1 /\ webSocket = "there" /\ Len(handed) + 1 <= Len(sent)
      /\ Now.mask /\ frame = Now
  BY DEF Inv, Placed, Returned, Inside
<1>2. Now \in Frame /\ After \in Seq(Byte) /\ Payload(Now) \o After \in Seq(Byte)
  BY <1>1, KnownFrame
<1>3. CASE Len(b.data) < 4
  <2>1. ErrorReading /\ buffer' = Empty
    BY <1>3 DEF Key
  <2>2. Fit(buffer')
    BY <2>1, EmptyFits
  <2> QED BY <2>1, <2>2, ErrorReadingStep DEF Inside
<1>4. CASE ~(Len(b.data) < 4)
  <2>1. pc' = "alloc" /\ buffer' = Drop(b, 4) /\ UNCHANGED <<webSocket, frame, payload, framesOut>>
    BY <1>4 DEF Key, Goes
  <2> DEFINE y == Payload(Now) \o After
  <2>2. IsPrefix(b.data \o unread', KeyBytes(Now) \o y)
    <3>1. Ahead = Data \o unread
      BY <1>1, Known
    <3> QED BY <3>1 DEF Inv, InOrder, Todo
  <2>3. KeyBytes(Now) \in Seq(Byte) /\ Len(KeyBytes(Now)) = 4
    BY <1>1, <1>2, FrameParts
  <2>4. Fit(Drop(b, 4)) /\ IsPrefix(Drop(b, 4).data \o unread', y)
    <3>1. Len(b.data) \in Nat
      BY DEF Fit, Buffer
    <3>2. 4 \in Nat /\ 4 <= Len(b.data) /\ y \in Seq(Byte)
      BY <1>2, <1>4, <3>1
    <3> HIDE DEF Byte, y
    <3>3. /\ Fit(Drop(b, 4)) /\ \A i \in 1..4 : b.data[i] = KeyBytes(Now)[i]
          /\ IsPrefix(Drop(b, 4).data \o unread', y)
      BY <2>2, <2>3, <3>2, TakesPart
    <3> QED BY <3>3
  <2>5. Placed'
    <3>1. Now' = Now /\ UNCHANGED <<sent, handed>>
      BY NowStays DEF Kept, connection
    <3> QED BY <1>1, <2>1, <3>1 DEF Placed, Inside
  <2>6. Ahead' = Drop(b, 4).data \o unread'
    <3>1. buffer'.data \in Seq(Byte)
      BY <2>1, <2>4 DEF Fit, Buffer
    <3>2. buffer'.data \o unread' \in Seq(Byte)
      BY <3>1, ConcatProperties
    <3> QED BY <1>1, <2>1, <3>2, ConcatEmptySeq DEF Ahead, Data
  <2>7. IsPrefix(Ahead', Todo(pc'))
    BY <2>1, <2>4, <2>6 DEF Todo
  <2>8. payload' \in Seq(Byte)
    BY <2>1, Known
  <2> QED BY <1>1, <2>1, <2>4, <2>5, <2>7, <2>8, GoesOn DEF Places
<1> QED BY <1>3, <1>4

LEMMA ReadKeyStep ==
  ASSUME Inv, ReadKey
  PROVE  Inv'
<1>1. pc = "key" /\ UNCHANGED Kept
  BY DEF ReadKey, Reading, Kept
<1>2. unread \in Seq(Byte) /\ Fit(buffer)
  BY Known
<1>3. CASE Key(buffer) /\ UNCHANGED unread
  BY <1>1, <1>2, <1>3, KeyStep DEF Data
<1>4. CASE \E n \in Part : Gets(n) /\ Key(Filled(n))
  <2>1. PICK n \in Part : Gets(n) /\ Key(Filled(n))
    BY <1>4
  <2>2. Fit(Filled(n)) /\ unread' \in Seq(Byte) /\ Filled(n).data \o unread' = Data \o unread
    BY <1>2, <2>1, FillFits
  <2> QED BY <1>1, <2>1, <2>2, KeyStep
<1> QED BY <1>3, <1>4 DEF ReadKey

LEMMA AllocStep ==
  ASSUME Inv, Alloc
  PROVE  Inv'
<1>1. pc = "alloc" /\ UNCHANGED <<Kept, unread, buffer>>
  BY DEF Alloc, Reading, Kept
<1>2. unread' \in Seq(Byte) /\ Fit(buffer')
  BY <1>1, Known
<1>3. CASE ErrorReading
  BY <1>1, <1>2, <1>3, ErrorReadingStep DEF Inside
<1>4. CASE Goes("payload") /\ UNCHANGED <<frame, payload, framesOut>>
  <2>1. pc' = "payload" /\ UNCHANGED <<webSocket, frame, payload, framesOut>>
    BY <1>4 DEF Goes
  <2>2. payload = <<>> /\ framesOut = 1 /\ webSocket = "there" /\ frame = Now
        /\ Len(handed) + 1 <= Len(sent)
    BY <1>1 DEF Inv, Placed, Returned, Inside
  <2>3. Now' = Now /\ UNCHANGED <<sent, handed>>
    BY <1>1, NowStays DEF Kept, connection
  <2>4. Len(payload) <= frame.length
    <3>1. frame.length \in Nat
      BY <2>2, KnownFrame, FrameType
    <3>2. Len(payload) = 0
      BY <2>2
    <3> QED BY <3>1, <3>2
  <2>5. Placed'
    BY <2>1, <2>2, <2>3, <2>4 DEF Placed, Inside
  <2>6. Ahead' = Ahead /\ Todo(pc') = Todo(pc)
    BY <1>1, <2>1 DEF Ahead, Data, Todo
  <2>7. IsPrefix(Ahead', Todo(pc'))
    BY <1>1, <2>6 DEF Inv, InOrder
  <2>8. payload' \in Seq(Byte)
    BY <2>1, Known
  <2> QED BY <1>1, <1>2, <2>1, <2>2, <2>5, <2>7, <2>8, GoesOn DEF Places
<1> QED BY <1>3, <1>4 DEF Alloc

\* What the buffer gives to the payload stays ahead.
LEMMA TakePayloadStep ==
  ASSUME Inv, TakePayload
  PROVE  Inv'
<1> DEFINE n == Min({Remaining, Len(Data)})
<1>1. /\ pc = "payload" /\ UNCHANGED <<Kept, unread, frame, framesOut, webSocket>>
      /\ payload' = payload \o SubSeq(Data, 1, n)
      /\ buffer' = IF n > 0 THEN Drop(buffer, n) ELSE buffer
      /\ pc' = IF n = Remaining THEN "handle" ELSE "more"
  BY DEF TakePayload, Reading, Goes, Kept
<1>2. /\ framesOut = 1 /\ webSocket = "there" /\ frame = Now
      /\ Len(handed) + 1 <= Len(sent) /\ Len(payload) <= frame.length
  BY <1>1 DEF Inv, Placed, Returned, Inside
<1>3. /\ unread \in Seq(Byte) /\ Fit(buffer) /\ payload \in Seq(Byte)
      /\ Data \in Seq(Byte) /\ Data = buffer.data
  BY Known
<1>4. frame.length \in Nat /\ Len(payload) \in Nat /\ Len(Data) \in Nat
  BY <1>2, <1>3, KnownFrame, FrameType
<1> DEFINE r == Remaining
           d == Len(Data)
<1>5. n \in 0..d /\ n \in Nat /\ n <= r /\ r = frame.length - Len(payload)
  <2>1. r \in Nat /\ d \in Nat /\ r = frame.length - Len(payload)
    BY <1>2, <1>4 DEF Remaining
  <2> HIDE DEF r, d
  <2>2. Min({r, d}) = IF r <= d THEN r ELSE d
    BY <2>1 DEF Min
  <2>3. Min({r, d}) \in 0..d /\ Min({r, d}) \in Nat /\ Min({r, d}) <= r
    BY <2>1, <2>2
  <2> QED BY <2>1, <2>3 DEF r, d
<1>6. buffer'.data = SubSeq(Data, n + 1, Len(Data)) /\ Fit(buffer')
  <2> HIDE DEF n
  <2>1. CASE n > 0
    BY <1>1, <1>3, <1>5, <2>1, DropFits DEF d
  <2>2. CASE ~(n > 0)
    <3>1. n = 0 /\ buffer' = buffer
      BY <1>1, <1>5, <2>2
    <3>2. SubSeq(Data, 1, Len(Data)) = Data
      BY <1>3
    <3> QED BY <1>3, <3>1, <3>2
  <2> QED BY <2>1, <2>2
<1> DEFINE a == payload \o SubSeq(Data, 1, n)
           e == SubSeq(Data, n + 1, Len(Data))
<1>7. /\ a \in Seq(Byte) /\ Len(a) = Len(payload) + n /\ e \in Seq(Byte)
      /\ a \o e = payload \o Data
  <2> HIDE DEF n
  <2>1. Keeps(Byte, payload, Data, n)
    BY <1>3, <1>5, FillKeeps DEF d
  <2> QED BY <2>1 DEF Keeps
<1>8. Ahead' = Ahead
  <2>1. Ahead' = a \o (e \o unread)
    BY <1>1, <1>6 DEF Ahead, Data
  <2> HIDE DEF a, e, Byte
  <2>2. (a \o e) \o unread = a \o (e \o unread)
    <3>1. Associates(a, e, unread)
      BY <1>3, <1>7, ThreeJoin
    <3> QED BY <3>1 DEF Associates
  <2>3. (payload \o Data) \o unread = payload \o (Data \o unread)
    <3>1. Associates(payload, Data, unread)
      BY <1>3, ThreeJoin
    <3> QED BY <3>1 DEF Associates
  <2> QED BY <1>7, <2>1, <2>2, <2>3 DEF Ahead
<1>9. Todo(pc') = Todo(pc)
  BY <1>1 DEF Todo
<1>10. IsPrefix(Ahead', Todo(pc'))
  BY <1>1, <1>8, <1>9 DEF Inv, InOrder
<1> HIDE DEF n, r, d
<1>11. Len(payload') <= frame.length /\ (pc' = "handle" => Len(payload') = frame.length)
  <2>1. Len(payload') = Len(payload) + n
    BY <1>1, <1>7
  <2>2. pc' = "handle" => n = r
    BY <1>1 DEF r
  <2> QED BY <1>4, <1>5, <2>1, <2>2
<1>12. Placed'
  <2>1. Now' = Now /\ UNCHANGED <<sent, handed>>
    BY <1>1, NowStays DEF Kept, connection
  <2>2. pc' \in {"handle", "more"} /\ frame' = Now
    BY <1>1, <1>2
  <2> QED BY <1>1, <1>2, <1>11, <2>1, <2>2 DEF Placed, Inside
<1>13. pc' \in Places \ {"over"} /\ pc' # "header" /\ payload' \in Seq(Byte) /\ unread' \in Seq(Byte)
  BY <1>1, <1>3, <1>7 DEF Places
<1> QED BY <1>1, <1>2, <1>6, <1>10, <1>12, <1>13, GoesOn

-----------------------------------------------------------------------------
(* The handler                                                              *)

\* The payload is whole when the frame is handed up.
LEMMA WhatIsHanded ==
  ASSUME Inv, pc = "handle"
  PROVE  /\ frame = Now /\ Now \in Frame /\ Len(handed) + 1 <= Len(sent)
         /\ [frame |-> frame, payload |-> payload] = Whole(Now)
         /\ IsPrefix(Data \o unread, After)
<1>1. /\ frame = Now /\ Len(handed) + 1 <= Len(sent) /\ Len(payload) = frame.length
  BY DEF Inv, Placed, Inside
<1>2. Now \in Frame /\ After \in Seq(Byte)
  BY <1>1, KnownFrame
<1>3. payload \in Seq(Byte) /\ Data \o unread \in Seq(Byte)
  BY Known
<1>4. Payload(Now) \in Seq(Byte) /\ Len(Payload(Now)) = Now.length /\ Now.length \in Nat
  BY <1>2, FrameParts, FrameType
<1> DEFINE u == Data \o unread
           m == Now.length
           x == Payload(Now)
<1>5. IsPrefix(payload \o u, x \o After)
  BY DEF Inv, InOrder, Todo, Ahead
<1>6. u \in Seq(Byte) /\ x \in Seq(Byte) /\ Len(x) = m /\ m \in Nat /\ Len(payload) = m
  BY <1>1, <1>3, <1>4
<1> HIDE DEF u, m, x, Byte
<1>7. /\ SubSeq(payload, 1, m) = x
      /\ IsPrefix(SubSeq(payload, m + 1, Len(payload)) \o u, After)
  <2>1. m <= Len(payload)
    BY <1>6
  <2> QED BY <1>2, <1>3, <1>5, <1>6, <2>1, DropBoth
<1>8. SubSeq(payload, 1, m) = payload
  BY <1>3, <1>6
<1>9. SubSeq(payload, m + 1, Len(payload)) = <<>>
  BY <1>3, <1>6
<1>10. <<>> \o u = u
  BY <1>6, ConcatEmptySeq
<1>11. IsPrefix(u, After)
  BY <1>7, <1>9, <1>10
<1>12. [frame |-> frame, payload |-> payload] = Whole(Now)
  BY <1>1, <1>7, <1>8 DEF Whole, x
<1> QED BY <1>1, <1>2, <1>11, <1>12 DEF u

\* One more frame that is handed up is the next one that was sent.
LEMMA HandedGrows ==
  ASSUME Inv, pc = "handle", HandedUp, UNCHANGED sent
  PROVE  Handed' /\ (Rest(Len(handed) + 1))' = After
<1>1. /\ Now \in Frame /\ Len(handed) + 1 <= Len(sent)
      /\ [frame |-> frame, payload |-> payload] = Whole(Now)
  BY WhatIsHanded
<1>2. handed' = Append(handed, Whole(Now))
  BY <1>1 DEF HandedUp
<1>3. /\ handed \in Seq(Handing) /\ \A k \in 1..Len(handed) : handed[k] = Whole(sent[k])
  BY DEF Inv, Handed
<1>4. Whole(Now) \in Handing
  BY <1>1 DEF Handing
<1>5. PICK n \in Nat : n = Len(handed)
  BY <1>3
<1>6. /\ handed' \in Seq(Handing) /\ Len(handed') = n + 1
      /\ \A k \in 1..n : handed'[k] = handed[k]
      /\ handed'[n + 1] = Whole(Now)
  <2> DEFINE w == Whole(Now)
  <2> HIDE DEF w, Handing
  <2>1. handed' = Append(handed, w) /\ w \in Handing
    BY <1>2, <1>4 DEF w
  <2>2. /\ handed' \in Seq(Handing) /\ Len(handed') = n + 1
        /\ \A k \in 1..n : handed'[k] = handed[k]
        /\ handed'[n + 1] = w
    BY <1>3, <1>5, <2>1
  <2> QED BY <2>2 DEF w
<1>7. \A k \in 1..(n + 1) : handed'[k] = Whole(sent[k])
  <2> TAKE k \in 1..(n + 1)
  <2>1. CASE k = n + 1
    BY <1>5, <1>6, <2>1 DEF Now
  <2>2. CASE k # n + 1
    <3>1. k \in 1..n
      BY <2>2
    <3> QED BY <1>3, <1>5, <1>6, <3>1
  <2> QED BY <2>1, <2>2
<1>8. Handed'
  BY <1>1, <1>5, <1>6, <1>7 DEF Handed
<1>9. (Rest(Len(handed) + 1))' = After
  <2>1. (Rest(Len(handed) + 1))' = Bytes(SubSeq(sent, (n + 1) + 1, Len(sent)))
    BY <1>6 DEF Rest
  <2>2. (n + 1) + 1 = Len(handed) + 2
    BY <1>5
  <2> QED BY <2>1, <2>2 DEF After, Rest
<1> QED BY <1>8, <1>9

\* What is handed up, and what it asks for.
LEMMA AnswersAppend ==
  ASSUME NEW s \in Seq(Handing), NEW h \in Handing
  PROVE  /\ Answers(s) \in Seq(Replies) /\ AnswerTo(h) \in Seq(Replies)
         /\ Answers(Append(s, h)) = Answers(s) \o AnswerTo(h)
<1> DEFINE n  == Len(s)
           t  == Append(s, h)
           ss == [k \in 1..n |-> AnswerTo(s[k])]
           tt == [k \in 1..(n + 1) |-> AnswerTo(t[k])]
<1>1. ASSUME NEW g \in Handing PROVE AnswerTo(g) \in Seq(Replies)
  <2>1. Answer(g.frame, g.payload) \in Replies
    BY DEF Replies
  <2> QED BY <2>1 DEF AnswerTo
<1>2. n \in Nat /\ DOMAIN s = 1..n /\ \A k \in 1..n : s[k] \in Handing
  <2> HIDE DEF Handing
  <2> QED OBVIOUS
<1>3. DOMAIN t = 1..(n + 1) /\ t[n + 1] = h /\ \A k \in 1..n : t[k] = s[k]
  <2> HIDE DEF Handing
  <2> QED OBVIOUS
<1>4. \A k \in 1..(n + 1) : t[k] \in Handing
  <2> TAKE k \in 1..(n + 1)
  <2>1. k = n + 1 \/ k \in 1..n
    BY <1>2
  <2> QED BY <1>2, <1>3, <2>1
<1>5. Answers(s) = FlattenSeq(ss) /\ Answers(t) = FlattenSeq(tt)
  BY <1>2, <1>3 DEF Answers
<1>6. ss \in [1..n -> Seq(Replies)] /\ tt \in [1..(n + 1) -> Seq(Replies)]
  BY <1>1, <1>2, <1>4
<1>7. \A k \in 1..n : ss[k] = tt[k]
  <2> TAKE k \in 1..n
  <2>1. k \in 1..(n + 1)
    BY <1>2
  <2> QED BY <1>3, <2>1
<1>8. tt[n + 1] = AnswerTo(h)
  <2>1. n + 1 \in 1..(n + 1)
    BY <1>2
  <2> QED BY <1>3, <2>1
<1> HIDE DEF ss, tt, t, n
<1>9. /\ ss \in Seq(Seq(Replies)) /\ Len(ss) = n
      /\ tt \in Seq(Seq(Replies)) /\ Len(tt) = n + 1
  <2>1. n + 1 \in Nat
    BY <1>2
  <2> QED BY <1>2, <1>6, <2>1
<1>10. SameUpTo(n, ss, tt)
  BY <1>7 DEF SameUpTo
<1>11. FlattenSeq(tt) = FlattenSeq(ss) \o tt[n + 1]
  BY <1>2, <1>9, <1>10, FlattenAppend
<1>12. FlattenSeq(ss) \in Seq(Replies)
  BY <1>9, FlattenType
<1> QED BY <1>1, <1>5, <1>8, <1>11, <1>12 DEF t

LEMMA FrontAppend ==
  ASSUME NEW S, NEW s \in Seq(S), NEW e \in S
  PROVE  Append(s, e) = s \o <<e>> /\ Front(Append(s, e)) = s
<1> DEFINE t == Append(s, e)
           n == Len(s)
<1>1. /\ t \in Seq(S) /\ n \in Nat /\ Len(t) = n + 1 /\ DOMAIN s = 1..n
      /\ \A i \in 1..n : t[i] = s[i]
  OBVIOUS
<1>2. t = s \o <<e>>
  BY AppendIsConcat
<1> HIDE DEF t, n
<1>3. Front(t) = SubSeq(t, 1, n)
  BY <1>1 DEF Front
<1>4. SubSeq(t, 1, n) \in Seq(S) /\ Len(SubSeq(t, 1, n)) = n
      /\ \A i \in 1..n : SubSeq(t, 1, n)[i] = t[i]
  BY <1>1
<1>5. SubSeq(t, 1, n) = s
  <2> DEFINE f == SubSeq(t, 1, n)
  <2>1. f \in Seq(S) /\ Len(f) = Len(s) /\ \A i \in 1..Len(f) : f[i] = s[i]
    BY <1>1, <1>4 DEF n
  <2> HIDE DEF f
  <2>2. f = s
    BY <2>1, SeqEqual
  <2> QED BY <2>2 DEF f
<1> QED BY <1>2, <1>3, <1>5 DEF t

\* What the answers are when the frame that is handled is done with.
LEMMA AnswersGrow ==
  ASSUME Inv, pc = "handle", HandedUp
  PROVE  /\ Answers(handed) \in Seq(Replies) /\ answers = Answers(handed)
         /\ frame.opcode \in {"ping", "text"} =>
              /\ Answers(handed') = Append(answers, Answer(frame, payload))
              /\ Front(Answers(handed')) = answers
         /\ frame.opcode \notin {"ping", "text"} => Answers(handed') = answers
<1> DEFINE h == [frame |-> frame, payload |-> payload]
<1>1. h \in Handing /\ h.frame = frame /\ h.payload = payload
  BY WhatIsHanded DEF Handing
<1>2. handed \in Seq(Handing) /\ handed' = Append(handed, h)
  BY DEF Inv, Handed, HandedUp
<1>3. answers = Answers(handed)
  BY DEF Inv, Placed, Answered
<1> HIDE DEF h
<1>4. /\ Answers(handed) \in Seq(Replies) /\ AnswerTo(h) \in Seq(Replies)
      /\ Answers(handed') = Answers(handed) \o AnswerTo(h)
  <2> HIDE DEF Handing, Replies
  <2> QED BY <1>1, <1>2, AnswersAppend
<1>5. CASE frame.opcode \in {"ping", "text"}
  <2> DEFINE r == Answer(frame, payload)
  <2>1. AnswerTo(h) = <<r>>
    BY <1>1, <1>5 DEF AnswerTo, Asks
  <2> HIDE DEF r, Replies
  <2>2. r \in Replies
    <3>1. <<r>> \in Seq(Replies) /\ Len(<<r>>) = 1
      BY <1>4, <2>1
    <3> QED BY <3>1, ElementOfSeq
  <2>3. answers \in Seq(Replies) /\ Answers(handed') = answers \o <<r>>
    BY <1>3, <1>4, <2>1
  <2>4. answers \o <<r>> = Append(answers, r)
    BY <2>2, <2>3, FrontAppend
  <2>5. Front(Append(answers, r)) = answers
    BY <2>2, <2>3, FrontAppend
  <2> QED BY <1>3, <1>4, <1>5, <2>3, <2>4, <2>5 DEF r
<1>6. CASE frame.opcode \notin {"ping", "text"}
  <2>1. AnswerTo(h) = <<>>
    BY <1>1, <1>6 DEF AnswerTo, Asks
  <2> HIDE DEF Replies
  <2>2. Answers(handed) \o <<>> = Answers(handed)
    BY <1>4, ConcatEmptySeq
  <2> QED BY <1>3, <1>4, <1>6, <2>1, <2>2
<1> QED BY <1>5, <1>6

LEMMA HandleStep ==
  ASSUME Inv, HandleAnswered \/ HandleOther \/ HandleFails
  PROVE  Inv'
<1>1. /\ pc = "handle" /\ HandedUp /\ UNCHANGED <<connection, unread, buffer>>
      /\ frame' = NoFrame /\ payload' = <<>> /\ framesOut = 1 /\ webSocket = "there"
  BY DEF HandleAnswered, HandleOther, HandleFails, ReturnFrame, Handling,
         Inv, Placed, Returned
<1>2. UNCHANGED <<sent, peer>>
  BY <1>1 DEF connection
<1>3. Handed' /\ (Rest(Len(handed) + 1))' = After
  BY <1>1, <1>2, HandedGrows
<1>4. CASE HandleAnswered \/ HandleOther
  <2>1. pc' = "header" /\ webSocket' = "there" /\ framesOut' = 0
    BY <1>1, <1>4 DEF HandleAnswered, HandleOther, ReturnFrame
  <2>2. answers' = Answers(handed')
    BY <1>1, <1>4, AnswersGrow DEF HandleAnswered, HandleOther
  <2>3. Answered'
    BY <2>1, <2>2 DEF Answered, Answers
  <2>4. Ahead' = Data \o unread
    <3>1. Data \o unread \in Seq(Byte)
      BY Known
    <3>2. Ahead' = <<>> \o (Data \o unread)
      BY <1>1 DEF Ahead, Data
    <3> QED BY <3>1, <3>2, ConcatEmptySeq
  <2>5. InOrder'
    <3>1. IsPrefix(Data \o unread, After)
      BY <1>1, WhatIsHanded
    <3>2. Todo(pc)' = After
      BY <1>3, <2>1 DEF Todo
    <3> QED BY <2>4, <3>1, <3>2 DEF InOrder
  <2>6. Types' /\ Placed' /\ Returned'
    BY <1>1, <1>2, <2>1 DEF Inv, Types, Placed, Returned, Places, Inside
  <2> QED BY <1>3, <2>3, <2>5, <2>6 DEF Inv
<1>5. CASE HandleFails
  <2>1. /\ pc' = "over" /\ webSocket' = "destroyed" /\ framesOut' = 0 /\ UNCHANGED answers
        /\ frame.opcode \in {"ping", "text"}
    BY <1>5 DEF HandleFails
  <2>2. answers' = Front(Answers(handed'))
    BY <1>1, <2>1, AnswersGrow
  <2>3. Answered'
    BY <2>1, <2>2 DEF Answered, Answers
  <2>4. InOrder'
    BY <2>1 DEF InOrder
  <2>5. Types' /\ Placed' /\ Returned'
    BY <1>1, <1>2, <2>1 DEF Inv, Types, Placed, Returned, Places, Inside
  <2> QED BY <1>3, <2>3, <2>4, <2>5 DEF Inv
<1> QED BY <1>4, <1>5

-----------------------------------------------------------------------------
(* The peer, and the theorems                                               *)

\* What the peer does not send any more leaves a beginning of what it would.
LEMMA PeerLeavesStep ==
  ASSUME Inv, PeerLeaves
  PROVE  Inv'
<1>1. /\ peer' \in {"closed", "reset"}
      /\ UNCHANGED <<tls, sent, buffer, pc, frame, payload, framesOut, handed, answers, webSocket>>
  BY DEF PeerLeaves
<1>2. PICK n \in 0..Len(unread) : unread' = SubSeq(unread, 1, n)
  <2>1. unread \in Seq(Byte)
    BY Known
  <2>2. Len(unread) \in Nat /\ SubSeq(unread, 1, 0) = <<>> /\ 0 \in 0..Len(unread)
    BY <2>1
  <2> QED BY <2>2 DEF PeerLeaves
<1>3. unread \in Seq(Byte) /\ payload \in Seq(Byte) /\ Data \in Seq(Byte)
  BY Known
<1>4. unread' \in Seq(Byte)
  <2>1. Keeps(Byte, payload, unread, n)
    BY <1>3, FillKeeps
  <2> QED BY <1>2, <2>1 DEF Keeps
<1>5. Types' /\ Handed' /\ Answered' /\ Placed' /\ Returned'
  BY <1>1, <1>4 DEF Inv, Types, Handed, Answered, Placed, Returned, Now
<1>6. Todo(pc)' = Todo(pc)
  BY <1>1 DEF Todo, Now, After, Rest
<1>7. ASSUME pc \notin {"over", "misread"} PROVE IsPrefix(Ahead', Todo(pc))
  <2> DEFINE t == Todo(pc)
             d == payload \o Data
  <2>1. t \in Seq(Byte)
    <3>1. CASE pc = "header"
      BY <3>1, Known DEF Todo
    <3>2. CASE pc # "header"
      <4>1. pc \in Inside
        BY <1>7, <3>2 DEF Inv, Types, Places, Inside
      <4>2. Len(handed) + 1 <= Len(sent)
        BY <4>1 DEF Inv, Placed
      <4>3. /\ Now \in Frame /\ Payload(Now) \o After \in Seq(Byte)
            /\ KeyBytes(Now) \o (Payload(Now) \o After) \in Seq(Byte)
        BY <4>2, KnownFrame
      <4> DEFINE y == KeyBytes(Now) \o (Payload(Now) \o After)
      <4>4. SizeBytes(Now.length, 2) \in Seq(Byte) /\ y \in Seq(Byte)
        BY <4>3, FrameParts
      <4>5. SizeBytes(Now.length, 2) \o y \in Seq(Byte)
        <5> HIDE DEF y
        <5> QED BY <4>4, ConcatProperties
      <4> QED BY <3>2, <4>3, <4>5 DEF Todo
    <3> QED BY <3>1, <3>2
  <2>2. d \in Seq(Byte)
    BY <1>3, ConcatProperties
  <2> HIDE DEF t, d
  <2>3. d \o unread = Ahead
    <3>1. Associates(payload, Data, unread)
      BY <1>3, ThreeJoin
    <3> QED BY <3>1 DEF Associates, d, Ahead
  <2>4. IsPrefix(d \o unread, t)
    BY <1>7, <2>3 DEF t, Inv, InOrder
  <2>5. IsPrefix(d \o SubSeq(unread, 1, n), t)
    BY <1>3, <2>1, <2>2, <2>4, CutShort
  <2>6. d \o unread' = Ahead'
    <3>1. Associates(payload, Data, unread')
      BY <1>3, <1>4, ThreeJoin
    <3> QED BY <1>1, <3>1 DEF Associates, d, Ahead, Data
  <2> QED BY <1>2, <2>5, <2>6 DEF t
<1>8. InOrder'
  BY <1>1, <1>6, <1>7 DEF InOrder
<1> QED BY <1>5, <1>8 DEF Inv

LEMMA InitInv == Init => Inv
<1> SUFFICES ASSUME Init PROVE Inv
  OBVIOUS
<1>1. /\ sent \in Scripts /\ unread = Bytes(sent) /\ peer = "there" /\ pc = "header"
      /\ frame = NoFrame /\ payload = <<>> /\ framesOut = 0 /\ handed = <<>> /\ answers = <<>>
      /\ webSocket = "there"
  BY DEF Init
<1>2. PICK g \in Gaps : buffer = [gap |-> g, data |-> <<>>]
  BY DEF Init
<1>3. g \in Nat /\ g <= BufferSize
  BY ReadAssumption
<1>4. Fit(buffer) /\ Data = <<>>
  BY <1>2, <1>3 DEF Fit, Buffer, Data
<1>5. sent \in Seq(Frame) /\ Len(sent) \in Nat
  BY <1>1, ScriptType
<1>6. Rest(1) = unread
  <2>1. SubSeq(sent, 1, Len(sent)) = sent
    BY <1>5, SubSeqFull
  <2> QED BY <1>1, <2>1 DEF Rest
<1>7. unread \in Seq(Byte)
  <2>1. 1 \in 1..(Len(sent) + 1)
    BY <1>5
  <2> QED BY <1>1, <1>6, <2>1, RestType
<1>8. Len(handed) = 0
  BY <1>1
<1>9. Types
  BY <1>1, <1>4, <1>7 DEF Types, Places
<1>10. Handed
  BY <1>1, <1>5, <1>8 DEF Handed
<1>11. Answered
  <2>1. Answers(<<>>) = <<>>
    BY DEF Answers, FlattenSeq
  <2> QED BY <1>1, <2>1 DEF Answered
<1>12. InOrder
  <2>1. Ahead = unread
    <3>1. Data \o unread = unread /\ <<>> \o unread = unread
      BY <1>4, <1>7, ConcatEmptySeq
    <3> QED BY <1>1, <3>1 DEF Ahead
  <2>2. Todo(pc) = unread
    <3>1. Len(handed) + 1 = 1
      BY <1>8
    <3> QED BY <1>1, <1>6, <3>1 DEF Todo
  <2>3. IsPrefix(unread, unread)
    <3>1. unread \o <<>> = unread /\ <<>> \in Seq(Byte)
      BY <1>7, ConcatEmptySeq
    <3> QED BY <1>7, <3>1, PrefixIff
  <2> QED BY <2>1, <2>2, <2>3 DEF InOrder
<1>13. Placed /\ Returned
  BY <1>1 DEF Placed, Returned, Inside
<1> QED BY <1>9, <1>10, <1>11, <1>12, <1>13 DEF Inv

LEMMA NextInv == Inv /\ [Next]_vars => Inv'
<1> SUFFICES ASSUME Inv, [Next]_vars PROVE Inv'
  OBVIOUS
<1>1. CASE FillHeader
  BY <1>1, FillHeaderStep
<1>2. CASE NoHeader \/ NoEmptyFrame \/ SizeOrKeyFails \/ PayloadFails
  BY <1>2, WaysOutStep
<1>3. CASE Header
  BY <1>3, HeaderStep
<1>4. CASE ReadSize
  BY <1>4, ReadSizeStep
<1>5. CASE ReadKey
  BY <1>5, ReadKeyStep
<1>6. CASE Alloc
  BY <1>6, AllocStep
<1>7. CASE TakePayload
  BY <1>7, TakePayloadStep
<1>8. CASE MorePayload
  BY <1>8, MorePayloadStep
<1>9. CASE HandleAnswered \/ HandleOther \/ HandleFails
  BY <1>9, HandleStep
<1>10. CASE PeerLeaves
  BY <1>10, PeerLeavesStep
<1>11. CASE UNCHANGED vars
  BY <1>11 DEF vars, connection, Inv, Types, Handed, Answered, Placed, Returned, InOrder,
               Now, Ahead, Data, Todo, After, Rest
<1> QED BY <1>1, <1>2, <1>3, <1>4, <1>5, <1>6, <1>7, <1>8, <1>9, <1>10, <1>11
        DEF Next, Step

LEMMA Invariant == Spec => []Inv
<1> QED BY InitInv, NextInv, PTL DEF Spec

\* CS_WS_nextIncomingFrame: wherever the connection cuts the bytes of the
\* peer, the handler gets the frames that were sent, in their order and each
\* with its whole payload, and has answered all that asked for an answer.
THEOREM FramesInOrder == Spec => []FramesAsSent
<1>1. Inv => FramesAsSent
  <2> SUFFICES ASSUME Inv PROVE FramesAsSent
    OBVIOUS
  <2>1. BufferOK(buffer, BufferSize)
    BY ReadAssumption DEF Inv, Types, Fit, Buffer, BufferOK
  <2>2. Len(payload) <= frame.length
    <3>1. CASE pc \in {"payload", "more", "handle"}
      BY <3>1 DEF Inv, Placed
    <3>2. CASE pc \notin {"payload", "more", "handle"}
      <4>1. Len(payload) = 0
        BY <3>2 DEF Inv, Placed
      <4>2. CASE pc \in {"key", "alloc"}
        <5>1. frame = Now /\ Len(handed) + 1 <= Len(sent)
          BY <4>2 DEF Inv, Placed, Inside
        <5>2. frame.length \in Nat
          BY <5>1, KnownFrame, FrameType
        <5> QED BY <4>1, <5>2
      <4>3. CASE pc = "size"
        <5>1. frame = [Now EXCEPT !.length = Marker16] /\ Len(handed) + 1 <= Len(sent)
          BY <4>3 DEF Inv, Placed, Inside
        <5>2. Now = [opcode |-> Now.opcode, mask |-> Now.mask, length |-> Now.length]
          BY <5>1, KnownFrame, FrameType
        <5>3. frame.length = Marker16
          BY <5>1, <5>2
        <5> QED BY <4>1, <5>3, LengthAssumption DEF Marker16
      <4>4. CASE pc \in {"header", "over"}
        BY <4>1, <4>4 DEF Inv, Placed, NoFrame
      <4>5. CASE pc = "misread"
        BY <4>1, <4>5, LengthAssumption DEF Inv, Placed, Marker16
      <4> QED BY <3>2, <4>2, <4>3, <4>4, <4>5 DEF Inv, Types, Places
    <3> QED BY <3>1, <3>2
  <2>3. TypeOK
    BY <2>1, <2>2 DEF Inv, Types, Places, TypeOK
  <2>4. IsPrefix(handed, [k \in DOMAIN sent |-> Whole(sent[k])])
    <3> DEFINE t == [k \in DOMAIN sent |-> Whole(sent[k])]
               n == Len(handed)
               m == Len(sent)
    <3>1. /\ handed \in Seq(Handing) /\ n <= m /\ \A k \in 1..n : handed[k] = Whole(sent[k])
      BY DEF Inv, Handed
    <3>2. sent \in Seq(Frame) /\ m \in Nat
      BY ScriptType DEF Inv, Types
    <3>3. n \in Nat /\ DOMAIN sent = 1..m /\ \A k \in 1..m : sent[k] \in Frame
      <4> HIDE DEF Handing
      <4> QED BY <3>1, <3>2
    <3>4. t \in [1..m -> Handing]
      BY <3>3 DEF Handing
    <3>5. \A k \in 1..n : handed[k] = t[k]
      BY <3>1, <3>2, <3>3
    <3> HIDE DEF t, m, n, Handing
    <3>6. t \in Seq(Handing) /\ Len(t) = m
      BY <3>2, <3>4
    <3>7. IsPrefix(handed, t)
      BY <3>1, <3>2, <3>3, <3>5, <3>6 DEF IsPrefix, n
    <3> QED BY <3>7 DEF t
  <2>5. answers = IF webSocket = "destroyed" THEN Front(Answers(handed)) ELSE Answers(handed)
    BY DEF Inv, Answered
  <2> QED BY <2>3, <2>4, <2>5, Zenon DEF FramesAsSent
<1> QED BY <1>1, Invariant, PTL

\* A frame is out of frameAllocator only while it is read or handled: every
\* way out of CS_WS_nextIncomingFrame and of the handler gives it back, or
\* frees the slab it is in.
THEOREM FramesGivenBack == Spec => []FramesReturned
<1>1. Inv => FramesReturned
  <2> SUFFICES ASSUME Inv PROVE FramesReturned
    OBVIOUS
  <2> DEFINE H == {"size", "key", "alloc", "payload", "more", "handle", "misread"}
  <2>1. CASE pc \in {"header", "over"}
    <3>1. H \cap {pc} = {} /\ framesOut = 0
      BY <2>1 DEF Inv, Returned
    <3> QED BY <3>1, FS_EmptySet DEF FramesReturned
  <2>2. CASE pc \notin {"header", "over"}
    <3>1. H \cap {pc} = {pc} /\ framesOut = 1
      BY <2>2 DEF Inv, Returned, Types, Places
    <3> QED BY <3>1, FS_Singleton DEF FramesReturned
  <2> QED BY <2>1, <2>2
<1> QED BY <1>1, Invariant, PTL
=============================================================================
