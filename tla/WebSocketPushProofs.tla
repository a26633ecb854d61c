------------------------- MODULE WebSocketPushProofs -------------------------
(***************************************************************************)
(* What WebSocketPush promises of the bytes on the wire, for any number of *)
(* threads, any frames and any size of the output buffer.                  *)
(***************************************************************************)
EXTENDS WebSocketPush, SequenceTheorems, WellFoundedInduction, TLAPS

-----------------------------------------------------------------------------
(* Sequences                                                                *)

\* A set of numbers with a member has a least one.
LEMMA LeastNumber ==
  ASSUME NEW T, T \subseteq Nat, T # {}
  PROVE  \E x \in T : \A y \in T : x <= y
<1>1. PICK x \in T : \A y \in T : ~(<<y, x>> \in OpToRel(<, Nat))
  BY WFMin, NatLessThanWellFounded
<1>2. ASSUME NEW y \in T PROVE x <= y
  <2>1. x \in Nat /\ y \in Nat
    OBVIOUS
  <2>2. y < x => <<y, x>> \in OpToRel(<, Nat)
    BY <2>1 DEF OpToRel
  <2>3. ~(y < x)
    BY <1>1, <2>2, Zenon
  <2> QED BY <2>1, <2>3
<1> QED BY <1>2

\* f joins the first n of the sequences ss, one after the other.
Joining(ss, n, f) ==
  f = [i \in 1..n |-> IF i = 1 THEN ss[1] ELSE f[i - 1] \o ss[i]]

\* Two sequences, or functions, are the same up to n.
SameUpTo(n, ss, tt) == \A i \in 1..n : ss[i] = tt[i]

\* There is such a function, ...
LEMMA JoiningExists ==
  ASSUME NEW ss, NEW n \in Nat
  PROVE  \E f : Joining(ss, n, f)
<1> DEFINE T == {m \in Nat : ~\E f : Joining(ss, m, f)}
<1>1. SUFFICES ASSUME T # {} PROVE FALSE
  OBVIOUS
<1>2. PICK m \in T : \A y \in T : m <= y
  <2> HIDE DEF T
  <2>1. T \subseteq Nat
    BY DEF T
  <2> QED BY <1>1, <2>1, LeastNumber
<1>3. m \in Nat /\ ~\E f : Joining(ss, m, f)
  OBVIOUS
<1>4. m # 0
  <2>1. Joining(ss, 0, [i \in 1..0 |-> <<>>])
    BY DEF Joining
  <2> QED BY <1>3, <2>1
<1>5. PICK g : Joining(ss, m - 1, g)
  <2>1. m - 1 \in Nat /\ m - 1 \notin T
    BY <1>2, <1>3, <1>4
  <2> QED BY <2>1
<1>6. g = [i \in 1..(m - 1) |-> IF i = 1 THEN ss[1] ELSE g[i - 1] \o ss[i]]
  BY <1>5 DEF Joining
<1> DEFINE f == [i \in 1..m |-> IF i < m THEN g[i]
                                ELSE IF m = 1 THEN ss[1] ELSE g[m - 1] \o ss[m]]
<1>7. \A i \in 1..m : f[i] = IF i = 1 THEN ss[1] ELSE f[i - 1] \o ss[i]
  <2> TAKE i \in 1..m
  <2>1. CASE i < m
    <3>1. i \in 1..(m - 1)
      BY <1>3, <2>1
    <3>2. f[i] = g[i] /\ (i # 1 => f[i - 1] = g[i - 1])
      BY <1>3, <2>1
    <3>3. g[i] = IF i = 1 THEN ss[1] ELSE g[i - 1] \o ss[i]
      BY <1>6, <3>1
    <3> QED BY <3>2, <3>3
  <2>2. CASE i = m
    <3>1. f[i] = IF m = 1 THEN ss[1] ELSE g[m - 1] \o ss[m]
      BY <1>3, <2>2
    <3>2. m # 1 => f[i - 1] = g[m - 1]
      BY <1>3, <1>4, <2>2
    <3> QED BY <2>2, <3>1, <3>2
  <2> QED BY <1>3, <2>1, <2>2
<1>8. Joining(ss, m, f)
  BY <1>7 DEF Joining
<1> QED BY <1>3, <1>8

\* ... and only one, that knows nothing of the sequences behind.
LEMMA JoiningUnique ==
  ASSUME NEW ss, NEW tt, NEW n \in Nat, NEW m \in Nat, n <= m,
         SameUpTo(n, ss, tt), NEW f, Joining(ss, n, f), NEW g, Joining(tt, m, g)
  PROVE  SameUpTo(n, f, g)
<1> USE DEF SameUpTo
<1> DEFINE T == {i \in 1..n : f[i] # g[i]}
<1>1. SUFFICES ASSUME T # {} PROVE FALSE
  OBVIOUS
<1>2. PICK x \in T : \A y \in T : x <= y
  <2> HIDE DEF T
  <2>1. T \subseteq Nat
    BY DEF T
  <2> QED BY <1>1, <2>1, LeastNumber
<1>3. x \in 1..n /\ x \in 1..m /\ f[x] # g[x]
  OBVIOUS
<1>4. /\ f[x] = IF x = 1 THEN ss[1] ELSE f[x - 1] \o ss[x]
      /\ g[x] = IF x = 1 THEN tt[1] ELSE g[x - 1] \o tt[x]
  <2> HIDE DEF T
  <2>1. f = [i \in 1..n |-> IF i = 1 THEN ss[1] ELSE f[i - 1] \o ss[i]]
    BY DEF Joining
  <2>2. g = [i \in 1..m |-> IF i = 1 THEN tt[1] ELSE g[i - 1] \o tt[i]]
    BY DEF Joining
  <2> QED BY <1>3, <2>1, <2>2
<1>5. x # 1 => f[x - 1] = g[x - 1]
  <2>1. ASSUME x # 1 PROVE x - 1 \in 1..n /\ ~(x <= x - 1)
    BY <1>3, <2>1
  <2> QED BY <1>2, <2>1
<1>6. ss[x] = tt[x] /\ (x = 1 => ss[1] = tt[1])
  BY <1>3
<1> QED BY <1>3, <1>4, <1>5, <1>6

\* FlattenSeq is its last value.
LEMMA FlattenIsJoining ==
  ASSUME NEW ss, NEW n \in Nat \ {0}, Len(ss) = n
  PROVE  \E f : Joining(ss, n, f) /\ FlattenSeq(ss) = f[n]
<1> DEFINE F == CHOOSE f : f = [i \in 1..Len(ss) |-> IF i = 1 THEN ss[i] ELSE f[i - 1] \o ss[i]]
<1>1. FlattenSeq(ss) = F[n]
  BY DEF FlattenSeq
<1>2. Joining(ss, n, F)
  <2>1. PICK f : Joining(ss, n, f)
    BY JoiningExists
  <2>2. f = [i \in 1..n |-> IF i = 1 THEN ss[i] ELSE f[i - 1] \o ss[i]]
    <3>1. \A i \in 1..n : (IF i = 1 THEN ss[1] ELSE f[i - 1] \o ss[i])
                             = (IF i = 1 THEN ss[i] ELSE f[i - 1] \o ss[i])
      OBVIOUS
    <3> QED BY <2>1, <3>1 DEF Joining
  <2>3. F = [i \in 1..n |-> IF i = 1 THEN ss[i] ELSE F[i - 1] \o ss[i]]
    BY <2>2
  <2>4. \A i \in 1..n : (IF i = 1 THEN ss[1] ELSE F[i - 1] \o ss[i])
                           = (IF i = 1 THEN ss[i] ELSE F[i - 1] \o ss[i])
    OBVIOUS
  <2> HIDE DEF F
  <2> QED BY <2>3, <2>4 DEF Joining
<1> QED BY <1>1, <1>2

\* Flattening gives a sequence, and one more sequence adds itself.
LEMMA FlattenType ==
  ASSUME NEW S, NEW ss \in Seq(Seq(S))
  PROVE  FlattenSeq(ss) \in Seq(S)
<1>1. CASE Len(ss) = 0
  <2>1. ss = <<>>
    BY <1>1
  <2> QED BY <1>1, <2>1 DEF FlattenSeq
<1>2. CASE Len(ss) # 0
  <2> DEFINE n == Len(ss)
  <2>1. n \in Nat \ {0} /\ \A i \in 1..n : ss[i] \in Seq(S)
    BY <1>2
  <2>2. PICK f : Joining(ss, n, f) /\ FlattenSeq(ss) = f[n]
    BY <2>1, FlattenIsJoining
  <2> DEFINE T == {i \in 1..n : f[i] \notin Seq(S)}
  <2>3. ASSUME T # {} PROVE FALSE
    <3>1. PICK x \in T : \A y \in T : x <= y
      <4> HIDE DEF T
      <4>1. T \subseteq Nat
        BY DEF T
      <4> QED BY <2>3, <4>1, LeastNumber
    <3>2. x \in 1..n /\ f[x] \notin Seq(S)
      OBVIOUS
    <3>3. f[x] = IF x = 1 THEN ss[1] ELSE f[x - 1] \o ss[x]
      <4> HIDE DEF T, n
      <4>1. f = [i \in 1..n |-> IF i = 1 THEN ss[1] ELSE f[i - 1] \o ss[i]]
        BY <2>2 DEF Joining
      <4> QED BY <3>2, <4>1
    <3>4. ASSUME x # 1 PROVE f[x - 1] \in Seq(S)
      <4>1. x - 1 \in 1..n /\ ~(x <= x - 1)
        BY <2>1, <3>2, <3>4
      <4> QED BY <3>1, <4>1
    <3> QED BY <2>1, <3>2, <3>3, <3>4
  <2> QED BY <2>1, <2>2, <2>3
<1> QED BY <1>1, <1>2

LEMMA FlattenAppend ==
  ASSUME NEW S, NEW n \in Nat, NEW ss, NEW tt, ss \in Seq(Seq(S)), Len(ss) = n,
         tt \in Seq(Seq(S)), Len(tt) = n + 1, SameUpTo(n, ss, tt)
  PROVE  FlattenSeq(tt) = FlattenSeq(ss) \o tt[n + 1]
<1>1. PICK g : Joining(tt, n + 1, g) /\ FlattenSeq(tt) = g[n + 1]
  BY FlattenIsJoining
<1>2. g[n + 1] = IF n = 0 THEN tt[1] ELSE g[n] \o tt[n + 1]
  <2>1. g = [i \in 1..(n + 1) |-> IF i = 1 THEN tt[1] ELSE g[i - 1] \o tt[i]]
    BY <1>1 DEF Joining
  <2>2. n + 1 \in 1..(n + 1) /\ (n + 1) - 1 = n /\ (n + 1 = 1 <=> n = 0)
    OBVIOUS
  <2>3. g[n + 1] = IF n + 1 = 1 THEN tt[1] ELSE g[(n + 1) - 1] \o tt[n + 1]
    BY <2>1, <2>2
  <2> QED BY <2>2, <2>3
<1>3. CASE n = 0
  <2>1. ss = <<>> /\ FlattenSeq(ss) = <<>> /\ tt[1] \in Seq(S)
    BY <1>3 DEF FlattenSeq
  <2> QED BY <1>1, <1>2, <1>3, <2>1, ConcatEmptySeq
<1>4. CASE n # 0
  <2>1. PICK f : Joining(ss, n, f) /\ FlattenSeq(ss) = f[n]
    BY <1>4, FlattenIsJoining
  <2>2. f[n] = g[n]
    <3>1. n <= n + 1 /\ n + 1 \in Nat /\ n \in 1..n
      BY <1>4
    <3>2. SameUpTo(n, f, g)
      BY <1>1, <2>1, <3>1, JoiningUnique
    <3> QED BY <3>1, <3>2 DEF SameUpTo
  <2> QED BY <1>1, <1>2, <1>4, <2>1, <2>2
<1> QED BY <1>3, <1>4

\* A sequence is its first n elements and the others.
LEMMA Cut ==
  ASSUME NEW S, NEW t \in Seq(S), NEW n \in 0..Len(t)
  PROVE  /\ SubSeq(t, 1, n) \in Seq(S) /\ Len(SubSeq(t, 1, n)) = n
         /\ SubSeq(t, n + 1, Len(t)) \in Seq(S)
         /\ Len(SubSeq(t, n + 1, Len(t))) = Len(t) - n
         /\ t = SubSeq(t, 1, n) \o SubSeq(t, n + 1, Len(t))
<1>1. Len(t) \in Nat /\ n \in Nat /\ n <= Len(t)
  OBVIOUS
<1>2. SubSeq(t, 1, n) \in Seq(S) /\ Len(SubSeq(t, 1, n)) = n
  BY <1>1
<1>3. SubSeq(t, n + 1, Len(t)) \in Seq(S) /\ Len(SubSeq(t, n + 1, Len(t))) = Len(t) - n
  <2>1. \A i \in (n + 1)..Len(t) : t[i] \in S
    BY <1>1, ElementOfSeq
  <2>2. /\ SubSeq(t, n + 1, Len(t)) \in Seq(S)
        /\ Len(SubSeq(t, n + 1, Len(t)))
             = IF n + 1 <= Len(t) THEN Len(t) - (n + 1) + 1 ELSE 0
    <3>1. n + 1 \in Int /\ Len(t) \in Int
      BY <1>1
    <3> QED BY <2>1, <3>1, SubSeqProperties, Zenon
  <2> QED BY <1>1, <2>2
<1>4. SubSeq(t, 1, n) \o SubSeq(t, n + 1, Len(t)) = SubSeq(t, 1, Len(t))
  <2>1. 1 \in 1..(Len(t) + 1) /\ n \in (1 - 1)..Len(t) /\ Len(t) \in n..Len(t)
    BY <1>1
  <2> QED BY <2>1, ConcatAdjacentSubSeq, Zenon
<1> QED BY <1>2, <1>3, <1>4, SubSeqFull

\* A prefix is what something can be put behind.
LEMMA PrefixIff ==
  ASSUME NEW S, NEW s \in Seq(S), NEW t \in Seq(S)
  PROVE  IsPrefix(s, t) <=> \E u \in Seq(S) : t = s \o u
<1>1. ASSUME IsPrefix(s, t) PROVE \E u \in Seq(S) : t = s \o u
  <2>1. Len(s) \in Nat /\ Len(t) \in Nat /\ Len(s) <= Len(t)
        /\ SubSeq(s, 1, Len(s)) = SubSeq(t, 1, Len(s))
    BY <1>1 DEF IsPrefix
  <2>2. SubSeq(s, 1, Len(s)) = s
    BY SubSeqFull
  <2>3. Len(s) \in 0..Len(t)
    BY <2>1
  <2> DEFINE u == SubSeq(t, Len(s) + 1, Len(t))
  <2>4. u \in Seq(S) /\ t = SubSeq(t, 1, Len(s)) \o u
    BY <2>3, Cut, Zenon
  <2> QED BY <2>1, <2>2, <2>4
<1>2. ASSUME NEW u \in Seq(S), t = s \o u PROVE IsPrefix(s, t)
  <2>1. Len(t) = Len(s) + Len(u) /\ Len(s) \in Nat /\ Len(u) \in Nat
        /\ \A i \in 1..Len(s) : t[i] = s[i]
    BY <1>2, ConcatProperties
  <2>2. SubSeq(t, 1, Len(s)) = SubSeq(s, 1, Len(s))
    BY <2>1
  <2> QED BY <2>1, <2>2 DEF IsPrefix
<1> QED BY <1>1, <1>2

\* Three sequences may be joined from either end.
Associates(s, t, u) == (s \o t) \o u = s \o (t \o u)

LEMMA ThreeJoin ==
  ASSUME NEW S, NEW s \in Seq(S), NEW t \in Seq(S), NEW u \in Seq(S)
  PROVE  Associates(s, t, u)
BY ConcatAssociative DEF Associates

LEMMA PrefixTrans ==
  ASSUME NEW S, NEW s \in Seq(S), NEW t \in Seq(S), NEW u \in Seq(S),
         IsPrefix(s, t), IsPrefix(t, u)
  PROVE  IsPrefix(s, u)
<1>1. PICK v \in Seq(S) : t = s \o v
  BY PrefixIff
<1>2. PICK w \in Seq(S) : u = t \o w
  BY PrefixIff
<1>3. u = s \o (v \o w) /\ v \o w \in Seq(S)
  <2>1. Associates(s, v, w)
    BY ThreeJoin
  <2>2. v \o w \in Seq(S)
    BY ConcatProperties
  <2> QED BY <1>1, <1>2, <2>1, <2>2 DEF Associates
<1> QED BY <1>3, PrefixIff

LEMMA FourParts ==
  ASSUME NEW S, NEW s \in Seq(S), NEW t \in Seq(S), NEW u \in Seq(S), NEW v \in Seq(S)
  PROVE  s \o t \o u \o v \in Seq(S)
         /\ Len(s \o t \o u \o v) = Len(s) + Len(t) + Len(u) + Len(v)
<1>1. s \o t \in Seq(S) /\ Len(s \o t) = Len(s) + Len(t)
  BY ConcatProperties
<1>2. s \o t \o u \in Seq(S) /\ Len(s \o t \o u) = Len(s \o t) + Len(u)
  BY <1>1, ConcatProperties
<1>3. s \o t \o u \o v \in Seq(S) /\ Len(s \o t \o u \o v) = Len(s \o t \o u) + Len(v)
  BY <1>2, ConcatProperties
<1> QED BY <1>1, <1>2, <1>3

\* The n elements of t are those of z behind the first m.
SameBehind(m, n, t, z) == \A i \in 1..n : t[i] = z[m + i]

\* A sequence that begins with s and goes on with t is both.
LEMMA TwoParts ==
  ASSUME NEW S, NEW s \in Seq(S), NEW t \in Seq(S), NEW z \in Seq(S),
         NEW m \in Nat, NEW n \in Nat, Len(s) = m, Len(t) = n, Len(z) = m + n,
         SameUpTo(m, s, z), SameBehind(m, n, t, z)
  PROVE  z = s \o t
<1>1. /\ s \o t \in Seq(S) /\ Len(s \o t) = m + n
      /\ \A i \in 1..(m + n) : (s \o t)[i] = IF i <= m THEN s[i] ELSE t[i - m]
  BY ConcatProperties
<1>2. ASSUME NEW i \in 1..(m + n) PROVE z[i] = (s \o t)[i]
  <2>1. CASE i <= m
    BY <1>1, <2>1 DEF SameUpTo
  <2>2. CASE ~(i <= m)
    <3>1. i - m \in 1..n /\ m + (i - m) = i
      BY <2>2
    <3>2. t[i - m] = z[m + (i - m)]
      BY <3>1 DEF SameBehind
    <3> QED BY <1>1, <2>2, <3>1, <3>2
  <2> QED BY <2>1, <2>2
<1> QED BY <1>1, <1>2, SeqEqual

-----------------------------------------------------------------------------
(* Frames                                                                   *)

\* The bytes that frames are made of.
Token ==
  {FirstByte(f) : f \in Frame} \cup {<<"len", f.mask, Marker(f)>> : f \in Frame}
  \cup {<<"size", n, i>> : n \in Nat, i \in Nat}
  \cup {<<"key", f.opcode, i>> : f \in Frame, i \in Nat}
  \cup {<<"byte", f.opcode, i>> : f \in Frame, i \in Nat}

\* No frame has the length that the marker for two bytes stands for (126 in
\* the code): the code sends such a frame with the marker alone.
NoMarkerLength == \A f \in Frame : f.length # Marker16

\* The bytes of a length, and those it can be cut into.
LEMMA SizeParts ==
  ASSUME NEW n \in Nat, NEW w \in Nat, NEW k \in 0..w
  PROVE  /\ SizeBytes(n, w) \in Seq(Token) /\ Len(SizeBytes(n, w)) = w
         /\ SubSeq(SizeBytes(n, w), 1, w - k) \in Seq(Token)
         /\ Len(SubSeq(SizeBytes(n, w), 1, w - k)) = w - k
         /\ SizeBytes(n, w) = SubSeq(SizeBytes(n, w), 1, w - k) \o SizeBytes(n, k)
<1>1. ASSUME NEW v \in Nat
      PROVE  /\ SizeBytes(n, v) \in Seq(Token) /\ Len(SizeBytes(n, v)) = v
             /\ \A i \in 1..v : SizeBytes(n, v)[i] = <<"size", n, v - i>>
  <2>1. \A i \in 1..v : <<"size", n, v - i>> \in Token
    BY DEF Token
  <2>2. SizeBytes(n, v) \in [1..v -> Token]
    BY <2>1 DEF SizeBytes
  <2>3. \A i \in 1..v : SizeBytes(n, v)[i] = <<"size", n, v - i>>
    BY DEF SizeBytes
  <2> QED BY <2>2, <2>3
<1> DEFINE all  == SizeBytes(n, w)
           high == SubSeq(all, 1, w - k)
           low  == SizeBytes(n, k)
<1>2. /\ all \in Seq(Token) /\ Len(all) = w
      /\ \A i \in 1..w : all[i] = <<"size", n, w - i>>
  BY <1>1
<1>3. /\ low \in Seq(Token) /\ Len(low) = k
      /\ \A i \in 1..k : low[i] = <<"size", n, k - i>>
  <2>1. k \in Nat
    OBVIOUS
  <2> QED BY <1>1, <2>1, Zenon
<1> HIDE DEF all, low
<1>4. /\ high \in Seq(Token) /\ Len(high) = w - k
      /\ \A i \in 1..(w - k) : high[i] = all[i]
  BY <1>2
<1> HIDE DEF high
<1>5. \A i \in 1..k : low[i] = all[(w - k) + i]
  <2> TAKE i \in 1..k
  <2>1. (w - k) + i \in 1..w /\ w - ((w - k) + i) = k - i
    OBVIOUS
  <2> QED BY <1>2, <1>3, <2>1
<1>6. w - k \in Nat /\ k \in Nat /\ Len(all) = (w - k) + k
  BY <1>2
<1>7. all = high \o low
  <2> DEFINE m == w - k
  <2>1. /\ high \in Seq(Token) /\ low \in Seq(Token) /\ all \in Seq(Token)
        /\ m \in Nat /\ k \in Nat /\ Len(high) = m /\ Len(low) = k /\ Len(all) = m + k
    BY <1>2, <1>3, <1>4, <1>6
  <2>2. SameUpTo(m, high, all) /\ SameBehind(m, k, low, all)
    BY <1>4, <1>5 DEF SameUpTo, SameBehind
  <2> HIDE DEF m
  <2> QED BY <2>1, <2>2, TwoParts
<1> QED BY <1>2, <1>4, <1>7 DEF all, high, low

LEMMA FrameParts ==
  ASSUME NEW f \in Frame
  PROVE  /\ f.length \in Nat
         /\ <<FirstByte(f), <<"len", f.mask, Marker(f)>>>> \in Seq(Token)
         /\ SizeBytes(f.length, 2) \in Seq(Token) /\ Len(SizeBytes(f.length, 2)) = 2
         /\ SizeBytes(f.length, 8) \in Seq(Token) /\ Len(SizeBytes(f.length, 8)) = 8
         /\ SubSeq(SizeBytes(f.length, 8), 1, 6) \in Seq(Token)
         /\ Len(SubSeq(SizeBytes(f.length, 8), 1, 6)) = 6
         /\ SizeBytes(f.length, 8)
              = SubSeq(SizeBytes(f.length, 8), 1, 6) \o SizeBytes(f.length, 2)
         /\ KeyBytes(f) \in Seq(Token) /\ Len(KeyBytes(f)) = IF f.mask THEN 4 ELSE 0
         /\ Payload(f) \in Seq(Token) /\ Len(Payload(f)) = f.length
<1>1. f.length \in Nat /\ f.mask \in BOOLEAN
  BY WebSocketAssumption
<1>2. <<FirstByte(f), <<"len", f.mask, Marker(f)>>>> \in Seq(Token)
  <2>1. FirstByte(f) \in Token /\ <<"len", f.mask, Marker(f)>> \in Token
    BY DEF Token
  <2> HIDE DEF Token
  <2> QED BY <2>1
<1>3. /\ SizeBytes(f.length, 2) \in Seq(Token) /\ Len(SizeBytes(f.length, 2)) = 2
      /\ SizeBytes(f.length, 8) \in Seq(Token) /\ Len(SizeBytes(f.length, 8)) = 8
  <2>1. 2 \in Nat /\ 8 \in Nat /\ 2 \in 0..2 /\ 8 \in 0..8
    OBVIOUS
  <2> QED BY <1>1, <2>1, SizeParts, Zenon
<1>4. KeyBytes(f) \in Seq(Token) /\ Len(KeyBytes(f)) = IF f.mask THEN 4 ELSE 0
  <2>1. \A i \in 1..4 : <<"key", f.opcode, i>> \in Token
    BY DEF Token
  <2>2. [i \in 1..4 |-> <<"key", f.opcode, i>>] \in [1..4 -> Token]
    BY <2>1
  <2>3. CASE f.mask
    BY <2>2, <2>3 DEF KeyBytes
  <2>4. CASE ~f.mask
    BY <2>4 DEF KeyBytes
  <2> QED BY <2>3, <2>4
<1>5. Payload(f) \in Seq(Token) /\ Len(Payload(f)) = f.length
  <2>1. \A i \in 1..f.length : <<"byte", f.opcode, i>> \in Token
    BY <1>1 DEF Token
  <2>2. Payload(f) \in [1..f.length -> Token]
    BY <2>1 DEF Payload
  <2> QED BY <1>1, <2>2
<1>6. /\ SubSeq(SizeBytes(f.length, 8), 1, 6) \in Seq(Token)
      /\ Len(SubSeq(SizeBytes(f.length, 8), 1, 6)) = 6
      /\ SizeBytes(f.length, 8)
           = SubSeq(SizeBytes(f.length, 8), 1, 6) \o SizeBytes(f.length, 2)
  <2>1. 2 \in 0..8 /\ 8 \in Nat /\ 8 - 2 = 6
    OBVIOUS
  <2>2. /\ SubSeq(SizeBytes(f.length, 8), 1, 8 - 2) \in Seq(Token)
        /\ Len(SubSeq(SizeBytes(f.length, 8), 1, 8 - 2)) = 8 - 2
        /\ SizeBytes(f.length, 8)
             = SubSeq(SizeBytes(f.length, 8), 1, 8 - 2) \o SizeBytes(f.length, 2)
    BY <1>1, <2>1, SizeParts, Zenon
  <2> QED BY <2>1, <2>2
<1> QED BY <1>1, <1>2, <1>3, <1>4, <1>5, <1>6

\* The header has room where CS_WS_pushFrame looks for it, ...
LEMMA HeaderType ==
  ASSUME NEW f \in Frame
  PROVE  Header(f) \in Seq(Token) /\ Len(Header(f)) <= maxHeaderSize(f)
<1> DEFINE start == <<FirstByte(f), <<"len", f.mask, Marker(f)>>>>
           high  == IF f.length > Medium THEN SubSeq(SizeBytes(f.length, 8), 1, 6) ELSE <<>>
           low   == IF f.length > Marker16 THEN SizeBytes(f.length, 2) ELSE <<>>
<1>1. start \in Seq(Token) /\ Len(start) = 2
  BY FrameParts
<1>2. high \in Seq(Token) /\ Len(high) = IF f.length > Medium THEN 6 ELSE 0
  <2>1. CASE f.length > Medium
    BY <2>1, FrameParts
  <2>2. CASE ~(f.length > Medium)
    BY <2>2
  <2> QED BY <2>1, <2>2
<1>3. low \in Seq(Token) /\ Len(low) = IF f.length > Marker16 THEN 2 ELSE 0
  <2>1. CASE f.length > Marker16
    BY <2>1, FrameParts
  <2>2. CASE ~(f.length > Marker16)
    BY <2>2
  <2> QED BY <2>1, <2>2
<1>4. /\ KeyBytes(f) \in Seq(Token) /\ Len(KeyBytes(f)) = IF f.mask THEN 4 ELSE 0
      /\ f.length \in Nat
  BY FrameParts
<1>5. Header(f) = start \o high \o low \o KeyBytes(f)
  BY DEF Header
<1> HIDE DEF start, high, low
<1>6. /\ Header(f) \in Seq(Token)
      /\ Len(Header(f)) = Len(start) + Len(high) + Len(low) + Len(KeyBytes(f))
  <2> DEFINE key == KeyBytes(f)
  <2>1. /\ start \in Seq(Token) /\ high \in Seq(Token) /\ low \in Seq(Token)
        /\ key \in Seq(Token)
    BY <1>1, <1>2, <1>3, <1>4
  <2> HIDE DEF key
  <2>2. /\ start \o high \o low \o key \in Seq(Token)
        /\ Len(start \o high \o low \o key) = Len(start) + Len(high) + Len(low) + Len(key)
    BY <2>1, FourParts
  <2> QED BY <1>5, <2>2 DEF key
<1>7. maxHeaderSize(f) = 2 + (IF f.length <= Short THEN 0 ELSE IF f.length <= Medium THEN 2 ELSE 8)
                           + (IF f.mask THEN 4 ELSE 0)
  BY DEF maxHeaderSize
<1> QED BY <1>1, <1>2, <1>3, <1>4, <1>6, <1>7, LengthAssumption DEF Marker16

\* ... and with the payload it is the frame as the diagram has it.
LEMMA HeaderAndPayload ==
  ASSUME NEW f \in Frame, f.length # Marker16
  PROVE  Encoding(f) = Header(f) \o Payload(f)
<1> DEFINE start == <<FirstByte(f), <<"len", f.mask, Marker(f)>>>>
           high  == IF f.length > Medium THEN SubSeq(SizeBytes(f.length, 8), 1, 6) ELSE <<>>
           low   == IF f.length > Marker16 THEN SizeBytes(f.length, 2) ELSE <<>>
           size  == CASE Marker(f) = Marker16 -> SizeBytes(f.length, 2)
                      [] Marker(f) = Marker64 -> SizeBytes(f.length, 8)
                      [] OTHER -> <<>>
<1>1. f.length \in Nat
  BY FrameParts
<1>2. /\ start \in Seq(Token) /\ high \in Seq(Token) /\ low \in Seq(Token)
      /\ KeyBytes(f) \in Seq(Token) /\ Payload(f) \in Seq(Token)
  BY FrameParts
<1>3. size = high \o low
  <2>1. CASE f.length <= Short
    <3>1. high = <<>> /\ low = <<>> /\ Marker(f) = f.length
      BY <1>1, <2>1, LengthAssumption DEF Marker, Marker16
    <3>2. size = <<>>
      BY <1>1, <2>1, <3>1, LengthAssumption DEF Marker16, Marker64
    <3> HIDE DEF low, high, size
    <3> QED BY <1>2, <3>1, <3>2, ConcatEmptySeq
  <2>2. CASE f.length > Short /\ f.length <= Medium
    <3>1. Marker(f) = Marker16 /\ f.length > Marker16 /\ Marker(f) # Marker64
      BY <1>1, <2>2, LengthAssumption DEF Marker, Marker16, Marker64
    <3>2. high = <<>> /\ low = SizeBytes(f.length, 2)
      BY <1>1, <2>2, <3>1, LengthAssumption
    <3> HIDE DEF low, high
    <3>3. size = SizeBytes(f.length, 2)
      BY <3>1, Zenon
    <3> HIDE DEF low, high, size
    <3> QED BY <1>2, <3>2, <3>3, ConcatEmptySeq
  <2>3. CASE f.length > Medium
    <3>1. Marker(f) = Marker64 /\ f.length > Marker16 /\ Marker16 # Marker64
      BY <1>1, <2>3, LengthAssumption DEF Marker, Marker16, Marker64
    <3>2. size = SizeBytes(f.length, 8)
      <4>1. Marker(f) # Marker16 /\ Marker(f) = Marker64
        BY <3>1
      <4> HIDE DEF low, high
      <4> QED BY <4>1, Zenon
    <3>3. high = SubSeq(SizeBytes(f.length, 8), 1, 6) /\ low = SizeBytes(f.length, 2)
      BY <2>3, <3>1
    <3> HIDE DEF low, high, size
    <3> QED BY <3>2, <3>3, FrameParts
  <2> HIDE DEF low, high, size
  <2>4. \/ f.length <= Short
        \/ f.length > Short /\ f.length <= Medium
        \/ f.length > Medium
    BY <1>1, LengthAssumption
  <2> QED BY <2>1, <2>2, <2>3, <2>4
<1>4. Encoding(f) = start \o size \o KeyBytes(f) \o Payload(f)
  BY DEF Encoding
<1>5. Header(f) = start \o high \o low \o KeyBytes(f)
  BY DEF Header
<1> HIDE DEF start, high, low, size
<1>6. start \o (high \o low) = (start \o high) \o low
  <2>1. Associates(start, high, low)
    BY <1>2, ThreeJoin
  <2> QED BY <2>1 DEF Associates
<1> QED BY <1>3, <1>4, <1>5, <1>6

LEMMA EncodingType ==
  ASSUME NEW f \in Frame, f.length # Marker16
  PROVE  Encoding(f) \in Seq(Token)
<1>1. Header(f) \in Seq(Token) /\ Payload(f) \in Seq(Token)
  BY HeaderType, FrameParts
<1> QED BY <1>1, HeaderAndPayload, ConcatProperties

-----------------------------------------------------------------------------
(* The stream of the frames                                                 *)

LEMMA StreamType ==
  ASSUME NoMarkerLength, log \in Seq(Frame), NEW n \in 0..Len(log)
  PROVE  Stream(n) \in Seq(Token)
<1> DEFINE ss == [k \in 1..n |-> Encoding(log[k])]
<1>1. \A k \in 1..n : Encoding(log[k]) \in Seq(Token)
  <2> TAKE k \in 1..n
  <2>1. log[k] \in Frame /\ log[k].length # Marker16
    BY ElementOfSeq DEF NoMarkerLength
  <2> QED BY <2>1, EncodingType
<1>2. ss \in [1..n -> Seq(Token)] /\ n \in Nat
  BY <1>1
<1> HIDE DEF ss
<1>3. ss \in Seq(Seq(Token))
  BY <1>2
<1> QED BY <1>3, FlattenType DEF Stream, ss

\* The last frame ends the stream.
LEMMA StreamGrows ==
  ASSUME NoMarkerLength, log \in Seq(Frame), NEW n \in Nat, n + 1 <= Len(log)
  PROVE  Stream(n + 1) = Stream(n) \o Encoding(log[n + 1])
<1> DEFINE ss == [k \in 1..n |-> Encoding(log[k])]
           tt == [k \in 1..(n + 1) |-> Encoding(log[k])]
<1>1. \A k \in 1..(n + 1) : Encoding(log[k]) \in Seq(Token)
  <2> TAKE k \in 1..(n + 1)
  <2>1. log[k] \in Frame /\ log[k].length # Marker16
    BY ElementOfSeq DEF NoMarkerLength
  <2> QED BY <2>1, EncodingType
<1>2. /\ ss \in [1..n -> Seq(Token)] /\ tt \in [1..(n + 1) -> Seq(Token)]
      /\ SameUpTo(n, ss, tt) /\ tt[n + 1] = Encoding(log[n + 1])
  BY <1>1 DEF SameUpTo
<1> HIDE DEF ss, tt
<1>3. /\ ss \in Seq(Seq(Token)) /\ Len(ss) = n
      /\ tt \in Seq(Seq(Token)) /\ Len(tt) = n + 1
  <2>1. n + 1 \in Nat
    OBVIOUS
  <2> QED BY <1>2, <2>1
<1>4. FlattenSeq(tt) = FlattenSeq(ss) \o tt[n + 1]
  <2>1. SameUpTo(n, ss, tt)
    BY <1>2
  <2> QED BY <1>3, <2>1, FlattenAppend, SMTT(20)
<1> QED BY <1>2, <1>4 DEF Stream, ss, tt

\* Frames that come later do not change it.
LEMMA StreamStays ==
  ASSUME NEW n \in Nat, \A k \in 1..n : log'[k] = log[k]
  PROVE  Stream(n)' = Stream(n)
<1>1. [k \in 1..n |-> Encoding(log'[k])] = [k \in 1..n |-> Encoding(log[k])]
  OBVIOUS
<1> QED BY <1>1 DEF Stream

-----------------------------------------------------------------------------
(* The invariant                                                            *)

Result == {"pending", "pushed", "failed"}

Types == TypeOK /\ out \in Seq(Token) /\ wire \in Seq(Token) /\ foreign \in Seq(Token)

Active(s) == pc[s] \in {"room", "payload", "write"}

\* A thread inside CS_WS_pushFrame holds the mutex, and its frame is the last.
Serial ==
  \A s \in Senders : Active(s) =>
    /\ mutex = s
    /\ Len(log) > 0 /\ push[s].at = Len(log) /\ push[s].frame = log[Len(log)]
    /\ result[Len(log)] = "pending"
    /\ push[s].payloadOffset <= push[s].frame.length
    /\ pc[s] = "room" => push[s].payloadOffset = 0

\* No push has failed.
Intact == \A k \in 1..Len(log) : result[k] # "failed"

\* Only this connection has got bytes as long as its descriptor is open, and
\* none any more when a push has failed.
Frozen ==
  /\ descriptor = "open" => foreign = <<>>
  /\ ~Intact => ~(descriptor = "open" /\ peer = "reading")

\* What came out of the output buffer, and what is in it.
AllBytes == wire \o foreign \o out

\* The bytes of the frame that is being pushed.
PutSoFar(s) ==
  IF pc[s] = "room" THEN <<>>
  ELSE Header(push[s].frame) \o SubSeq(Payload(push[s].frame), 1, push[s].payloadOffset)

\* Until a push fails the bytes are those of the frames, in their order.
InOrder ==
  Intact =>
    /\ (\A s \in Senders : ~Active(s)) => AllBytes = Stream(Len(log))
    /\ \A s \in Senders : Active(s) => AllBytes = Stream(Len(log) - 1) \o PutSoFar(s)

Base    == Types /\ Serial /\ Frozen
Content == InOrder /\ WireIsFrames /\ PushedIsWhole

-----------------------------------------------------------------------------
(* Types                                                                    *)

\* What is written leaves the buffer, and nothing is lost.
LEMMA WrittenBytes ==
  ASSUME Types, Written
  PROVE  /\ out' \in Seq(Token) /\ wire' \in Seq(Token) /\ foreign' \in Seq(Token)
         /\ behind' \in Nat /\ Len(out') + behind' <= BufferSize
         /\ (descriptor = "open" => foreign = <<>>) => AllBytes' = AllBytes
         /\ descriptor = "open" => foreign' = foreign
         /\ descriptor # "open" => wire' = wire
<1>1. /\ out \in Seq(Token) /\ wire \in Seq(Token) /\ foreign \in Seq(Token)
      /\ behind \in Nat /\ Len(out) + behind <= BufferSize /\ BufferSize \in Nat
  BY WebSocketAssumption DEF Types, TypeOK
<1>2. PICK n \in 1..Len(out) :
        /\ out' = SubSeq(out, n + 1, Len(out))
        /\ behind' = IF n = Len(out) THEN 0 ELSE behind + n
        /\ IF descriptor = "open"
           THEN wire' = wire \o SubSeq(out, 1, n) /\ UNCHANGED foreign
           ELSE foreign' = foreign \o SubSeq(out, 1, n) /\ UNCHANGED wire
  BY DEF Written
<1> DEFINE taken == SubSeq(out, 1, n)
<1>3. /\ taken \in Seq(Token) /\ out' \in Seq(Token) /\ Len(out') = Len(out) - n
      /\ out = taken \o out'
  <2>1. n \in 0..Len(out)
    BY <1>1
  <2> QED BY <1>1, <1>2, <2>1, Cut, Zenon
<1>4. /\ wire' = IF descriptor = "open" THEN wire \o taken ELSE wire
      /\ foreign' = IF descriptor = "open" THEN foreign ELSE foreign \o taken
  BY <1>2
<1> HIDE DEF taken
<1>5. behind' \in Nat /\ Len(out') + behind' <= BufferSize
  <2>1. behind' = IF n = Len(out) THEN 0 ELSE behind + n
    BY <1>2
  <2>2. Len(out) \in Nat /\ n \in 1..Len(out) /\ Len(out') = Len(out) - n
    BY <1>1, <1>3
  <2> QED BY <1>1, <2>1, <2>2
<1>6. wire' \in Seq(Token) /\ foreign' \in Seq(Token)
  BY <1>1, <1>3, <1>4, ConcatProperties
<1>7. ASSUME descriptor = "open" => foreign = <<>> PROVE AllBytes' = AllBytes
  <2>1. CASE descriptor = "open"
    <3>1. foreign = <<>> /\ foreign' = <<>> /\ wire' = wire \o taken
      BY <1>4, <1>7, <2>1
    <3>2. wire \o <<>> = wire /\ wire' \o <<>> = wire'
      BY <1>1, <1>6, ConcatEmptySeq
    <3>3. (wire \o taken) \o out' = wire \o (taken \o out')
      <4>1. Associates(wire, taken, out')
        BY <1>1, <1>3, ThreeJoin
      <4> QED BY <4>1 DEF Associates
    <3> QED BY <1>3, <3>1, <3>2, <3>3 DEF AllBytes
  <2>2. CASE descriptor # "open"
    <3> DEFINE h == wire \o foreign
    <3>1. foreign' = foreign \o taken /\ wire' = wire
      BY <1>4, <2>2
    <3>2. wire \o (foreign \o taken) = h \o taken /\ h \in Seq(Token)
      <4>1. Associates(wire, foreign, taken)
        BY <1>1, <1>3, ThreeJoin
      <4>2. h \in Seq(Token)
        BY <1>1, ConcatProperties
      <4> QED BY <4>1, <4>2 DEF Associates
    <3>3. /\ h \in Seq(Token) /\ AllBytes = h \o out
          /\ AllBytes' = (h \o taken) \o out'
      <4>1. AllBytes = h \o out
        BY DEF AllBytes
      <4>2. AllBytes' = (wire \o (foreign \o taken)) \o out'
        BY <3>1 DEF AllBytes
      <4> HIDE DEF h
      <4> QED BY <3>2, <4>1, <4>2
    <3> HIDE DEF h
    <3>4. (h \o taken) \o out' = h \o (taken \o out')
      <4>1. h \in Seq(Token) /\ taken \in Seq(Token) /\ out' \in Seq(Token)
        BY <1>3, <3>3
      <4>2. Associates(h, taken, out')
        BY <4>1, ThreeJoin
      <4> QED BY <4>2 DEF Associates
    <3> QED BY <1>3, <3>3, <3>4
  <2> QED BY <2>1, <2>2
<1> QED BY <1>3, <1>4, <1>5, <1>6, <1>7

\* A push begins.
LEMMA PushTypes ==
  ASSUME Types, NEW s \in Senders, Push(s)
  PROVE  /\ Types'
         /\ push'[s].frame \in Frame /\ log' = Append(log, push'[s].frame)
         /\ Len(log') = Len(log) + 1 /\ push'[s].at = Len(log')
         /\ log'[Len(log')] = push'[s].frame /\ push'[s].payloadOffset = 0
         /\ \A k \in 1..Len(log) : log'[k] = log[k] /\ result'[k] = result[k]
         /\ result'[Len(log')] = "pending"
         /\ \A t \in Senders : t # s => push'[t] = push[t]
<1>1. PICK f \in Frame, unlock \in UnlockArgs, closing \in BOOLEAN :
        /\ push' = [push EXCEPT ![s] =
             [frame |-> f, at |-> Len(log) + 1, payloadOffset |-> 0,
              unlock |-> unlock, closing |-> closing]]
        /\ log' = Append(log, f)
  BY DEF Push
<1>2. /\ log \in Seq(Frame) /\ result \in [1..Len(log) -> Result]
      /\ push \in [Senders -> [frame : Frame, at : 0..Len(log), payloadOffset : Nat,
                               unlock : BOOLEAN, closing : BOOLEAN]]
      /\ unlock \in BOOLEAN /\ Len(log) \in Nat
  BY WebSocketAssumption DEF Types, TypeOK, Result
<1>3. /\ log' \in Seq(Frame) /\ Len(log') = Len(log) + 1 /\ log'[Len(log) + 1] = f
      /\ \A k \in 1..Len(log) : log'[k] = log[k]
  BY <1>1, <1>2, AppendProperties
<1>4. result \in Seq(Result) /\ Len(result) = Len(log)
  BY <1>2
<1>5. /\ result' \in Seq(Result) /\ Len(result') = Len(log) + 1
      /\ result'[Len(log) + 1] = "pending" /\ \A k \in 1..Len(log) : result'[k] = result[k]
  <2>1. result' = Append(result, "pending") /\ "pending" \in Result
    BY DEF Push, Result
  <2> QED BY <1>4, <2>1, AppendProperties
<1>6. result' \in [1..Len(log') -> Result]
  BY <1>3, <1>5, LenProperties
<1>7. push' \in [Senders -> [frame : Frame, at : 0..Len(log'), payloadOffset : Nat,
                             unlock : BOOLEAN, closing : BOOLEAN]]
  <2>1. [frame |-> f, at |-> Len(log) + 1, payloadOffset |-> 0, unlock |-> unlock,
         closing |-> closing] \in [frame : Frame, at : 0..Len(log'), payloadOffset : Nat,
                                   unlock : BOOLEAN, closing : BOOLEAN]
    BY <1>2, <1>3
  <2>2. \A t \in Senders : push[t] \in [frame : Frame, at : 0..Len(log'), payloadOffset : Nat,
                                        unlock : BOOLEAN, closing : BOOLEAN]
    <3>1. 0..Len(log) \subseteq 0..Len(log')
      BY <1>2, <1>3
    <3> TAKE t \in Senders
    <3>2. push[t] \in [frame : Frame, at : 0..Len(log), payloadOffset : Nat,
                       unlock : BOOLEAN, closing : BOOLEAN]
      BY <1>2
    <3> QED BY <3>1, <3>2
  <2> QED BY <1>1, <1>2, <2>1, <2>2
<1>8. pc' \in [Senders -> Places] /\ mutex' \in Senders \cup {NoSender}
  BY DEF Push, Goto, Types, TypeOK, Places
<1>9. Types'
  <2>1. UNCHANGED <<out, behind, wire, foreign, descriptor, peer>>
    BY DEF Push, connection
  <2>2. \A t \in Senders : push'[t].payloadOffset <= push'[t].frame.length
    <3>1. f.length \in Nat
      BY FrameParts
    <3>2. push'[s] = [frame |-> f, at |-> Len(log) + 1, payloadOffset |-> 0,
                      unlock |-> unlock, closing |-> closing]
      BY <1>1, <1>2
    <3>3. push'[s].payloadOffset <= push'[s].frame.length
      BY <3>1, <3>2
    <3>4. \A t \in Senders : t # s => push'[t] = push[t]
      BY <1>1, <1>2
    <3> QED BY <3>3, <3>4 DEF Types, TypeOK
  <2> QED BY <1>3, <1>6, <1>7, <1>8, <2>1, <2>2 DEF Types, TypeOK, Result
<1>10. /\ push'[s].frame = f /\ push'[s].at = Len(log) + 1 /\ push'[s].payloadOffset = 0
       /\ \A t \in Senders : t # s => push'[t] = push[t]
  BY <1>1, <1>2
<1> QED BY <1>1, <1>3, <1>5, <1>9, <1>10

\* A push changes the result of its frame, and where its thread is.
LEMMA PushGoesOn ==
  ASSUME Types, NEW s \in Senders, NEW there \in Places, Goto(s, there),
         NEW answer \in Result, result' = [result EXCEPT ![push[s].at] = answer],
         mutex' \in {mutex, NoSender}, UNCHANGED <<log, push, connection>>,
         out' \in Seq(Token), wire' \in Seq(Token), foreign' \in Seq(Token),
         behind' \in Nat, Len(out') + behind' <= BufferSize
  PROVE  Types'
<1>1. pc' \in [Senders -> Places] /\ mutex' \in Senders \cup {NoSender}
  BY DEF Goto, Types, TypeOK
<1>2. result' \in [1..Len(log) -> Result]
  BY DEF Types, TypeOK, Result
<1> QED BY <1>1, <1>2 DEF Types, TypeOK, Result, connection

LEMMA RoomTypes ==
  ASSUME Types, NEW s \in Senders, MakeRoom(s) \/ RoomFails(s) \/ PutHeader(s)
  PROVE  Types'
<1>1. ASSUME MakeRoom(s) PROVE Types'
  <2>1. Written /\ UNCHANGED <<mutex, log, result, pc, push, connection>>
    BY <1>1 DEF MakeRoom
  <2> QED BY <2>1, WrittenBytes DEF Types, TypeOK, connection
<1>2. ASSUME RoomFails(s) PROVE Types'
  <2>1. After(s) \in Places /\ "failed" \in Result
    BY DEF After, Places, Result
  <2>2. UNCHANGED <<out, behind, wire, foreign>>
    BY <1>2 DEF RoomFails, WriteFails
  <2> QED BY <1>2, <2>1, <2>2, PushGoesOn DEF RoomFails, Types, TypeOK
<1>3. ASSUME PutHeader(s) PROVE Types'
  <2> DEFINE f == push[s].frame
             header == Header(f)
  <2>1. f \in Frame /\ out \in Seq(Token) /\ behind \in Nat /\ BufferSize \in Nat
    BY WebSocketAssumption DEF Types, TypeOK
  <2>2. /\ header \in Seq(Token) /\ Len(header) <= maxHeaderSize(f)
        /\ BufferSize - behind - Len(out) >= maxHeaderSize(f) /\ out' = out \o header
    BY <1>3, <2>1, HeaderType DEF PutHeader, bufferRemaining
  <2>3. maxHeaderSize(f) \in Nat
    BY DEF maxHeaderSize
  <2> HIDE DEF f, header
  <2>4. out' \in Seq(Token) /\ Len(out') = Len(out) + Len(header)
    BY <2>1, <2>2, ConcatProperties
  <2>5. Len(out) \in Nat /\ Len(header) \in Nat
    BY <2>1, <2>2
  <2>6. Len(out') + behind <= BufferSize
    BY <2>1, <2>2, <2>3, <2>4, <2>5
  <2>7. pc' \in [Senders -> Places]
    BY <1>3 DEF PutHeader, Goto, Types, TypeOK, Places
  <2> QED BY <1>3, <2>4, <2>6, <2>7 DEF PutHeader, Types, TypeOK, connection
<1> QED BY <1>1, <1>2, <1>3

\* As much of the payload goes into the buffer as it has room for.
LEMMA PutPayloadTypes ==
  ASSUME Types, NEW s \in Senders, PutPayload(s)
  PROVE  /\ Types'
         /\ LET f == push[s].frame
                o == push[s].payloadOffset
                p == push'[s].payloadOffset IN
            /\ o \in 0..f.length /\ p \in o..f.length
            /\ out' = out \o SubSeq(Payload(f), o + 1, p)
            /\ push'[s].frame = f /\ push'[s].at = push[s].at
            /\ \A t \in Senders : t # s => push'[t] = push[t]
<1> DEFINE f == push[s].frame
           o == push[s].payloadOffset
           p == o + Fits(s)
           part == SubSeq(Payload(f), o + 1, p)
<1>1. /\ f \in Frame /\ o \in Nat /\ out \in Seq(Token) /\ behind \in Nat
      /\ BufferSize \in Nat /\ Len(out) \in Nat /\ Len(out) + behind <= BufferSize
      /\ push \in [Senders -> [frame : Frame, at : 0..Len(log), payloadOffset : Nat,
                               unlock : BOOLEAN, closing : BOOLEAN]]
  BY WebSocketAssumption DEF Types, TypeOK
<1>2. f.length \in Nat /\ Payload(f) \in Seq(Token) /\ Len(Payload(f)) = f.length
  BY <1>1, FrameParts
<1>3. /\ out' = out \o part /\ push' = [push EXCEPT ![s].payloadOffset = p]
      /\ Remaining(s) > 0
  BY <1>1 DEF PutPayload
<1>4. Remaining(s) = f.length - o /\ bufferRemaining = BufferSize - behind - Len(out)
  BY DEF Remaining, bufferRemaining
<1>5. Fits(s) \in Nat /\ Fits(s) <= f.length - o /\ Fits(s) <= BufferSize - behind - Len(out)
  <2>1. Remaining(s) \in Nat /\ bufferRemaining \in Nat
    BY <1>1, <1>2, <1>3, <1>4, SMTT(20)
  <2>2. Fits(s) \in Nat /\ Fits(s) <= Remaining(s) /\ Fits(s) <= bufferRemaining
    BY <2>1 DEF Fits
  <2> QED BY <1>4, <2>2
<1>6. o \in 0..f.length /\ p \in o..f.length /\ p - o = Fits(s)
  <2> DEFINE n == f.length
  <2>1. o \in Nat /\ n \in Nat /\ Fits(s) \in Nat /\ Fits(s) <= n - o
    BY <1>1, <1>2, <1>5
  <2> HIDE DEF o, n
  <2>2. o \in 0..n /\ p \in o..n /\ p - o = Fits(s)
    BY <2>1
  <2> QED BY <2>2 DEF n
<1> HIDE DEF f, o, p
<1>7. part \in Seq(Token) /\ Len(part) = p - o
  <2>1. \A i \in (o + 1)..p : Payload(f)[i] \in Token
    BY <1>2, <1>6, ElementOfSeq
  <2>2. o + 1 \in Int /\ p \in Int
    BY <1>2, <1>6
  <2>3. part \in Seq(Token) /\ Len(part) = IF o + 1 <= p THEN p - (o + 1) + 1 ELSE 0
    BY <2>1, <2>2, SubSeqProperties, Zenon
  <2> QED BY <1>2, <1>6, <2>3
<1> HIDE DEF part
<1>8. out' \in Seq(Token) /\ Len(out') = Len(out) + Len(part)
  BY <1>1, <1>3, <1>7, ConcatProperties
<1>9. Len(out') + behind <= BufferSize
  BY <1>1, <1>5, <1>6, <1>7, <1>8
<1>10. /\ push'[s] = [push[s] EXCEPT !.payloadOffset = p]
       /\ \A t \in Senders : t # s => push'[t] = push[t]
       /\ push' \in [Senders -> [frame : Frame, at : 0..Len(log), payloadOffset : Nat,
                                 unlock : BOOLEAN, closing : BOOLEAN]]
  <2>1. p \in Nat
    BY <1>2, <1>6
  <2> QED BY <1>1, <1>3, <2>1
<1>11. push'[s].frame = f /\ push'[s].at = push[s].at /\ push'[s].payloadOffset = p
  <2>1. push[s] \in [frame : Frame, at : 0..Len(log), payloadOffset : Nat,
                     unlock : BOOLEAN, closing : BOOLEAN]
    BY <1>1
  <2> QED BY <1>10, <2>1 DEF f
<1>12. Types'
  <2>1. pc' \in [Senders -> Places]
    BY DEF PutPayload, Goto, Types, TypeOK, Places
  <2>2. \A t \in Senders : push'[t].payloadOffset <= push'[t].frame.length
    <3>1. push'[s].payloadOffset <= push'[s].frame.length
      BY <1>2, <1>6, <1>11
    <3> QED BY <1>10, <3>1 DEF Types, TypeOK
  <2> QED BY <1>8, <1>9, <1>10, <2>1, <2>2 DEF PutPayload, Types, TypeOK, connection
<1> QED BY <1>3, <1>6, <1>10, <1>11, <1>12 DEF f, o, p, part

LEMMA FinishTypes ==
  ASSUME Types, NEW s \in Senders, WritePayload(s) \/ PayloadFails(s) \/ Pushed(s)
  PROVE  Types'
<1>1. ASSUME WritePayload(s) PROVE Types'
  <2>1. Written /\ UNCHANGED <<mutex, log, result, push, connection>>
    BY <1>1 DEF WritePayload
  <2>2. pc' \in [Senders -> Places]
    BY <1>1 DEF WritePayload, Goto, Types, TypeOK, Places
  <2> QED BY <2>1, <2>2, WrittenBytes DEF Types, TypeOK, connection
<1>2. ASSUME NEW answer \in Result, Finish(s, answer), UNCHANGED <<out, behind, wire, foreign>>
      PROVE  Types'
  <2>1. After(s) \in Places
    BY DEF After, Places
  <2>2. mutex' \in {mutex, NoSender}
    BY <1>2 DEF Finish
  <2> QED BY <1>2, <2>1, <2>2, PushGoesOn DEF Finish, Types, TypeOK
<1>3. ASSUME PayloadFails(s) PROVE Types'
  BY <1>2, <1>3 DEF PayloadFails, WriteFails, Result
<1>4. ASSUME Pushed(s) PROVE Types'
  BY <1>2, <1>4 DEF Pushed, Result
<1> QED BY <1>1, <1>3, <1>4

LEMMA OtherTypes ==
  ASSUME Types,
         (\E s \in Senders : CloseSocket(s)) \/ ClientEnds \/ Accept \/ PeerLeaves
         \/ UNCHANGED vars
  PROVE  Types'
<1>1. ASSUME NEW s \in Senders, CloseSocket(s) PROVE Types'
  <2>1. pc' \in [Senders -> Places]
    BY <1>1 DEF CloseSocket, Goto, Types, TypeOK, Places
  <2> QED BY <1>1, <2>1 DEF CloseSocket, Types, TypeOK
<1>2. ASSUME ClientEnds \/ Accept \/ PeerLeaves \/ UNCHANGED vars PROVE Types'
  BY <1>2 DEF ClientEnds, Accept, PeerLeaves, vars, connection, Types, TypeOK
<1> QED BY <1>1, <1>2

LEMMA TypesNext == Types /\ [Next]_vars => Types'
BY PushTypes, RoomTypes, PutPayloadTypes, FinishTypes, OtherTypes DEF Next, Step

LEMMA TypesInit == Init => Types
<1> SUFFICES ASSUME Init PROVE Types
  OBVIOUS
<1>1. /\ log \in Seq(Frame) /\ Len(log) = 0 /\ out \in Seq(Token) /\ Len(out) = 0
      /\ wire \in Seq(Token) /\ foreign \in Seq(Token)
  BY EmptySeq DEF Init
<1>2. result \in [1..Len(log) -> {"pending", "pushed", "failed"}]
  BY <1>1 DEF Init
<1>3. push \in [Senders -> [frame : Frame, at : 0..Len(log), payloadOffset : Nat,
                            unlock : BOOLEAN, closing : BOOLEAN]]
  BY <1>1, WebSocketAssumption DEF Init, Idle
<1>4. \A s \in Senders : push[s].payloadOffset <= push[s].frame.length
  BY WebSocketAssumption, FrameParts DEF Init, Idle
<1> QED BY <1>1, <1>2, <1>3, <1>4, WebSocketAssumption DEF Init, Types, TypeOK, Places

-----------------------------------------------------------------------------
(* One push at a time                                                       *)

\* A step inside a push of s that leaves its frame in place.
LEMMA SerialMoves ==
  ASSUME Types, Serial, NEW s \in Senders, Active(s), NEW there \in Places, Goto(s, there),
         UNCHANGED <<log, result, mutex>>,
         push'[s].frame = push[s].frame, push'[s].at = push[s].at,
         push'[s].payloadOffset <= push'[s].frame.length, there # "room",
         \A t \in Senders : t # s => push'[t] = push[t]
  PROVE  Serial'
<1>1. pc' = [pc EXCEPT ![s] = there] /\ pc \in [Senders -> Places]
  BY DEF Goto, Types, TypeOK
<1>2. \A t \in Senders : t # s => ~Active(t)'
  BY <1>1 DEF Serial, Active
<1>3. pc'[s] # "room" /\ mutex = s /\ Len(log) > 0 /\ push[s].at = Len(log)
      /\ push[s].frame = log[Len(log)] /\ result[Len(log)] = "pending"
  BY <1>1 DEF Serial
<1> QED BY <1>2, <1>3 DEF Serial

\* A push ends.
LEMMA SerialEnds ==
  ASSUME Types, Serial, NEW s \in Senders, Active(s), Goto(s, After(s))
  PROVE  Serial' /\ \A t \in Senders : ~Active(t)'
<1>1. pc' = [pc EXCEPT ![s] = After(s)] /\ pc \in [Senders -> Places]
  BY DEF Goto, Types, TypeOK
<1>2. After(s) \notin {"room", "payload", "write"}
  BY DEF After
<1>3. \A t \in Senders : ~Active(t)'
  BY <1>1, <1>2 DEF Serial, Active
<1> QED BY <1>3 DEF Serial

LEMMA SerialNext == Types /\ Serial /\ [Next]_vars => Serial'
<1> SUFFICES ASSUME Types, Serial, [Next]_vars PROVE Serial'
  OBVIOUS
<1>1. ASSUME NEW s \in Senders, Push(s) PROVE Serial'
  <2>1. \A t \in Senders : ~Active(t)
    BY <1>1, WebSocketAssumption DEF Push, Serial
  <2>2. mutex' = s /\ pc' = [pc EXCEPT ![s] = "room"] /\ pc \in [Senders -> Places]
    BY <1>1 DEF Push, Goto, Types, TypeOK
  <2>3. \A t \in Senders : t # s => ~Active(t)'
    BY <2>1, <2>2 DEF Active
  <2>4. /\ push'[s].frame \in Frame /\ Len(log') = Len(log) + 1 /\ push'[s].at = Len(log')
        /\ log'[Len(log')] = push'[s].frame /\ push'[s].payloadOffset = 0
        /\ result'[Len(log')] = "pending"
    BY <1>1, PushTypes
  <2>5. Len(log') > 0 /\ push'[s].payloadOffset <= push'[s].frame.length
    BY <2>4, WebSocketAssumption DEF Types, TypeOK
  <2> QED BY <2>2, <2>3, <2>4, <2>5 DEF Serial
<1>2. ASSUME NEW s \in Senders, MakeRoom(s) PROVE Serial'
  BY <1>2 DEF MakeRoom, Serial, Active
<1>3. ASSUME NEW s \in Senders, PutHeader(s) \/ WritePayload(s) PROVE Serial'
  <2>1. Active(s) /\ UNCHANGED <<log, result, mutex, push>> /\ Goto(s, "payload")
    BY <1>3 DEF PutHeader, WritePayload, Active
  <2>2. push[s].payloadOffset <= push[s].frame.length /\ "payload" \in Places /\ "payload" # "room"
    BY <2>1 DEF Serial, Places
  <2> QED BY <2>1, <2>2, SerialMoves
<1>4. ASSUME NEW s \in Senders, PutPayload(s) PROVE Serial'
  <2>1. /\ push'[s].frame = push[s].frame /\ push'[s].at = push[s].at
        /\ push'[s].payloadOffset \in push[s].payloadOffset..push[s].frame.length
        /\ \A t \in Senders : t # s => push'[t] = push[t]
    BY <1>4, PutPayloadTypes
  <2>2. Active(s) /\ UNCHANGED <<log, result, mutex>> /\ Goto(s, "write") /\ "write" \in Places /\ "write" # "room"
    BY <1>4 DEF PutPayload, Active, Places
  <2>3. push'[s].payloadOffset <= push'[s].frame.length
    BY <2>1
  <2> QED BY <2>1, <2>2, <2>3, SerialMoves
<1>5. ASSUME NEW s \in Senders, RoomFails(s) \/ PayloadFails(s) \/ Pushed(s) PROVE Serial'
  BY <1>5, SerialEnds DEF RoomFails, PayloadFails, Pushed, Finish, Active
<1>6. ASSUME NEW s \in Senders, CloseSocket(s) PROVE Serial'
  <2>1. \A t \in Senders : Active(t)' => Active(t) /\ pc'[t] = pc[t]
    BY <1>6 DEF CloseSocket, Goto, Active, Types, TypeOK
  <2> QED BY <1>6, <2>1 DEF CloseSocket, Serial
<1>7. ASSUME ClientEnds \/ Accept \/ PeerLeaves \/ UNCHANGED vars PROVE Serial'
  BY <1>7 DEF ClientEnds, Accept, PeerLeaves, vars, connection, Serial, Active
<1> QED BY <1>1, <1>2, <1>3, <1>4, <1>5, <1>6, <1>7 DEF Next, Step

-----------------------------------------------------------------------------
(* A failed push ends the writing                                           *)

LEMMA FrozenNext == Types /\ Serial /\ Frozen /\ [Next]_vars => Frozen'
<1> SUFFICES ASSUME Types, Serial, Frozen, [Next]_vars PROVE Frozen'
  OBVIOUS
<1> USE DEF connection
<1>1. ASSUME NEW s \in Senders, Push(s) PROVE Frozen'
  <2>1. /\ \A k \in 1..Len(log) : result'[k] = result[k]
        /\ Len(log') = Len(log) + 1 /\ result'[Len(log')] = "pending"
    BY <1>1, PushTypes
  <2>2. Len(log) \in Nat
    BY DEF Types, TypeOK
  <2>3. Intact => Intact'
    <3>1. ASSUME Intact, NEW k \in 1..Len(log') PROVE result'[k] # "failed"
      <4>1. k \in 1..Len(log) \/ k = Len(log')
        BY <2>1, <2>2
      <4> QED BY <2>1, <3>1, <4>1 DEF Intact
    <3> QED BY <3>1 DEF Intact
  <2> QED BY <1>1, <2>3 DEF Push, Frozen
<1>2. ASSUME NEW s \in Senders, MakeRoom(s) \/ WritePayload(s) PROVE Frozen'
  <2>1. Written /\ UNCHANGED <<log, result, connection>>
    BY <1>2 DEF MakeRoom, WritePayload
  <2>2. descriptor = "open" => foreign' = foreign
    BY <2>1, WrittenBytes
  <2> QED BY <2>1, <2>2 DEF Frozen, Intact
<1>3. ASSUME NEW s \in Senders, PutHeader(s) \/ PutPayload(s) PROVE Frozen'
  BY <1>3 DEF PutHeader, PutPayload, Frozen, Intact
<1>4. ASSUME NEW s \in Senders, RoomFails(s) \/ PayloadFails(s) PROVE Frozen'
  BY <1>4 DEF RoomFails, PayloadFails, Finish, WriteFails, Frozen
<1>5. ASSUME NEW s \in Senders, Pushed(s) PROVE Frozen'
  <2>1. /\ UNCHANGED <<log, foreign, descriptor, peer>>
        /\ result' = [result EXCEPT ![push[s].at] = "pushed"]
        /\ push[s].at = Len(log) /\ result[Len(log)] = "pending"
        /\ result \in [1..Len(log) -> Result]
    BY <1>5 DEF Pushed, Finish, Serial, Active, Types, TypeOK, Result
  <2>2. Intact => Intact'
    BY <2>1 DEF Intact
  <2> QED BY <2>1, <2>2 DEF Frozen
<1>6. ASSUME NEW s \in Senders, CloseSocket(s) PROVE Frozen'
  BY <1>6 DEF CloseSocket, Frozen
<1>7. ASSUME ClientEnds \/ Accept \/ PeerLeaves \/ UNCHANGED vars PROVE Frozen'
  BY <1>7 DEF ClientEnds, Accept, PeerLeaves, vars, Frozen, Intact
<1> QED BY <1>1, <1>2, <1>3, <1>4, <1>5, <1>6, <1>7 DEF Next, Step

LEMMA BaseNext == Base /\ [Next]_vars => Base'
BY TypesNext, SerialNext, FrozenNext DEF Base

LEMMA BaseInit == Init => Base
<1> SUFFICES ASSUME Init PROVE Base
  OBVIOUS
<1>1. Serial /\ Frozen
  BY EmptySeq DEF Init, Serial, Active, Frozen, Intact
<1> QED BY <1>1, TypesInit DEF Base

-----------------------------------------------------------------------------
(* The bytes                                                                *)

\* What a step needs to know of the sequences.
LEMMA BytesTypes ==
  ASSUME Types, NoMarkerLength
  PROVE  /\ Len(log) \in Nat /\ AllBytes \in Seq(Token) /\ Stream(Len(log)) \in Seq(Token)
         /\ Len(log) > 0 => Stream(Len(log) - 1) \in Seq(Token)
         /\ IsPrefix(wire, AllBytes)
<1>1. /\ log \in Seq(Frame) /\ Len(log) \in Nat /\ out \in Seq(Token)
      /\ wire \in Seq(Token) /\ foreign \in Seq(Token)
  BY DEF Types, TypeOK
<1>2. Stream(Len(log)) \in Seq(Token)
  BY <1>1, StreamType
<1>3. ASSUME Len(log) > 0 PROVE Stream(Len(log) - 1) \in Seq(Token)
  <2>1. Len(log) - 1 \in 0..Len(log)
    BY <1>1, <1>3
  <2> QED BY <1>1, <2>1, StreamType
<1>4. /\ foreign \o out \in Seq(Token) /\ AllBytes = wire \o (foreign \o out)
      /\ AllBytes \in Seq(Token)
  <2>1. Associates(wire, foreign, out)
    BY <1>1, ThreeJoin
  <2>2. foreign \o out \in Seq(Token)
    BY <1>1, ConcatProperties
  <2>3. wire \o (foreign \o out) \in Seq(Token)
    BY <1>1, <2>2, ConcatProperties
  <2> QED BY <2>1, <2>2, <2>3 DEF Associates, AllBytes
<1>5. IsPrefix(wire, AllBytes)
  BY <1>1, <1>4, PrefixIff
<1> QED BY <1>1, <1>2, <1>3, <1>4, <1>5

\* What is put into the buffer adds itself.
LEMMA PutBytes ==
  ASSUME Types, NEW x \in Seq(Token), out' = out \o x, UNCHANGED <<wire, foreign>>
  PROVE  AllBytes' = AllBytes \o x
<1>1. out \in Seq(Token) /\ wire \in Seq(Token) /\ foreign \in Seq(Token)
  BY DEF Types
<1> DEFINE h == wire \o foreign
<1>2. h \in Seq(Token) /\ AllBytes = h \o out /\ AllBytes' = h \o (out \o x)
  <2>1. h \in Seq(Token)
    BY <1>1, ConcatProperties
  <2>2. AllBytes = h \o out /\ AllBytes' = h \o (out \o x)
    BY DEF AllBytes
  <2> QED BY <2>1, <2>2
<1> HIDE DEF h
<1>3. (h \o out) \o x = h \o (out \o x)
  <2>1. Associates(h, out, x)
    BY <1>1, <1>2, ThreeJoin
  <2> QED BY <2>1 DEF Associates
<1> QED BY <1>2, <1>3

\* What a push has put into the buffer begins the bytes of its frame.
LEMMA PutSoFarType ==
  ASSUME Types, Serial, NoMarkerLength, NEW s \in Senders, Active(s)
  PROVE  LET f == push[s].frame IN
         /\ f \in Frame /\ f.length # Marker16 /\ log[Len(log)] = f
         /\ push[s].payloadOffset \in 0..f.length
         /\ PutSoFar(s) \in Seq(Token) /\ IsPrefix(PutSoFar(s), Encoding(f))
<1> DEFINE f == push[s].frame
           o == push[s].payloadOffset
           part == SubSeq(Payload(f), 1, o)
           rest == SubSeq(Payload(f), o + 1, Len(Payload(f)))
<1>1. f \in Frame /\ f.length # Marker16 /\ log[Len(log)] = f /\ o \in 0..f.length
  BY WebSocketAssumption DEF Types, TypeOK, Serial, NoMarkerLength
<1>2. /\ Header(f) \in Seq(Token) /\ Payload(f) \in Seq(Token) /\ Len(Payload(f)) = f.length
      /\ Encoding(f) \in Seq(Token) /\ Encoding(f) = Header(f) \o Payload(f)
  BY <1>1, HeaderType, FrameParts, EncodingType, HeaderAndPayload
<1>3. part \in Seq(Token) /\ rest \in Seq(Token) /\ Payload(f) = part \o rest
  <2>1. o \in 0..Len(Payload(f))
    BY <1>1, <1>2
  <2> QED BY <1>2, <2>1, Cut, Zenon
<1>4. PutSoFar(s) = IF pc[s] = "room" THEN <<>> ELSE Header(f) \o part
  BY DEF PutSoFar
<1> HIDE DEF f, o, part, rest
<1>5. CASE pc[s] = "room"
  <2>1. PutSoFar(s) = <<>> /\ Encoding(f) = <<>> \o Encoding(f) /\ <<>> \in Seq(Token)
    BY <1>2, <1>4, <1>5, ConcatEmptySeq
  <2>2. IsPrefix(PutSoFar(s), Encoding(f))
    BY <1>2, <2>1, PrefixIff
  <2> QED BY <1>1, <2>1, <2>2 DEF f, o
<1>6. CASE pc[s] # "room"
  <2>1. PutSoFar(s) = Header(f) \o part /\ PutSoFar(s) \in Seq(Token)
    BY <1>2, <1>3, <1>4, <1>6, ConcatProperties
  <2>2. Encoding(f) = PutSoFar(s) \o rest
    <3>1. Associates(Header(f), part, rest)
      BY <1>2, <1>3, ThreeJoin
    <3> QED BY <1>2, <1>3, <2>1, <3>1 DEF Associates
  <2>3. IsPrefix(PutSoFar(s), Encoding(f))
    BY <1>2, <1>3, <2>1, <2>2, PrefixIff
  <2> QED BY <1>1, <2>1, <2>3 DEF f, o
<1> QED BY <1>5, <1>6

\* Until a push fails, the bytes are the start of the stream.
LEMMA BytesInStream ==
  ASSUME Base, InOrder, NoMarkerLength, Intact
  PROVE  IsPrefix(AllBytes, Stream(Len(log)))
<1>1. Types /\ Serial /\ log \in Seq(Frame)
  BY DEF Base, Types, TypeOK
<1>2. /\ Len(log) \in Nat /\ AllBytes \in Seq(Token) /\ Stream(Len(log)) \in Seq(Token)
      /\ Len(log) > 0 => Stream(Len(log) - 1) \in Seq(Token)
  BY <1>1, BytesTypes
<1>3. CASE \A s \in Senders : ~Active(s)
  <2>1. AllBytes = Stream(Len(log))
    BY <1>3 DEF InOrder
  <2>2. Stream(Len(log)) = AllBytes \o <<>> /\ <<>> \in Seq(Token)
    BY <1>2, <2>1, ConcatEmptySeq
  <2> QED BY <1>2, <2>2, PrefixIff
<1>4. ASSUME NEW s \in Senders, Active(s) PROVE IsPrefix(AllBytes, Stream(Len(log)))
  <2> DEFINE n == Len(log) - 1
             f == push[s].frame
  <2>1. Len(log) > 0
    BY <1>1, <1>4 DEF Serial
  <2>2. n \in Nat /\ n + 1 = Len(log) /\ n + 1 <= Len(log)
    BY <1>2, <2>1
  <2>3. /\ PutSoFar(s) \in Seq(Token) /\ IsPrefix(PutSoFar(s), Encoding(f))
        /\ f \in Frame /\ f.length # Marker16 /\ log[Len(log)] = f
    BY <1>1, <1>4, PutSoFarType
  <2>4. Stream(n) \in Seq(Token) /\ AllBytes = Stream(n) \o PutSoFar(s)
    BY <1>2, <1>4, <2>1 DEF InOrder
  <2>5. Stream(n + 1) = Stream(n) \o Encoding(log[n + 1])
    BY <1>1, <2>2, StreamGrows
  <2> HIDE DEF n, f
  <2>6. Stream(Len(log)) = Stream(n) \o Encoding(f)
    BY <2>2, <2>3, <2>5
  <2>7. Encoding(f) \in Seq(Token)
    BY <2>3, EncodingType
  <2>8. PICK u \in Seq(Token) : Encoding(f) = PutSoFar(s) \o u
    BY <2>3, <2>7, PrefixIff
  <2> DEFINE h == Stream(n)
             p == PutSoFar(s)
  <2>9. h \in Seq(Token) /\ p \in Seq(Token) /\ u \in Seq(Token)
    BY <2>3, <2>4
  <2> HIDE DEF h, p
  <2>10. (h \o p) \o u = h \o (p \o u)
    <3>1. Associates(h, p, u)
      BY <2>9, ThreeJoin
    <3> QED BY <3>1 DEF Associates
  <2>11. Stream(Len(log)) = h \o (p \o u) /\ AllBytes = h \o p
    BY <2>4, <2>6, <2>8 DEF h, p
  <2>12. Stream(Len(log)) = AllBytes \o u
    BY <2>10, <2>11
  <2> QED BY <1>2, <2>12, PrefixIff
<1> QED BY <1>3, <1>4

\* A push of s is the only one.
LEMMA OnlyOne ==
  ASSUME Serial, NEW s \in Senders, Active(s)
  PROVE  \A t \in Senders : Active(t) => t = s
BY DEF Serial

\* The same of the next state.
LEMMA BytesTypesNext ==
  ASSUME NoMarkerLength
  PROVE  (Types => /\ AllBytes \in Seq(Token) /\ Stream(Len(log)) \in Seq(Token)
                   /\ IsPrefix(wire, AllBytes))'
<1>1. Types => /\ AllBytes \in Seq(Token) /\ Stream(Len(log)) \in Seq(Token)
               /\ IsPrefix(wire, AllBytes)
  BY BytesTypes
<1> QED BY <1>1, PTL

LEMMA BytesInStreamNext ==
  ASSUME NoMarkerLength
  PROVE  (Base /\ InOrder /\ Intact => IsPrefix(AllBytes, Stream(Len(log))))'
<1>1. Base /\ InOrder /\ Intact => IsPrefix(AllBytes, Stream(Len(log)))
  BY BytesInStream
<1> QED BY <1>1, PTL

LEMMA StreamGrowsNext ==
  ASSUME NoMarkerLength, NEW n \in Nat
  PROVE  (log \in Seq(Frame) /\ n + 1 <= Len(log)
            => Stream(n + 1) = Stream(n) \o Encoding(log[n + 1]))'
<1>1. log \in Seq(Frame) /\ n + 1 <= Len(log)
        => Stream(n + 1) = Stream(n) \o Encoding(log[n + 1])
  BY StreamGrows
<1> QED BY <1>1, PTL

\* A step that leaves the bytes and the pushes keeps the order, ...
LEMMA OrderStays ==
  ASSUME InOrder, Intact' => Intact, log' = log, AllBytes' = AllBytes,
         \A s \in Senders : Active(s)' <=> Active(s),
         \A s \in Senders : Active(s) => PutSoFar(s)' = PutSoFar(s)
  PROVE  InOrder'
<1>1. \A n : Stream(n)' = Stream(n)
  BY DEF Stream
<1> QED BY <1>1 DEF InOrder

\* ... one that puts more of a frame into the buffer does, ...
LEMMA OrderPut ==
  ASSUME Base, Base', InOrder, NoMarkerLength, NEW s \in Senders, Active(s), Active(s)',
         UNCHANGED <<log, result>>, NEW x \in Seq(Token),
         AllBytes' = AllBytes \o x, PutSoFar(s)' = PutSoFar(s) \o x
  PROVE  InOrder'
<1>1. Types /\ Serial /\ Serial' /\ \A n : Stream(n)' = Stream(n)
  BY DEF Base, Stream
<1>2. Len(log) > 0
  BY <1>1 DEF Serial
<1> DEFINE h == Stream(Len(log) - 1)
           p == PutSoFar(s)
<1>3. h \in Seq(Token) /\ p \in Seq(Token)
  BY <1>1, <1>2, BytesTypes, PutSoFarType
<1>4. h = Stream(Len(log) - 1)'
  BY <1>1
<1>5. Intact' <=> Intact
  BY DEF Intact
<1>6. Intact => AllBytes = h \o p
  BY DEF InOrder
<1> HIDE DEF h, p
<1>7. (h \o p) \o x = h \o (p \o x)
  <2>1. Associates(h, p, x)
    BY <1>3, ThreeJoin
  <2> QED BY <2>1 DEF Associates
<1>8. Intact' => AllBytes' = Stream(Len(log) - 1)' \o PutSoFar(s)'
  BY <1>4, <1>5, <1>6, <1>7 DEF p
<1>9. \A t \in Senders : Active(t)' => t = s
  BY <1>1 DEF Serial
<1> QED BY <1>8, <1>9 DEF InOrder

\* ... and so does the end of a frame that is whole.
LEMMA OrderEnds ==
  ASSUME Base, InOrder, NoMarkerLength, NEW s \in Senders, Active(s), pc[s] # "room",
         Remaining(s) = 0, Intact' => Intact, log' = log, AllBytes' = AllBytes,
         \A t \in Senders : ~Active(t)'
  PROVE  InOrder'
<1>1. Types /\ Serial /\ log \in Seq(Frame) /\ Len(log) \in Nat
      /\ \A n : Stream(n)' = Stream(n)
  BY DEF Base, Types, TypeOK, Stream
<1> DEFINE f == push[s].frame
           n == Len(log) - 1
<1>2. f \in Frame /\ f.length # Marker16 /\ log[Len(log)] = f /\ Len(log) > 0
      /\ push[s].payloadOffset \in 0..f.length
  BY <1>1, PutSoFarType DEF Serial
<1>3. f.length \in Nat /\ Payload(f) \in Seq(Token) /\ Len(Payload(f)) = f.length
  BY <1>2, FrameParts
<1>4. push[s].payloadOffset = f.length
  BY <1>2, <1>3 DEF Remaining
<1>5. SubSeq(Payload(f), 1, Len(Payload(f))) = Payload(f)
  BY <1>3, SubSeqFull
<1>6. PutSoFar(s) = Header(f) \o Payload(f)
  BY <1>3, <1>4, <1>5 DEF PutSoFar
<1>7. PutSoFar(s) = Encoding(f)
  BY <1>2, <1>6, HeaderAndPayload
<1>8. n \in Nat /\ n + 1 = Len(log) /\ n + 1 <= Len(log)
  BY <1>1, <1>2
<1>9. Stream(n + 1) = Stream(n) \o Encoding(log[n + 1])
  BY <1>1, <1>8, StreamGrows
<1>10. Intact => AllBytes = Stream(n) \o PutSoFar(s)
  BY DEF InOrder
<1> HIDE DEF f, n
<1>11. Intact => AllBytes = Stream(Len(log))
  BY <1>2, <1>7, <1>8, <1>9, <1>10
<1> QED BY <1>1, <1>11 DEF InOrder

-----------------------------------------------------------------------------
(* What was promised stays true                                             *)

\* The bytes come out of the buffer and go in behind the others; if the wire
\* gets some no push has failed, and an answer of success is new only for
\* the last frame, when it is whole.
LEMMA PromisesStay ==
  ASSUME Base, Base', NoMarkerLength, InOrder', WireIsFrames, PushedIsWhole,
         Len(log') \in {Len(log), Len(log) + 1},
         \A k \in 1..Len(log) : log'[k] = log[k],
         IsPrefix(AllBytes, AllBytes'), wire' = wire \/ Intact',
         \A k \in 1..Len(log) : result[k] = "failed" => result'[k] = "failed",
         \A k \in 1..Len(log') : result'[k] = "pushed" =>
           \/ k <= Len(log) /\ result[k] = "pushed"
           \/ k = Len(log') /\ \A s \in Senders : ~Active(s)'
  PROVE  Content'
<1>1. /\ Types /\ Types' /\ log \in Seq(Frame) /\ log' \in Seq(Frame)
      /\ Len(log) \in Nat /\ Len(log') \in Nat /\ wire \in Seq(Token) /\ wire' \in Seq(Token)
  <2>1. Types /\ Types'
    BY DEF Base
  <2>2. log \in Seq(Frame) /\ wire \in Seq(Token)
    BY <2>1 DEF Types, TypeOK
  <2>3. log' \in Seq(Frame) /\ wire' \in Seq(Token)
    BY <2>1 DEF Types, TypeOK
  <2> QED BY <2>1, <2>2, <2>3
<1>2. AllBytes \in Seq(Token) /\ \A n \in 0..Len(log) : Stream(n) \in Seq(Token)
  BY <1>1, BytesTypes, StreamType
<1>3. /\ AllBytes' \in Seq(Token) /\ IsPrefix(wire', AllBytes')
      /\ Stream(Len(log))' \in Seq(Token)
  BY <1>1, BytesTypesNext
<1>4. \A n \in 0..Len(log) : Stream(n)' = Stream(n)
  <2> TAKE n \in 0..Len(log)
  <2>1. n \in Nat /\ \A k \in 1..n : log'[k] = log[k]
    BY <1>1
  <2> QED BY <2>1, StreamStays
<1>5. WireIsFrames'
  <2>1. CASE Intact'
    <3>1. IsPrefix(AllBytes', Stream(Len(log))')
      BY <2>1, BytesInStreamNext
    <3>2. IsPrefix(wire', Stream(Len(log))')
      <4> DEFINE a == AllBytes'
                 z == Stream(Len(log))'
      <4> HIDE DEF a, z
      <4>1. /\ wire' \in Seq(Token) /\ a \in Seq(Token) /\ z \in Seq(Token)
            /\ IsPrefix(wire', a) /\ IsPrefix(a, z)
        BY <1>1, <1>3, <3>1 DEF a, z
      <4>2. IsPrefix(wire', z)
        BY <4>1, PrefixTrans
      <4> QED BY <4>2 DEF z
    <3> QED BY <3>2 DEF WireIsFrames
  <2>2. CASE wire' = wire
    <3> DEFINE y == Stream(Len(log))
               z == Stream(Len(log))'
    <3>1. IsPrefix(wire, y)
      BY DEF WireIsFrames
    <3>2. IsPrefix(y, z)
      <4>1. y \in Seq(Token) /\ z \in Seq(Token)
        BY <1>1, <1>2, <1>3
      <4>2. CASE Len(log') = Len(log)
        <5>1. z = y \o <<>> /\ <<>> \in Seq(Token)
          <6>1. z = y
            BY <1>1, <1>4, <4>2
          <6> HIDE DEF y, z
          <6> QED BY <4>1, <6>1, ConcatEmptySeq
        <5> QED BY <4>1, <5>1, PrefixIff
      <4>3. CASE Len(log') = Len(log) + 1
        <5> DEFINE x == Encoding(log'[Len(log) + 1])
        <5>1. z = y \o x
          <6>1. PICK n \in Nat : n = Len(log)
            BY <1>1
          <6>2. Stream(n + 1)' = Stream(n)' \o Encoding(log'[n + 1])
            <7>1. log' \in Seq(Frame) /\ n + 1 <= Len(log')
              BY <1>1, <4>3, <6>1
            <7> QED BY <7>1, StreamGrowsNext
          <6>3. Stream(n)' = Stream(n)
            BY <1>4, <6>1
          <6>4. z = Stream(n + 1)' /\ y = Stream(n)
            BY <4>3, <6>1
          <6> QED BY <6>1, <6>2, <6>3, <6>4
        <5>2. x \in Seq(Token)
          <6>1. log'[Len(log) + 1] \in Frame
            BY <1>1, <4>3, ElementOfSeq
          <6> QED BY <6>1, EncodingType DEF NoMarkerLength
        <5> HIDE DEF x, y, z
        <5> QED BY <4>1, <5>1, <5>2, PrefixIff
      <4> QED BY <4>2, <4>3
    <3>3. /\ wire \in Seq(Token) /\ y \in Seq(Token) /\ z \in Seq(Token)
      BY <1>1, <1>2, <1>3
    <3> HIDE DEF y, z
    <3>4. IsPrefix(wire, z)
      BY <3>1, <3>2, <3>3, PrefixTrans
    <3> QED BY <2>2, <3>4 DEF WireIsFrames, z
  <2> QED BY <2>1, <2>2
<1>6. PushedIsWhole'
  <2>1. ASSUME NEW k \in 1..Len(log'), result'[k] = "pushed",
               \A j \in 1..k : result'[j] # "failed"
        PROVE  IsPrefix(Stream(k)', AllBytes')
    <3>1. CASE k <= Len(log) /\ result[k] = "pushed"
      <4>1. k \in 1..Len(log) /\ k \in 0..Len(log) /\ \A j \in 1..k : result[j] # "failed"
        BY <1>1, <2>1, <3>1, SMTT(20)
      <4>2. IsPrefix(Stream(k), AllBytes)
        BY <3>1, <4>1 DEF PushedIsWhole, AllBytes
      <4> DEFINE y == Stream(k)
                 a == AllBytes
                 z == AllBytes'
      <4>3. /\ y \in Seq(Token) /\ a \in Seq(Token) /\ z \in Seq(Token)
            /\ IsPrefix(y, a) /\ IsPrefix(a, z) /\ Stream(k)' = y
        BY <1>2, <1>3, <1>4, <4>1, <4>2
      <4> HIDE DEF y, a, z
      <4>4. IsPrefix(y, z)
        BY <4>3, PrefixTrans
      <4> QED BY <4>3, <4>4 DEF z
    <3>2. CASE k = Len(log') /\ \A s \in Senders : ~Active(s)'
      <4>1. Intact'
        BY <2>1, <3>2 DEF Intact
      <4>2. AllBytes' = Stream(k)'
        BY <3>2, <4>1 DEF InOrder
      <4> DEFINE z == AllBytes'
      <4>3. z \in Seq(Token) /\ Stream(k)' = z
        BY <1>3, <4>2
      <4> HIDE DEF z
      <4>4. z = z \o <<>> /\ <<>> \in Seq(Token)
        BY <4>3, ConcatEmptySeq
      <4>5. IsPrefix(z, z)
        BY <4>3, <4>4, PrefixIff
      <4> QED BY <4>3, <4>5 DEF z
    <3> QED BY <2>1, <3>1, <3>2
  <2> QED BY <2>1 DEF PushedIsWhole, AllBytes
<1> QED BY <1>5, <1>6 DEF Content

\* A sequence begins with itself, and with what it had before.
LEMMA PrefixGrows ==
  ASSUME NEW S, NEW s \in Seq(S), NEW x \in Seq(S)
  PROVE  IsPrefix(s, s) /\ IsPrefix(s, s \o x)
<1>1. s = s \o <<>> /\ <<>> \in Seq(S) /\ s \o x \in Seq(S)
  BY ConcatEmptySeq, ConcatProperties
<1>2. IsPrefix(s, s)
  BY <1>1, PrefixIff
<1>3. IsPrefix(s, s \o x)
  BY <1>1, PrefixIff
<1> QED BY <1>2, <1>3

LEMMA ContentPush ==
  ASSUME Base, Content, NoMarkerLength, Base', NEW s \in Senders, Push(s)
  PROVE  Content'
<1>1. /\ Types /\ Serial /\ Serial' /\ InOrder /\ WireIsFrames /\ PushedIsWhole
      /\ Len(log) \in Nat /\ UNCHANGED <<out, wire, foreign>>
  BY DEF Base, Content, Push, Types, TypeOK
<1>2. /\ Len(log') = Len(log) + 1 /\ result'[Len(log')] = "pending"
      /\ \A k \in 1..Len(log) : log'[k] = log[k] /\ result'[k] = result[k]
  BY <1>1, PushTypes
<1>3. \A t \in Senders : ~Active(t)
  BY <1>1, WebSocketAssumption DEF Push, Serial
<1>4. /\ pc'[s] = "room" /\ mutex' = s
      /\ \A t \in Senders : Active(t)' => t = s
  BY <1>1, <1>3 DEF Push, Goto, Types, TypeOK, Active
<1>5. AllBytes' = AllBytes /\ AllBytes \in Seq(Token)
  BY <1>1, BytesTypes DEF AllBytes
<1>6. Intact' => Intact
  BY <1>1, <1>2 DEF Intact
<1>7. InOrder'
  <2>1. PICK n \in Nat : n = Len(log)
    BY <1>1
  <2>2. Stream(n)' = Stream(n)
    BY <1>2, <2>1, StreamStays
  <2>3. Intact' => AllBytes' = Stream(n)'
    <3>1. Intact => AllBytes = Stream(Len(log))
      BY <1>1, <1>3 DEF InOrder
    <3> QED BY <1>5, <1>6, <2>1, <2>2, <3>1
  <2>4. PutSoFar(s)' = <<>>
    BY <1>4 DEF PutSoFar
  <2> DEFINE h == Stream(n)'
  <2>5. Intact' => h \in Seq(Token) /\ AllBytes' = h
    BY <1>5, <2>3
  <2>6. h = Stream(Len(log) - 1)'
    BY <1>1, <1>2, <2>1
  <2> HIDE DEF h
  <2>7. Intact' => AllBytes' = h \o <<>>
    BY <2>5, ConcatEmptySeq
  <2>8. Intact' => AllBytes' = Stream(Len(log) - 1)' \o PutSoFar(s)'
    BY <2>4, <2>6, <2>7
  <2>9. Active(s)'
    BY <1>4 DEF Active
  <2> QED BY <1>4, <2>8, <2>9 DEF InOrder
<1>8. IsPrefix(AllBytes, AllBytes')
  BY <1>5, ConcatEmptySeq, PrefixGrows
<1>9. \A k \in 1..Len(log') : result'[k] = "pushed" => k <= Len(log) /\ result[k] = "pushed"
  BY <1>1, <1>2
<1> QED BY <1>1, <1>2, <1>7, <1>8, <1>9, PromisesStay

\* Inside a push the frames stay.
LEMMA ContentInside ==
  ASSUME Base, Content, NoMarkerLength, Base', InOrder', log' = log,
         NEW x \in Seq(Token), AllBytes' = AllBytes \o x \/ AllBytes' = AllBytes,
         wire' = wire \/ Intact', NEW answer \in Result,
         \/ result' = result
         \/ /\ result' = [result EXCEPT ![Len(log)] = answer] /\ Len(log) > 0
            /\ result[Len(log)] = "pending" /\ \A s \in Senders : ~Active(s)'
  PROVE  Content'
<1>1. /\ Types /\ WireIsFrames /\ PushedIsWhole /\ Len(log) \in Nat
      /\ result \in [1..Len(log) -> Result]
  <2>1. Types /\ WireIsFrames /\ PushedIsWhole
    BY DEF Base, Content
  <2> QED BY <2>1 DEF Types, TypeOK, Result
<1>2. IsPrefix(AllBytes, AllBytes')
  BY <1>1, BytesTypes, PrefixGrows, ZenonT(40)
<1>3. \A k \in 1..Len(log) : result[k] = "failed" => result'[k] = "failed"
  BY <1>1
<1>4. \A k \in 1..Len(log') : result'[k] = "pushed" =>
        \/ k <= Len(log) /\ result[k] = "pushed"
        \/ k = Len(log') /\ \A s \in Senders : ~Active(s)'
  BY <1>1
<1> QED BY <1>1, <1>2, <1>3, <1>4, PromisesStay

LEMMA ContentWrites ==
  ASSUME Base, Content, NoMarkerLength, Base', NEW s \in Senders,
         MakeRoom(s) \/ WritePayload(s)
  PROVE  Content'
<1>1. Types /\ Serial /\ Frozen /\ InOrder
  BY DEF Base, Content
<1>2. /\ Written /\ UNCHANGED <<log, result, push, descriptor, peer>>
      /\ Active(s) /\ Active(s)' /\ pc[s] \in {"room", "write"}
      /\ pc[s] = "room" => UNCHANGED pc
      /\ pc[s] = "write" => pc' = [pc EXCEPT ![s] = "payload"]
  BY <1>1 DEF MakeRoom, WritePayload, Goto, Active, connection, Types, TypeOK
<1>3. AllBytes' = AllBytes /\ (descriptor # "open" => wire' = wire)
  BY <1>1, <1>2, WrittenBytes DEF Frozen
<1>4. Intact' <=> Intact
  BY <1>2 DEF Intact
<1>5. \A t \in Senders : Active(t)' <=> Active(t)
  BY <1>1, <1>2 DEF Active, Types, TypeOK
<1>6. \A t \in Senders : Active(t) => PutSoFar(t)' = PutSoFar(t)
  <2>1. PutSoFar(s)' = PutSoFar(s)
    BY <1>1, <1>2 DEF PutSoFar, Types, TypeOK
  <2> QED BY <1>1, <1>2, <2>1, OnlyOne
<1>7. InOrder'
  BY <1>1, <1>2, <1>3, <1>4, <1>5, <1>6, OrderStays
<1>8. wire' = wire \/ Intact'
  BY <1>1, <1>2, <1>3, <1>4 DEF Frozen, Written
<1>9. <<>> \in Seq(Token) /\ "failed" \in Result
  BY DEF Result
<1> QED BY <1>2, <1>3, <1>7, <1>8, <1>9, ContentInside

LEMMA ContentPuts ==
  ASSUME Base, Content, NoMarkerLength, Base', NEW s \in Senders,
         PutHeader(s) \/ PutPayload(s)
  PROVE  Content'
<1>1. Types /\ Serial /\ InOrder
  BY DEF Base, Content
<1>2. /\ UNCHANGED <<log, result, wire, foreign>> /\ Active(s) /\ Active(s)'
  BY <1>1 DEF PutHeader, PutPayload, Goto, Active, Types, TypeOK
<1>3. /\ push[s].frame \in Frame /\ push[s].payloadOffset \in 0..push[s].frame.length
  BY <1>1, <1>2, PutSoFarType
<1> DEFINE f == push[s].frame
           o == push[s].payloadOffset
<1>4. /\ Header(f) \in Seq(Token) /\ Payload(f) \in Seq(Token) /\ Len(Payload(f)) = f.length
      /\ f.length \in Nat
  BY <1>3, HeaderType, FrameParts
<1>5. \E x \in Seq(Token) : out' = out \o x /\ PutSoFar(s)' = PutSoFar(s) \o x
  <2>1. CASE PutHeader(s)
    <3>1. /\ out' = out \o Header(f) /\ push' = push /\ pc[s] = "room" /\ pc'[s] = "payload"
      BY <1>1, <2>1 DEF PutHeader, Goto, Types, TypeOK
    <3>2. o = 0
      BY <1>1, <1>2, <3>1 DEF Serial
    <3>3. SubSeq(Payload(f), 1, 0) = <<>>
      BY <1>4
    <3>4. PutSoFar(s) = <<>> /\ PutSoFar(s)' = Header(f) \o <<>>
      BY <3>1, <3>2, <3>3 DEF PutSoFar
    <3> DEFINE x == Header(f)
    <3> HIDE DEF f
    <3>5. x \in Seq(Token) /\ PutSoFar(s) = <<>> /\ PutSoFar(s)' = x \o <<>> /\ out' = out \o x
      BY <1>4, <3>1, <3>4
    <3> HIDE DEF x
    <3>6. x \o <<>> = x /\ <<>> \o x = x
      BY <3>5, ConcatEmptySeq
    <3> QED BY <3>5, <3>6
  <2>2. CASE PutPayload(s)
    <3> DEFINE p == push'[s].payloadOffset
               done == SubSeq(Payload(f), 1, o)
               part == SubSeq(Payload(f), o + 1, p)
    <3>1. /\ o \in 0..f.length /\ p \in o..f.length /\ out' = out \o part
          /\ push'[s].frame = f
      BY <1>1, <2>2, PutPayloadTypes
    <3>2. pc[s] = "payload" /\ pc'[s] = "write"
      BY <1>1, <2>2 DEF PutPayload, Goto, Types, TypeOK
    <3>3. PutSoFar(s) = Header(f) \o done /\ PutSoFar(s)' = Header(f) \o SubSeq(Payload(f), 1, p)
      BY <3>1, <3>2 DEF PutSoFar
    <3> HIDE DEF f, o, p
    <3>4. SubSeq(Payload(f), 1, p) = done \o part
      <4>1. 1 \in 1..(Len(Payload(f)) + 1) /\ o \in (1 - 1)..Len(Payload(f))
            /\ p \in o..Len(Payload(f))
        BY <1>4, <3>1
      <4> QED BY <1>4, <4>1, ConcatAdjacentSubSeq, Zenon
    <3>5. done \in Seq(Token) /\ part \in Seq(Token)
      <4>1. p \in 0..Len(Payload(f)) /\ o \in 0..Len(Payload(f)) /\ p \in Nat /\ o \in Nat
        BY <1>4, <3>1
      <4>2. done \in Seq(Token)
        BY <1>4, <4>1, Cut, Zenon
      <4>3. \A i \in (o + 1)..p : Payload(f)[i] \in Token
        <5>1. \A i \in (o + 1)..p : i \in 1..Len(Payload(f))
          BY <4>1
        <5> QED BY <1>4, <5>1, ElementOfSeq
      <4>4. o + 1 \in Int /\ p \in Int
        BY <4>1
      <4>5. part \in Seq(Token)
        BY <4>3, <4>4, SubSeqProperties, Zenon
      <4> QED BY <4>2, <4>5
    <3> DEFINE h == Header(f)
    <3>6. h \in Seq(Token)
      BY <1>4
    <3> HIDE DEF done, part, h
    <3>7. (h \o done) \o part = h \o (done \o part)
      <4>1. Associates(h, done, part)
        BY <3>5, <3>6, ThreeJoin
      <4> QED BY <4>1 DEF Associates
    <3> QED BY <3>1, <3>3, <3>4, <3>5, <3>7 DEF h
  <2> QED BY <2>1, <2>2
<1>6. PICK x \in Seq(Token) : out' = out \o x /\ PutSoFar(s)' = PutSoFar(s) \o x
  BY <1>5
<1>7. AllBytes' = AllBytes \o x
  BY <1>1, <1>2, <1>6, PutBytes
<1>8. InOrder'
  BY <1>1, <1>2, <1>6, <1>7, OrderPut
<1>9. "failed" \in Result
  BY DEF Result
<1> QED BY <1>2, <1>7, <1>8, <1>9, ContentInside

LEMMA ContentEnds ==
  ASSUME Base, Content, NoMarkerLength, Base', NEW s \in Senders,
         RoomFails(s) \/ PayloadFails(s) \/ Pushed(s)
  PROVE  Content'
<1>1. Types /\ Serial /\ InOrder /\ result \in [1..Len(log) -> Result]
  <2>1. Types /\ Serial /\ InOrder
    BY DEF Base, Content
  <2> QED BY <2>1 DEF Types, TypeOK, Result
<1>2. /\ UNCHANGED <<log, out, wire, foreign>> /\ Active(s) /\ Goto(s, After(s))
  BY DEF RoomFails, PayloadFails, Pushed, Finish, WriteFails, Active
<1>3. \A t \in Senders : ~Active(t)'
  BY <1>1, <1>2, SerialEnds
<1>4. Len(log) > 0 /\ push[s].at = Len(log) /\ result[Len(log)] = "pending"
  BY <1>1, <1>2 DEF Serial
<1>5. AllBytes' = AllBytes /\ <<>> \in Seq(Token)
  BY <1>2 DEF AllBytes
<1>6. ASSUME NEW answer \in Result, result' = [result EXCEPT ![Len(log)] = answer], InOrder'
      PROVE  Content'
  BY <1>2, <1>3, <1>4, <1>5, <1>6, ContentInside
<1>7. ASSUME result' = [result EXCEPT ![Len(log)] = "failed"]
      PROVE  Content'
  <2>1. ~Intact'
    BY <1>1, <1>2, <1>4, <1>7 DEF Intact, Types, TypeOK
  <2> QED BY <1>6, <1>7, <2>1 DEF InOrder, Result
<1>8. ASSUME result' = [result EXCEPT ![Len(log)] = "pushed"], Remaining(s) = 0, pc[s] # "room"
      PROVE  Content'
  <2>1. Intact' => Intact
    BY <1>1, <1>2, <1>4, <1>8 DEF Intact
  <2>2. InOrder'
    BY <1>1, <1>2, <1>3, <1>5, <1>8, <2>1, OrderEnds
  <2> QED BY <1>6, <1>8, <2>2 DEF Result
<1>9. CASE RoomFails(s)
  BY <1>4, <1>7, <1>9 DEF RoomFails
<1>10. CASE PayloadFails(s)
  <2>1. /\ pc[s] # "room"
        /\ result' = [result EXCEPT ![Len(log)] = IF Remaining(s) > 0 THEN "failed" ELSE "pushed"]
    BY <1>4, <1>10 DEF PayloadFails, Finish
  <2>2. CASE Remaining(s) > 0
    BY <1>7, <2>1, <2>2
  <2>3. CASE ~(Remaining(s) > 0)
    <3>1. push[s].frame \in Frame /\ push[s].payloadOffset \in 0..push[s].frame.length
      BY <1>1, <1>2, PutSoFarType
    <3>2. push[s].frame.length \in Nat
      BY <3>1, FrameParts
    <3>3. Remaining(s) = 0
      BY <2>3, <3>1, <3>2 DEF Remaining
    <3> QED BY <1>8, <2>1, <2>3, <3>3
  <2> QED BY <2>2, <2>3
<1>11. CASE Pushed(s)
  BY <1>4, <1>8, <1>11 DEF Pushed, Finish
<1> QED BY <1>9, <1>10, <1>11

LEMMA ContentOthers ==
  ASSUME Base, Content, NoMarkerLength, Base',
         (\E s \in Senders : CloseSocket(s)) \/ ClientEnds \/ Accept \/ PeerLeaves
         \/ UNCHANGED vars
  PROVE  Content'
<1>1. Types /\ InOrder
  BY DEF Base, Content
<1>2. UNCHANGED <<out, wire, foreign, log, result, push>>
  BY DEF CloseSocket, ClientEnds, Accept, PeerLeaves, vars, connection
<1>3. \A t \in Senders : (Active(t)' <=> Active(t)) /\ (Active(t) => pc'[t] = pc[t])
  <2>1. CASE UNCHANGED pc
    BY <2>1 DEF Active
  <2>2. ASSUME NEW s \in Senders, CloseSocket(s)
        PROVE  \A t \in Senders : (Active(t)' <=> Active(t)) /\ (Active(t) => pc'[t] = pc[t])
    BY <1>1, <2>2 DEF CloseSocket, Goto, Active, Types, TypeOK
  <2> QED BY <2>1, <2>2 DEF ClientEnds, Accept, PeerLeaves, vars
<1>4. \A t \in Senders : Active(t) => PutSoFar(t)' = PutSoFar(t)
  BY <1>2, <1>3 DEF PutSoFar
<1>5. AllBytes' = AllBytes /\ (Intact' <=> Intact)
  BY <1>2 DEF AllBytes, Intact
<1>6. InOrder'
  BY <1>1, <1>2, <1>3, <1>4, <1>5, OrderStays
<1>7. <<>> \in Seq(Token) /\ "failed" \in Result
  BY DEF Result
<1> QED BY <1>2, <1>5, <1>6, <1>7, ContentInside

LEMMA ContentNext ==
  ASSUME NoMarkerLength
  PROVE  Base /\ Content /\ [Next]_vars => Base' /\ Content'
<1> SUFFICES ASSUME Base, Content, [Next]_vars PROVE Base' /\ Content'
  OBVIOUS
<1>1. Base'
  BY BaseNext
<1>2. ASSUME NEW s \in Senders, Push(s) \/ Step(s) PROVE Content'
  BY <1>1, <1>2, ContentPush, ContentWrites, ContentPuts, ContentEnds, ContentOthers DEF Step
<1>3. ASSUME ClientEnds \/ Accept \/ PeerLeaves \/ UNCHANGED vars PROVE Content'
  BY <1>1, <1>3, ContentOthers
<1> QED BY <1>1, <1>2, <1>3 DEF Next

LEMMA ContentInit == Init => Base /\ Content
<1> SUFFICES ASSUME Init PROVE Base /\ Content
  OBVIOUS
<1>1. Base /\ \A s \in Senders : ~Active(s)
  BY BaseInit DEF Init, Active
<1>2. /\ Len(log) = 0 /\ wire = <<>> /\ foreign = <<>> /\ out = <<>>
  BY DEF Init
<1>3. Stream(0) = <<>>
  <2> DEFINE ss == [k \in 1..0 |-> Encoding(log[k])]
  <2>1. ss = <<>>
    OBVIOUS
  <2> QED BY <2>1 DEF Stream, FlattenSeq
<1>4. <<>> \o <<>> \o <<>> = <<>>
  OBVIOUS
<1>5. IsPrefix(<<>>, <<>>)
  BY DEF IsPrefix
<1>6. InOrder /\ WireIsFrames /\ PushedIsWhole
  <2>1. InOrder
    BY <1>1, <1>2, <1>3, <1>4 DEF InOrder, AllBytes
  <2>2. WireIsFrames
    BY <1>2, <1>3, <1>5 DEF WireIsFrames
  <2>3. PushedIsWhole
    BY <1>2 DEF PushedIsWhole
  <2> QED BY <2>1, <2>2, <2>3
<1> QED BY <1>1, <1>6 DEF Content

-----------------------------------------------------------------------------
\* The output buffer never holds more than it has room for, and the variables
\* have their types, for every set of frames (CS_WS_pushFrame).
THEOREM TypeCorrect == Spec => []TypeOK
<1>1. Init => Base
  BY BaseInit
<1>2. Base /\ [Next]_vars => Base'
  BY BaseNext
<1>3. Base => TypeOK
  BY DEF Base, Types
<1> QED BY <1>1, <1>2, <1>3, PTL DEF Spec

\* If no frame has the length that marks two bytes of length, what the other
\* end reads is whole frames and the start of one, in the order in which the
\* threads got frameWriteMutex.
THEOREM FramesOnWire ==
  ASSUME NoMarkerLength
  PROVE  Spec => []WireIsFrames
<1>1. Init => Base /\ Content
  BY ContentInit
<1>2. Base /\ Content /\ [Next]_vars => Base' /\ Content'
  BY ContentNext
<1>3. Content => WireIsFrames
  BY DEF Content
<1> QED BY <1>1, <1>2, <1>3, PTL DEF Spec

\* For the same frames: a push that answers success has left no byte behind,
\* unless an earlier one had failed.
THEOREM WholeIfPushed ==
  ASSUME NoMarkerLength
  PROVE  Spec => []PushedIsWhole
<1>1. Init => Base /\ Content
  BY ContentInit
<1>2. Base /\ Content /\ [Next]_vars => Base' /\ Content'
  BY ContentNext
<1>3. Content => PushedIsWhole
  BY DEF Content
<1> QED BY <1>1, <1>2, <1>3, PTL DEF Spec

=============================================================================
