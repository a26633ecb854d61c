------------------------------ MODULE PipesProofs ------------------------------
(***************************************************************************)
(* What Pipes promises of the output, for every plan, with any sizes of    *)
(* the buffers and of the parts that are read and written.                 *)
(* The invariant Inv says where the data of the plan is (Placed): of each  *)
(* buffer, how much of the data has gone out of it, so that a buffer holds *)
(* what lies between the nearest one before it and itself; and that no     *)
(* more of it is behind a limited stage than the bytes the stage counted   *)
(* (Counted).  The output is what has gone out of the last buffer, or is   *)
(* in it.                                                                  *)
(* That a pipeline which is over has delivered everything needs the bytes  *)
(* themselves, and a plan that is Usable.  Smooth says, of such plans, how *)
(* all that has come out of a stage comes from all that has gone into it   *)
(* (Flow, a list of bytes for each buffer), that a stage which is EMPTY    *)
(* has nothing more to come (Done), that only the stages at the ends fail  *)
(* (Errs), and that the last buffer has room for what is to come           *)
(* (LastRoom).                                                             *)
(***************************************************************************)
EXTENDS Pipes, SequenceTheorems, WellFoundedInduction, TLAPS

-----------------------------------------------------------------------------
(* Numbers and recursive functions                                          *)

\* A set of numbers with a member has a least one.
LEMMA LeastNumber ==
  ASSUME NEW T, T \subseteq Nat, T # {}
  PROVE  \E x \in T : \A y \in T : x <= y
<1>1. PICK x \in T : \A y \in T : ~(<<y, x>> \in OpToRel(<, Nat))
  BY WFMin, NatLessThanWellFounded
<1>2. ASSUME NEW y \in T PROVE x <= y
  <2>1. x \in Nat /\ y \in Nat
    OBVIOUS
  <2>2. y < x => <<y, x>> \in OpToRel(<, Nat)
    BY <2>1 DEF OpToRel
  <2>3. ~(y < x)
    BY <1>1, <2>2, Zenon
  <2> QED BY <2>1, <2>3
<1> QED BY <1>2

\* What holds of 0 and goes on from each number to the next holds up to n.
LEMMA UpTo ==
  ASSUME NEW n \in Nat, NEW T, 0 \in T, \A j \in 1..n : j - 1 \in T => j \in T
  PROVE  \A j \in 0..n : j \in T
<1> DEFINE F == {j \in 0..n : j \notin T}
<1>1. SUFFICES ASSUME F # {} PROVE FALSE
  OBVIOUS
<1>2. PICK x \in F : \A y \in F : x <= y
  <2>1. F \subseteq Nat
    OBVIOUS
  <2> HIDE DEF F
  <2> QED BY <1>1, <2>1, LeastNumber
<1>3. x \in 1..n /\ x \notin T /\ x - 1 \in 0..n /\ ~(x <= x - 1)
  OBVIOUS
<1>4. x - 1 \in T
  BY <1>2, <1>3
<1> QED BY <1>3, <1>4

\* f begins with x, and its step into j is step[j].
Stepping(n, x, step, f) ==
  DOMAIN f = 0..n /\ f[0] = x /\ \A j \in 1..n : f[j] = step[j][f[j - 1]]

\* There is such a function.
LEMMA SteppingExists ==
  ASSUME NEW S, NEW x \in S, NEW n \in Nat, NEW step \in [1..n -> [S -> S]]
  PROVE  \E f \in [0..n -> S] : Stepping(n, x, step, f)
<1> DEFINE T == {m \in 0..n : \E f \in [0..m -> S] : Stepping(m, x, step, f)}
<1>1. 0 \in T
  <2> DEFINE f == [j \in 0..0 |-> x]
  <2>1. f \in [0..0 -> S] /\ Stepping(0, x, step, f)
    BY DEF Stepping
  <2> QED BY <2>1
<1>2. ASSUME NEW m \in 1..n, m - 1 \in T PROVE m \in T
  <2>1. PICK g \in [0..(m - 1) -> S] : Stepping(m - 1, x, step, g)
    BY <1>2
  <2>2. g[0] = x /\ \A j \in 1..(m - 1) : g[j] = step[j][g[j - 1]]
    BY <2>1 DEF Stepping
  <2> DEFINE f == [j \in 0..m |-> IF j < m THEN g[j] ELSE step[m][g[m - 1]]]
  <2>3. f \in [0..m -> S]
    <3>1. step[m][g[m - 1]] \in S
      <4>1. g[m - 1] \in S
        OBVIOUS
      <4> QED BY <4>1
    <3>2. \A j \in 0..m : j < m => g[j] \in S
      OBVIOUS
    <3> QED BY <3>1, <3>2
  <2>4. \A j \in 1..m : f[j] = step[j][f[j - 1]]
    <3> TAKE j \in 1..m
    <3>1. CASE j < m
      <4>1. j \in 1..(m - 1) /\ f[j] = g[j] /\ f[j - 1] = g[j - 1]
        BY <3>1
      <4> HIDE DEF f, T
      <4> QED BY <4>1, <2>2
    <3>2. CASE j = m
      <4>1. f[j] = step[m][g[m - 1]] /\ f[j - 1] = g[m - 1]
        BY <3>2
      <4> HIDE DEF f, T
      <4> QED BY <4>1, <3>2
    <3> QED BY <3>1, <3>2
  <2>5. f[0] = x
    BY <2>2
  <2>6. Stepping(m, x, step, f)
    <3>1. DOMAIN f = 0..m
      OBVIOUS
    <3> HIDE DEF f, T
    <3> QED BY <2>4, <2>5, <3>1 DEF Stepping
  <2>7. \E h \in [0..m -> S] : Stepping(m, x, step, h)
    <3> HIDE DEF f, T
    <3> QED BY <2>3, <2>6
  <2> QED BY <2>7
<1>3. \A j \in 0..n : j \in T
  <2> HIDE DEF T
  <2> QED BY <1>1, <1>2, UpTo
<1> QED BY <1>3

-----------------------------------------------------------------------------
(* The data among bytes                                                     *)

\* f collects the data of s, byte by byte.
Filtering(s, f) ==
  f = [n \in 0..Len(s) |-> IF n = 0 THEN <<>>
                           ELSE IF IsData(s[n]) THEN Append(f[n - 1], s[n])
                           ELSE f[n - 1]]

LEMMA FilteringExists ==
  ASSUME NEW s \in Seq(Byte)
  PROVE  \E f : Filtering(s, f)
<1> DEFINE step == [j \in 1..Len(s) |-> [t \in Seq(Byte) |->
                      IF IsData(s[j]) THEN Append(t, s[j]) ELSE t]]
<1>1. Len(s) \in Nat /\ <<>> \in Seq(Byte) /\ \A j \in 1..Len(s) : s[j] \in Byte
  OBVIOUS
<1>2. step \in [1..Len(s) -> [Seq(Byte) -> Seq(Byte)]]
  <2>1. \A t \in Seq(Byte), j \in 1..Len(s) :
           (IF IsData(s[j]) THEN Append(t, s[j]) ELSE t) \in Seq(Byte)
    <3> HIDE DEF step
    <3> TAKE t \in Seq(Byte), j \in 1..Len(s)
    <3>1. Append(t, s[j]) \in Seq(Byte)
      BY <1>1, AppendProperties
    <3> QED BY <3>1
  <2> QED BY <2>1
<1>3. PICK f \in [0..Len(s) -> Seq(Byte)] : Stepping(Len(s), <<>>, step, f)
  <2> HIDE DEF step
  <2> QED BY <1>1, <1>2, SteppingExists
<1>4. f[0] = <<>> /\ \A j \in 1..Len(s) : f[j] = step[j][f[j - 1]]
  <2> HIDE DEF step
  <2> QED BY <1>3 DEF Stepping
<1>5. \A j \in 1..Len(s) : f[j] = IF IsData(s[j]) THEN Append(f[j - 1], s[j]) ELSE f[j - 1]
  <2> TAKE j \in 1..Len(s)
  <2>1. f[j] = step[j][f[j - 1]] /\ f[j - 1] \in Seq(Byte)
    <3>1. j - 1 \in 0..Len(s)
      OBVIOUS
    <3> HIDE DEF step
    <3> QED BY <1>4, <3>1
  <2> QED BY <2>1
<1>6. Filtering(s, f)
  <2> HIDE DEF step
  <2>1. f = [n \in 0..Len(s) |-> f[n]]
    OBVIOUS
  <2>2. \A n \in 0..Len(s) :
          f[n] = IF n = 0 THEN <<>>
                 ELSE IF IsData(s[n]) THEN Append(f[n - 1], s[n]) ELSE f[n - 1]
    <3> TAKE n \in 0..Len(s)
    <3>1. CASE n = 0
      BY <1>4, <3>1
    <3>2. CASE n # 0
      <4>1. n \in 1..Len(s)
        BY <1>1, <3>2
      <4> QED BY <1>5, <3>2, <4>1
    <3> QED BY <3>1, <3>2
  <2> QED BY <2>1, <2>2 DEF Filtering
<1> QED BY <1>6

LEMMA DataOfIs ==
  ASSUME NEW s \in Seq(Byte)
  PROVE  \E f : Filtering(s, f) /\ DataOf(s) = f[Len(s)]
<1> DEFINE F == CHOOSE f : Filtering(s, f)
<1>1. DataOf(s) = F[Len(s)]
  BY DEF DataOf, Filtering
<1>2. Filtering(s, F)
  <2>1. \E f : Filtering(s, f)
    BY FilteringExists
  <2> QED BY <2>1
<1> QED BY <1>1, <1>2

LEMMA FilteringSteps ==
  ASSUME NEW s \in Seq(Byte), NEW f, Filtering(s, f)
  PROVE  /\ f[0] = <<>>
         /\ \A j \in 1..Len(s) :
              f[j] = IF IsData(s[j]) THEN Append(f[j - 1], s[j]) ELSE f[j - 1]
<1>1. Len(s) \in Nat
  OBVIOUS
<1>2. \A n \in 0..Len(s) :
         f[n] = IF n = 0 THEN <<>>
                ELSE IF IsData(s[n]) THEN Append(f[n - 1], s[n]) ELSE f[n - 1]
  BY DEF Filtering
<1> QED BY <1>1, <1>2

LEMMA FilteringType ==
  ASSUME NEW s \in Seq(Byte), NEW f, Filtering(s, f)
  PROVE  \A j \in 0..Len(s) : f[j] \in Seq(Byte) /\ Len(f[j]) <= j
<1> DEFINE T == {j \in 0..Len(s) : f[j] \in Seq(Byte) /\ Len(f[j]) <= j}
<1>0. Len(s) \in Nat /\ \A j \in 1..Len(s) : s[j] \in Byte
  OBVIOUS
<1>1. f[0] = <<>> /\ \A j \in 1..Len(s) :
        f[j] = IF IsData(s[j]) THEN Append(f[j - 1], s[j]) ELSE f[j - 1]
  BY FilteringSteps
<1>2. 0 \in T
  <2>1. <<>> \in Seq(Byte) /\ Len(<<>>) <= 0 /\ 0 \in 0..Len(s)
    BY <1>0, EmptySeq
  <2> QED BY <1>1, <2>1
<1>3. ASSUME NEW j \in 1..Len(s), j - 1 \in T PROVE j \in T
  <2>1. f[j - 1] \in Seq(Byte) /\ Len(f[j - 1]) <= j - 1
    BY <1>3
  <2>2. Append(f[j - 1], s[j]) \in Seq(Byte) /\ Len(Append(f[j - 1], s[j])) = Len(f[j - 1]) + 1
    BY <1>0, <2>1, AppendProperties
  <2>3. f[j] \in Seq(Byte) /\ Len(f[j]) <= j
    <3> HIDE DEF T
    <3>1. Len(f[j - 1]) \in Nat
      BY <2>1, LenProperties
    <3>2. CASE IsData(s[j])
      <4>1. f[j] = Append(f[j - 1], s[j])
        BY <1>1, <3>2
      <4>2. Len(f[j - 1]) + 1 <= j
        BY <1>0, <2>1, <3>1
      <4> QED BY <2>2, <4>1, <4>2
    <3>3. CASE ~IsData(s[j])
      BY <1>1, <2>1, <3>1, <3>3
    <3> QED BY <3>2, <3>3
  <2> QED BY <1>0, <2>3
<1>4. \A j \in 0..Len(s) : j \in T
  <2> HIDE DEF T
  <2> QED BY <1>0, <1>2, <1>3, UpTo
<1> QED BY <1>4

LEMMA DataOfType ==
  ASSUME NEW s \in Seq(Byte)
  PROVE  DataOf(s) \in Seq(Byte) /\ Len(DataOf(s)) \in Nat /\ Len(DataOf(s)) <= Len(s)
<1>1. PICK f : Filtering(s, f) /\ DataOf(s) = f[Len(s)]
  BY DataOfIs
<1>2. Len(s) \in 0..Len(s)
  OBVIOUS
<1>3. DataOf(s) \in Seq(Byte) /\ Len(DataOf(s)) <= Len(s)
  BY <1>1, <1>2, FilteringType
<1> QED BY <1>3, LenProperties

\* The data of nothing, and of frames, is nothing.
LEMMA DataOfNothing ==
  ASSUME NEW s \in Seq(Byte), \A j \in 1..Len(s) : ~IsData(s[j])
  PROVE  DataOf(s) = <<>>
<1>1. PICK f : Filtering(s, f) /\ DataOf(s) = f[Len(s)]
  BY DataOfIs
<1>2. f[0] = <<>> /\ \A j \in 1..Len(s) : f[j] = f[j - 1]
  BY <1>1, FilteringSteps
<1> DEFINE T == {j \in 0..Len(s) : f[j] = <<>>}
<1>0. Len(s) \in Nat
  OBVIOUS
<1>3. 0 \in T
  BY <1>0, <1>2
<1>4. \A j \in 1..Len(s) : j - 1 \in T => j \in T
  BY <1>2
<1>5. \A j \in 0..Len(s) : j \in T
  <2> HIDE DEF T
  <2> QED BY <1>0, <1>3, <1>4, UpTo
<1> QED BY <1>0, <1>1, <1>5

\* Names for what is said of sequences, so that it can be cited as it is.
Associates(s, t, u) == (s \o t) \o u = s \o (t \o u)
DataJoins(s, t) == DataOf(s \o t) = DataOf(s) \o DataOf(t)

LEMMA ThreeJoin ==
  ASSUME NEW S, NEW s \in Seq(S), NEW t \in Seq(S), NEW u \in Seq(S)
  PROVE  Associates(s, t, u)
BY ConcatAssociative DEF Associates

\* The data of two sequences is the data of one and that of the other.
LEMMA DataOfJoin ==
  ASSUME NEW s \in Seq(Byte), NEW t \in Seq(Byte)
  PROVE  DataJoins(s, t)
<1> DEFINE st == s \o t
           m == Len(s)
           n == Len(t)
<1>1. st \in Seq(Byte) /\ Len(st) = m + n /\ m \in Nat /\ n \in Nat
  BY ConcatProperties
<1>2. \A j \in 1..m : st[j] = s[j]
  BY ConcatProperties
<1>3. \A j \in 1..n : st[m + j] = t[j] /\ t[j] \in Byte
  <2> TAKE j \in 1..n
  <2>1. m + j \in 1..(m + n) /\ ~(m + j <= m) /\ (m + j) - m = j
    OBVIOUS
  <2> QED BY <2>1, ConcatProperties
<1> HIDE DEF st, m, n
<1>4. PICK f : Filtering(s, f) /\ DataOf(s) = f[m]
  BY DataOfIs DEF m
<1>5. PICK h : Filtering(t, h) /\ DataOf(t) = h[n]
  BY DataOfIs DEF n
<1>6. PICK g : Filtering(st, g) /\ DataOf(st) = g[m + n]
  BY <1>1, DataOfIs
<1>7. f[0] = <<>> /\ \A j \in 1..m :
        f[j] = IF IsData(s[j]) THEN Append(f[j - 1], s[j]) ELSE f[j - 1]
  BY <1>4, FilteringSteps DEF m
<1>8. h[0] = <<>> /\ \A j \in 1..n :
        h[j] = IF IsData(t[j]) THEN Append(h[j - 1], t[j]) ELSE h[j - 1]
  BY <1>5, FilteringSteps DEF n
<1>9. g[0] = <<>> /\ \A j \in 1..(m + n) :
        g[j] = IF IsData(st[j]) THEN Append(g[j - 1], st[j]) ELSE g[j - 1]
  BY <1>1, <1>6, FilteringSteps
<1>10. g[m] = f[m]
  <2> DEFINE T == {j \in 0..m : g[j] = f[j]}
  <2>1. 0 \in T
    BY <1>1, <1>7, <1>9
  <2>2. ASSUME NEW j \in 1..m, j - 1 \in T PROVE j \in T
    <3>1. j \in 1..(m + n)
      BY <1>1
    <3>2. g[j - 1] = f[j - 1]
      BY <2>2
    <3> QED BY <1>1, <1>2, <1>7, <1>9, <3>1, <3>2
  <2>3. \A j \in 0..m : j \in T
    <3> HIDE DEF T
    <3> QED BY <1>1, <2>1, <2>2, UpTo
  <2> QED BY <1>1, <2>3
<1>11. f[m] \in Seq(Byte) /\ \A j \in 0..n : h[j] \in Seq(Byte)
  <2>1. \A j \in 0..m : f[j] \in Seq(Byte)
    BY <1>4, FilteringType DEF m
  <2>2. \A j \in 0..n : h[j] \in Seq(Byte)
    BY <1>5, FilteringType DEF n
  <2> QED BY <1>1, <2>1, <2>2
<1>12. g[m + n] = f[m] \o h[n]
  <2> DEFINE T == {j \in 0..n : g[m + j] = f[m] \o h[j]}
  <2>1. 0 \in T
    <3>1. f[m] \o <<>> = f[m]
      BY <1>11, ConcatEmptySeq
    <3>2. g[m + 0] = f[m] \o h[0]
      BY <1>1, <1>8, <1>10, <3>1
    <3>3. 0 \in 0..n
      BY <1>1
    <3> QED BY <3>2, <3>3
  <2>2. ASSUME NEW j \in 1..n, j - 1 \in T PROVE j \in T
    <3>1. g[m + (j - 1)] = f[m] \o h[j - 1]
      BY <2>2
    <3>2. m + j \in 1..(m + n) /\ (m + j) - 1 = m + (j - 1) /\ j - 1 \in 0..n
      BY <1>1
    <3>3. st[m + j] = t[j] /\ t[j] \in Byte
      BY <1>3
    <3>4. g[m + j] = IF IsData(t[j]) THEN Append(f[m] \o h[j - 1], t[j])
                     ELSE f[m] \o h[j - 1]
      <4> HIDE DEF T
      <4> QED BY <1>9, <3>1, <3>2, <3>3
    <3> DEFINE a == f[m]
               b == h[j - 1]
               c == t[j]
    <3>5. a \in Seq(Byte) /\ b \in Seq(Byte) /\ c \in Byte /\ <<c>> \in Seq(Byte)
      BY <1>11, <3>2, <3>3
    <3>6. h[j] = IF IsData(c) THEN Append(b, c) ELSE b
      BY <1>8
    <3>7. g[m + j] = IF IsData(c) THEN Append(a \o b, c) ELSE a \o b
      BY <3>4
    <3> HIDE DEF a, b, c, T
    <3>8. Append(a \o b, c) = a \o Append(b, c)
      <4>1. a \o b \in Seq(Byte)
        BY <3>5, ConcatProperties
      <4>2. Append(a \o b, c) = (a \o b) \o <<c>> /\ Append(b, c) = b \o <<c>>
        BY <4>1, <3>5, AppendIsConcat
      <4>3. Associates(a, b, <<c>>)
        BY <3>5, ThreeJoin
      <4> QED BY <4>2, <4>3 DEF Associates
    <3>9. g[m + j] = a \o h[j]
      BY <3>6, <3>7, <3>8
    <3>10. j \in 0..n
      BY <1>1
    <3> QED BY <3>9, <3>10 DEF T, a
  <2>3. \A j \in 0..n : j \in T
    <3> HIDE DEF T
    <3> QED BY <1>1, <2>1, <2>2, UpTo
  <2>4. n \in 0..n
    BY <1>1
  <2>5. n \in T
    <3> HIDE DEF T
    <3> QED BY <2>3, <2>4
  <2> QED BY <2>5
<1> QED BY <1>4, <1>5, <1>6, <1>10, <1>12 DEF DataJoins, st

\* A sequence is its first n elements and the others.
LEMMA Cut ==
  ASSUME NEW S, NEW t \in Seq(S), NEW n \in 0..Len(t)
  PROVE  /\ SubSeq(t, 1, n) \in Seq(S) /\ Len(SubSeq(t, 1, n)) = n
         /\ SubSeq(t, n + 1, Len(t)) \in Seq(S)
         /\ Len(SubSeq(t, n + 1, Len(t))) = Len(t) - n
         /\ t = SubSeq(t, 1, n) \o SubSeq(t, n + 1, Len(t))
<1>1. Len(t) \in Nat /\ n \in Nat /\ n <= Len(t)
  OBVIOUS
<1>2. SubSeq(t, 1, n) \in Seq(S) /\ Len(SubSeq(t, 1, n)) = n
  <2>1. \A i \in 1..n : t[i] \in S
    BY <1>1
  <2> QED BY <1>1, <2>1, SubSeqProperties
<1>3. /\ SubSeq(t, n + 1, Len(t)) \in Seq(S)
      /\ Len(SubSeq(t, n + 1, Len(t))) = Len(t) - n
  <2>1. \A i \in (n + 1)..Len(t) : t[i] \in S
    BY <1>1
  <2>2. n + 1 \in Int /\ Len(t) \in Int
    BY <1>1
  <2>3. SubSeq(t, n + 1, Len(t)) \in Seq(S)
    BY <2>1, <2>2, SubSeqProperties
  <2>4. Len(SubSeq(t, n + 1, Len(t))) = IF n + 1 <= Len(t) THEN Len(t) - (n + 1) + 1 ELSE 0
    BY <2>1, <2>2, SubSeqProperties
  <2>5. (IF n + 1 <= Len(t) THEN Len(t) - (n + 1) + 1 ELSE 0) = Len(t) - n
    BY <1>1
  <2> QED BY <2>3, <2>4, <2>5
<1>4. t = SubSeq(t, 1, n) \o SubSeq(t, n + 1, Len(t))
  <2>1. 1 \in 1..(Len(t) + 1) /\ n \in (1 - 1)..Len(t) /\ Len(t) \in n..Len(t)
    BY <1>1
  <2>2. SubSeq(t, 1, n) \o SubSeq(t, n + 1, Len(t)) = SubSeq(t, 1, Len(t))
    BY <2>1, ConcatAdjacentSubSeq
  <2> QED BY <2>2, SubSeqFull
<1> QED BY <1>2, <1>3, <1>4

\* Two ways to cut a sequence at the same place are the same.
LEMMA SameCut ==
  ASSUME NEW S, NEW s \in Seq(S), NEW t \in Seq(S), NEW u \in Seq(S), NEW v \in Seq(S),
         Len(s) = Len(u), s \o t = u \o v
  PROVE  s = u /\ t = v
<1>1. s = u
  <2>1. \A i \in 1..Len(s) : (s \o t)[i] = s[i]
    BY ConcatProperties
  <2>2. \A i \in 1..Len(u) : (u \o v)[i] = u[i]
    BY ConcatProperties
  <2>3. \A i \in 1..Len(s) : s[i] = u[i]
    BY <2>1, <2>2
  <2> QED BY <2>3, SeqEqual
<1>2. t = v
  <2> DEFINE m == Len(s)
  <2>1. /\ m \in Nat /\ Len(t) \in Nat /\ Len(v) \in Nat
        /\ Len(s \o t) = m + Len(t) /\ Len(u \o v) = m + Len(v)
    <3>1. Len(s \o t) = Len(s) + Len(t)
      BY ConcatProperties
    <3>2. Len(u \o v) = Len(u) + Len(v)
      BY ConcatProperties
    <3> QED BY <3>1, <3>2, LenProperties
  <2>2. Len(t) = Len(v)
    BY <2>1
  <2>3. ASSUME NEW i \in 1..Len(t) PROVE t[i] = v[i]
    <3>1. m + i \in 1..(m + Len(t)) /\ ~(m + i <= m) /\ (m + i) - m = i
      BY <2>1
    <3>2. (s \o t)[m + i] = t[i]
      <4>1. \A j \in 1..(Len(s) + Len(t)) :
              (s \o t)[j] = IF j <= Len(s) THEN s[j] ELSE t[j - Len(s)]
        BY ConcatProperties
      <4> QED BY <3>1, <4>1
    <3>3. (u \o v)[m + i] = v[i]
      <4>1. \A j \in 1..(Len(u) + Len(v)) :
              (u \o v)[j] = IF j <= Len(u) THEN u[j] ELSE v[j - Len(u)]
        BY ConcatProperties
      <4> QED BY <2>2, <3>1, <4>1
    <3> QED BY <3>2, <3>3
  <2> QED BY <2>2, <2>3, SeqEqual
<1> QED BY <1>1, <1>2

\* The data of s is that of D between a and b.
Holds(D, s, a, b) ==
  a \in Nat /\ b \in Nat /\ a <= b /\ b <= Len(D) /\ DataOf(s) = SubSeq(D, a + 1, b)

LEMMA HoldsJoin ==
  ASSUME NEW D \in Seq(Byte), NEW s \in Seq(Byte), NEW t \in Seq(Byte),
         NEW a, NEW b, NEW c, Holds(D, s, a, b), Holds(D, t, b, c)
  PROVE  Holds(D, s \o t, a, c)
<1>1. /\ a \in Nat /\ b \in Nat /\ c \in Nat /\ a <= b /\ b <= c /\ c <= Len(D)
      /\ DataOf(s) = SubSeq(D, a + 1, b) /\ DataOf(t) = SubSeq(D, b + 1, c)
  BY DEF Holds
<1>2. DataOf(s \o t) = SubSeq(D, a + 1, b) \o SubSeq(D, b + 1, c)
  BY <1>1, DataOfJoin DEF DataJoins
<1>3. SubSeq(D, a + 1, b) \o SubSeq(D, b + 1, c) = SubSeq(D, a + 1, c)
  <2>1. a + 1 \in 1..(Len(D) + 1) /\ b \in ((a + 1) - 1)..Len(D) /\ c \in b..Len(D)
    BY <1>1
  <2> QED BY <2>1, ConcatAdjacentSubSeq
<1> QED BY <1>1, <1>2, <1>3 DEF Holds

\* What is between two places, and its length.
LEMMA Between ==
  ASSUME NEW D \in Seq(Byte), NEW a \in Nat, NEW b \in Nat, a <= b, b <= Len(D)
  PROVE  SubSeq(D, a + 1, b) \in Seq(Byte) /\ Len(SubSeq(D, a + 1, b)) = b - a
<1>1. a + 1 \in Int /\ b \in Int /\ Len(D) \in Nat
  OBVIOUS
<1>2. \A i \in (a + 1)..b : D[i] \in Byte
  BY <1>1
<1>3. SubSeq(D, a + 1, b) \in Seq(Byte)
  BY <1>1, <1>2, SubSeqProperties
<1>4. Len(SubSeq(D, a + 1, b)) = IF a + 1 <= b THEN b - (a + 1) + 1 ELSE 0
  BY <1>1, <1>2, SubSeqProperties
<1>5. (IF a + 1 <= b THEN b - (a + 1) + 1 ELSE 0) = b - a
  OBVIOUS
<1> QED BY <1>3, <1>4, <1>5

LEMMA HoldsSplit ==
  ASSUME NEW D \in Seq(Byte), NEW s \in Seq(Byte), NEW t \in Seq(Byte),
         NEW a, NEW c, Holds(D, s \o t, a, c)
  PROVE  Holds(D, s, a, a + Len(DataOf(s))) /\ Holds(D, t, a + Len(DataOf(s)), c)
<1> DEFINE b == a + Len(DataOf(s))
<1>1. /\ a \in Nat /\ c \in Nat /\ a <= c /\ c <= Len(D)
      /\ DataOf(s) \o DataOf(t) = SubSeq(D, a + 1, c)
  BY DataOfJoin DEF Holds, DataJoins
<1>2. /\ DataOf(s) \in Seq(Byte) /\ Len(DataOf(s)) \in Nat
      /\ DataOf(t) \in Seq(Byte) /\ Len(DataOf(t)) \in Nat
  BY DataOfType
<1>3. Len(DataOf(s)) + Len(DataOf(t)) = c - a
  <2>1. Len(SubSeq(D, a + 1, c)) = c - a
    BY <1>1, Between
  <2>2. Len(DataOf(s) \o DataOf(t)) = Len(DataOf(s)) + Len(DataOf(t))
    BY <1>2, ConcatProperties
  <2> QED BY <1>1, <2>1, <2>2
<1>4. b \in Nat /\ a <= b /\ b <= c /\ b - a = Len(DataOf(s))
  BY <1>1, <1>2, <1>3
<1> HIDE DEF b
<1>5. SubSeq(D, a + 1, b) \o SubSeq(D, b + 1, c) = SubSeq(D, a + 1, c)
  <2>1. a + 1 \in 1..(Len(D) + 1) /\ b \in ((a + 1) - 1)..Len(D) /\ c \in b..Len(D)
    BY <1>1, <1>4
  <2> QED BY <2>1, ConcatAdjacentSubSeq
<1>6. /\ SubSeq(D, a + 1, b) \in Seq(Byte) /\ Len(SubSeq(D, a + 1, b)) = b - a
      /\ SubSeq(D, b + 1, c) \in Seq(Byte)
  <2>1. b <= Len(D)
    BY <1>1, <1>4
  <2> QED BY <1>1, <1>4, <2>1, Between
<1>7. DataOf(s) = SubSeq(D, a + 1, b) /\ DataOf(t) = SubSeq(D, b + 1, c)
  <2>1. DataOf(s) \o DataOf(t) = SubSeq(D, a + 1, b) \o SubSeq(D, b + 1, c)
    BY <1>1, <1>5
  <2>2. Len(DataOf(s)) = Len(SubSeq(D, a + 1, b))
    BY <1>4, <1>6
  <2> DEFINE x == DataOf(s)
             y == DataOf(t)
             u == SubSeq(D, a + 1, b)
             v == SubSeq(D, b + 1, c)
  <2>3. /\ x \in Seq(Byte) /\ y \in Seq(Byte) /\ u \in Seq(Byte) /\ v \in Seq(Byte)
        /\ Len(x) = Len(u) /\ x \o y = u \o v
    BY <1>2, <1>6, <2>1, <2>2
  <2> HIDE DEF x, y, u, v
  <2>4. x = u /\ y = v
    BY <2>3, SameCut
  <2> QED BY <2>4 DEF x, y, u, v
<1>8. b <= Len(D)
  BY <1>1, <1>4
<1> QED BY <1>1, <1>4, <1>7, <1>8 DEF Holds, b

\* A sequence without data holds nothing, wherever that is.
LEMMA HoldsNothing ==
  ASSUME NEW D \in Seq(Byte), NEW s, DataOf(s) = <<>>, NEW b \in 0..Len(D)
  PROVE  Holds(D, s, b, b)
<1>1. b \in Nat /\ b <= Len(D) /\ b + 1 \in Int /\ b \in Int /\ b < b + 1
  OBVIOUS
<1>2. SubSeq(D, b + 1, b) = <<>>
  BY <1>1, SubSeqEmpty
<1> QED BY <1>1, <1>2 DEF Holds

LEMMA HoldsEmpty ==
  ASSUME NEW D \in Seq(Byte), NEW s, DataOf(s) = <<>>, NEW a, NEW b, Holds(D, s, a, b)
  PROVE  a = b
<1>1. a \in Nat /\ b \in Nat /\ a <= b /\ b <= Len(D) /\ SubSeq(D, a + 1, b) = <<>>
  BY DEF Holds
<1>2. Len(SubSeq(D, a + 1, b)) = b - a /\ Len(<<>>) = 0
  BY <1>1, Between
<1> QED BY <1>1, <1>2

-----------------------------------------------------------------------------
(* The stage before                                                         *)

\* CS_pipeNearestInBuffer in a pipeline with these stages.
Nearest(stages, i) == Max({0} \cup {j \in 1..(i - 1) : stages[j].size > 0})

LEMMA GreatestNumber ==
  ASSUME NEW n \in Nat, NEW T, T \subseteq 0..n, T # {}
  PROVE  Max(T) \in T /\ \A y \in T : y <= Max(T)
<1> DEFINE F == {n - y : y \in T}
<1>1. F \subseteq Nat /\ F # {}
  OBVIOUS
<1>2. PICK x \in F : \A y \in F : x <= y
  <2> HIDE DEF F
  <2> QED BY <1>1, LeastNumber
<1>3. PICK m \in T : x = n - m
  OBVIOUS
<1>4. \A y \in T : m >= y
  <2> TAKE y \in T
  <2>1. n - y \in F
    OBVIOUS
  <2>2. n - m <= n - y /\ y \in Nat /\ m \in Nat
    <3>1. y \in 0..n /\ m \in 0..n
      OBVIOUS
    <3>2. x <= n - y
      <4> HIDE DEF F
      <4> QED BY <1>2, <2>1
    <3> QED BY <1>3, <3>1, <3>2
  <2> QED BY <2>2
<1>5. Max(T) \in T /\ \A y \in T : Max(T) >= y
  <2> HIDE DEF F
  <2> QED BY <1>4 DEF Max
<1>6. \A y \in T : y \in Nat
  OBVIOUS
<1> QED BY <1>5, <1>6

LEMMA NearestIs ==
  ASSUME NEW p \in Plans, NEW i \in 1..(Len(p.stages) + 1)
  PROVE  /\ Nearest(p.stages, i) \in 0..(i - 1)
         /\ Nearest(p.stages, i) > 0 => p.stages[Nearest(p.stages, i)].size > 0
         /\ i > 1 => Nearest(p.stages, i) >= 1
         /\ \A j \in 1..(i - 1) : p.stages[j].size > 0 => j <= Nearest(p.stages, i)
<1> DEFINE T == {0} \cup {j \in 1..(i - 1) : p.stages[j].size > 0}
<1>1. i - 1 \in Nat /\ T \subseteq 0..(i - 1) /\ T # {}
  OBVIOUS
<1>2. Max(T) \in T /\ \A y \in T : y <= Max(T)
  <2> HIDE DEF T
  <2> QED BY <1>1, GreatestNumber
<1>3. Max(T) = Nearest(p.stages, i)
  BY DEF Nearest
<1> DEFINE m == Nearest(p.stages, i)
<1>4. m \in T /\ \A y \in T : y <= m
  BY <1>2, <1>3
<1> HIDE DEF m
<1>5. m \in 0..(i - 1) /\ (m > 0 => p.stages[m].size > 0)
  BY <1>4
<1>6. \A j \in 1..(i - 1) : p.stages[j].size > 0 => j <= m
  BY <1>4
<1>7. i > 1 => m >= 1
  BY <1>6, PipesAssumption
<1> QED BY <1>5, <1>6, <1>7 DEF m

-----------------------------------------------------------------------------
(* Buffers                                                                  *)

Buffer == [gap : Nat, data : Seq(Byte)]

LEMMA PutIs ==
  ASSUME NEW b \in Buffer, NEW s \in Seq(Byte)
  PROVE  /\ Put(b, s) \in Buffer /\ Put(b, s).data = b.data \o s
         /\ \A z \in Nat : BufferOK(b, z) /\ Len(s) <= room(b, z) => BufferOK(Put(b, s), z)
<1> DEFINE d == b.data \o s
<1>1. b.data \in Seq(Byte) /\ b.gap \in Nat /\ b = [gap |-> b.gap, data |-> b.data]
  BY DEF Buffer
<1>2. d \in Seq(Byte) /\ Len(d) = Len(b.data) + Len(s)
  BY <1>1, ConcatProperties
<1>3. Put(b, s) = [gap |-> b.gap, data |-> d]
  <2>1. Put(b, s) = [b EXCEPT !.data = d]
    BY DEF Put
  <2> HIDE DEF d
  <2> QED BY <1>1, <2>1
<1>4. Len(b.data) \in Nat /\ Len(s) \in Nat
  BY <1>1, LenProperties
<1> HIDE DEF d
<1>5. Put(b, s) \in Buffer /\ Put(b, s).data = d
  BY <1>1, <1>2, <1>3 DEF Buffer
<1>6. \A z \in Nat : BufferOK(b, z) /\ Len(s) <= room(b, z) => BufferOK(Put(b, s), z)
  BY <1>1, <1>2, <1>3, <1>4 DEF BufferOK, room
<1> QED BY <1>5, <1>6 DEF d

LEMMA DropIs ==
  ASSUME NEW b \in Buffer, NEW n \in 0..Len(b.data)
  PROVE  /\ Drop(b, n) \in Buffer
         /\ Drop(b, n).data = SubSeq(b.data, n + 1, Len(b.data))
         /\ \A z \in Nat : BufferOK(b, z) => BufferOK(Drop(b, n), z)
<1>1. /\ b.data \in Seq(Byte) /\ b.gap \in Nat /\ n \in Nat /\ Len(b.data) \in Nat
      /\ n <= Len(b.data)
  BY DEF Buffer
<1> DEFINE rest == SubSeq(b.data, n + 1, Len(b.data))
<1>2. rest \in Seq(Byte) /\ Len(rest) = Len(b.data) - n
  BY <1>1, Cut
<1>3. CASE n = Len(b.data)
  <2>1. rest = <<>>
    <3>1. n + 1 \in Int /\ Len(b.data) \in Int /\ Len(b.data) < n + 1
      BY <1>1, <1>3
    <3> QED BY <3>1, SubSeqEmpty
  <2>2. Drop(b, n) = [gap |-> 0, data |-> <<>>] /\ <<>> \in Seq(Byte) /\ Len(<<>>) = 0
    BY <1>3 DEF Drop, Empty
  <2>3. \A z \in Nat : BufferOK(b, z) => BufferOK(Drop(b, n), z)
    BY <2>2 DEF BufferOK
  <2>4. Drop(b, n) \in Buffer /\ Drop(b, n).data = <<>>
    BY <2>2 DEF Buffer
  <2> QED BY <2>1, <2>3, <2>4
<1>4. CASE n # Len(b.data)
  <2>1. Drop(b, n) = [gap |-> b.gap + n, data |-> rest]
    BY <1>4 DEF Drop
  <2> HIDE DEF rest
  <2>2. Drop(b, n) \in Buffer /\ Drop(b, n).data = rest
    BY <1>1, <1>2, <2>1 DEF Buffer
  <2>3. \A z \in Nat : BufferOK(b, z) => BufferOK(Drop(b, n), z)
    BY <1>1, <1>2, <2>1 DEF BufferOK
  <2> QED BY <2>2, <2>3 DEF rest
<1> QED BY <1>3, <1>4

-----------------------------------------------------------------------------
(* Where the data is                                                        *)

Has(p, i) == p.stages[i].size > 0
Data(p) == DataOf(p.data)

\* pos[i] of the data of the plan have gone out of the buffer of stage i, and
\* pos[0] out of the source: a buffer holds what has gone out of the nearest
\* one before it, and not out of itself, and the sink what has gone out of
\* the last one.
Placed(p, pos, buf, src, snk) ==
  /\ pos \in [0..Len(p.stages) -> Nat]
  /\ Holds(Data(p), src, pos[0], Len(Data(p)))
  /\ \A i \in 1..Len(p.stages) : Has(p, i) =>
       Holds(Data(p), buf[i].data, pos[i], pos[Nearest(p.stages, i)])
  /\ Holds(Data(p), snk, 0, pos[Nearest(p.stages, Len(p.stages) + 1)])
  /\ \A i, j \in 1..Len(p.stages) : Has(p, i) /\ Has(p, j) /\ i < j => pos[j] <= pos[i]

Filled(p, buf, src, snk) ==
  buf \in [1..Len(p.stages) -> Buffer] /\ src \in Seq(Byte) /\ snk \in Seq(Byte)

LEMMA PlanIs ==
  ASSUME NEW p \in Plans
  PROVE  /\ Len(p.stages) \in Nat \ {0} /\ Has(p, 1)
         /\ p.data \in Seq(Byte) /\ Data(p) \in Seq(Byte) /\ Len(Data(p)) \in Nat
<1>1. p \in [data : Seq(Byte), stages : Seq(Shape)] /\ p.stages # <<>> /\ p.stages[1].size > 0
  BY PipesAssumption
<1>2. p.data \in Seq(Byte) /\ p.stages \in Seq(Shape)
  BY <1>1
<1>3. Len(p.stages) \in Nat \ {0}
  BY <1>1, <1>2
<1> QED BY <1>1, <1>2, <1>3, DataOfType DEF Has, Data

\* Two stages with a buffer do not share the nearest one before them.
LEMMA OneBehind ==
  ASSUME NEW p \in Plans, NEW i \in 1..(Len(p.stages) + 1), NEW j \in 1..(Len(p.stages) + 1),
         i < j, i <= Len(p.stages), Has(p, i)
  PROVE  Nearest(p.stages, i) # Nearest(p.stages, j)
<1>1. i \in 1..(j - 1)
  OBVIOUS
<1>2. i <= Nearest(p.stages, j) /\ Nearest(p.stages, i) \in 0..(i - 1)
  BY <1>1, NearestIs DEF Has
<1> QED BY <1>2

\* Some bytes, n of them, move from the nearest buffer to that of stage i.
LEMMA MovePlaces ==
  ASSUME NEW p \in Plans, NEW pos, NEW buf, NEW src, NEW snk,
         Filled(p, buf, src, snk), Placed(p, pos, buf, src, snk),
         NEW i \in 2..Len(p.stages), Has(p, i),
         NEW from, from = Nearest(p.stages, i),
         NEW n \in 0..Len(buf[from].data),
         NEW buf2, buf2 = [buf EXCEPT ![from] = Drop(@, n),
                                      ![i] = Put(@, SubSeq(buf[from].data, 1, n))]
  PROVE  \E c \in Nat : /\ Placed(p, [pos EXCEPT ![from] = c], buf2, src, snk)
                        /\ c <= pos[from] + n
<1> DEFINE D == Data(p)
           N == Len(p.stages)
           first == SubSeq(buf[from].data, 1, n)
           rest == SubSeq(buf[from].data, n + 1, Len(buf[from].data))
           c == pos[from] + Len(DataOf(first))
           pos2 == [pos EXCEPT ![from] = c]
<1>1. D \in Seq(Byte) /\ Len(D) \in Nat /\ N \in Nat \ {0}
  BY PlanIs
<1>2. /\ i \in 1..N /\ i > 1 /\ i \in 1..(N + 1)
      /\ from \in 1..N /\ from < i /\ Has(p, from)
  <2>1. i \in 1..N /\ i > 1 /\ i \in 1..(N + 1)
    BY <1>1
  <2>2. from \in 0..(i - 1) /\ from >= 1 /\ (from > 0 => p.stages[from].size > 0)
    BY <2>1, NearestIs
  <2> QED BY <2>1, <2>2 DEF Has
<1>3. /\ pos \in [0..N -> Nat]
      /\ Holds(D, src, pos[0], Len(D))
      /\ \A j \in 1..N : Has(p, j) => Holds(D, buf[j].data, pos[j], pos[Nearest(p.stages, j)])
      /\ Holds(D, snk, 0, pos[Nearest(p.stages, N + 1)])
      /\ \A j, k \in 1..N : Has(p, j) /\ Has(p, k) /\ j < k => pos[k] <= pos[j]
  BY DEF Placed
<1>4. buf \in [1..N -> Buffer] /\ buf[from] \in Buffer /\ buf[i] \in Buffer
  BY <1>2 DEF Filled
<1>5. /\ buf[from].data \in Seq(Byte) /\ buf[i].data \in Seq(Byte)
      /\ first \in Seq(Byte) /\ Len(first) = n /\ rest \in Seq(Byte)
      /\ buf[from].data = first \o rest
  <2>1. buf[from].data \in Seq(Byte) /\ buf[i].data \in Seq(Byte)
    BY <1>4 DEF Buffer
  <2> QED BY <2>1, Cut
<1>6. Drop(buf[from], n).data = rest /\ Put(buf[i], first).data = buf[i].data \o first
  BY <1>4, <1>5, DropIs, PutIs
<1>7. /\ buf2[from].data = rest /\ buf2[i].data = buf[i].data \o first
      /\ \A j \in 1..N : j # from /\ j # i => buf2[j] = buf[j]
  <2> DEFINE x == Drop(buf[from], n)
             y == Put(buf[i], first)
  <2>1. buf2 = [buf EXCEPT ![from] = x, ![i] = y] /\ from # i
    BY <1>2
  <2>2. x.data = rest /\ y.data = buf[i].data \o first
    BY <1>6
  <2> HIDE DEF x, y
  <2>3. buf2[from] = x /\ buf2[i] = y /\ \A j \in 1..N : j # from /\ j # i => buf2[j] = buf[j]
    BY <1>2, <1>4, <2>1
  <2> QED BY <2>2, <2>3
<1>8. Len(DataOf(first)) \in Nat /\ Len(DataOf(first)) <= n
  BY <1>5, DataOfType
<1>9. pos[from] \in Nat /\ c \in Nat /\ c <= pos[from] + n /\ pos[from] <= c
  BY <1>2, <1>3, <1>8
<1>10. Nearest(p.stages, from) \in 0..(from - 1)
  <2>1. from \in 1..(N + 1)
    BY <1>1, <1>2
  <2> QED BY <2>1, NearestIs
<1> HIDE DEF D, first, rest, c
<1>11. Holds(D, first, pos[from], c) /\ Holds(D, rest, c, pos[Nearest(p.stages, from)])
  <2>1. Holds(D, first \o rest, pos[from], pos[Nearest(p.stages, from)])
    BY <1>2, <1>3, <1>5
  <2> QED BY <1>1, <1>5, <2>1, HoldsSplit DEF c
<1>12. Holds(D, buf[i].data \o first, pos[i], c)
  <2>1. Holds(D, buf[i].data, pos[i], pos[from])
    BY <1>2, <1>3
  <2> QED BY <1>1, <1>5, <1>11, <2>1, HoldsJoin
<1>13. /\ pos2 \in [0..N -> Nat] /\ pos2[from] = c
       /\ \A j \in 0..N : j # from => pos2[j] = pos[j]
  BY <1>2, <1>3, <1>9
<1> HIDE DEF pos2
<1>14. Holds(D, src, pos2[0], Len(D))
  <2>1. 0 \in 0..N /\ 0 # from
    BY <1>1, <1>2
  <2> QED BY <1>3, <1>13, <2>1
<1>15. ASSUME NEW j \in 1..N, Has(p, j)
       PROVE  Holds(D, buf2[j].data, pos2[j], pos2[Nearest(p.stages, j)])
  <2>0. j \in 1..(N + 1) /\ j \in 0..N /\ i <= N /\ j <= N
    BY <1>1, <1>2
  <2>1. CASE j = from
    <3>1. pos2[Nearest(p.stages, from)] = pos[Nearest(p.stages, from)]
      BY <1>2, <1>10, <1>13
    <3> QED BY <1>7, <1>11, <1>13, <2>1, <3>1
  <2>2. CASE j = i
    <3>1. pos2[i] = pos[i] /\ Nearest(p.stages, i) = from
      BY <1>2, <1>13
    <3> QED BY <1>7, <1>12, <1>13, <2>2, <3>1
  <2>3. CASE j # from /\ j # i
    <3>1. Nearest(p.stages, j) # from
      <4>1. i < j \/ j < i
        BY <1>2, <2>3
      <4> QED BY <1>2, <1>15, <2>0, <4>1, OneBehind
    <3>2. Nearest(p.stages, j) \in 0..N
      <4>1. Nearest(p.stages, j) \in 0..(j - 1)
        BY <2>0, NearestIs
      <4> QED BY <1>1, <4>1
    <3>3. pos2[j] = pos[j] /\ pos2[Nearest(p.stages, j)] = pos[Nearest(p.stages, j)]
      BY <1>13, <2>0, <2>3, <3>1, <3>2
    <3>4. buf2[j] = buf[j]
      BY <1>7, <2>3
    <3> QED BY <1>3, <1>15, <3>3, <3>4
  <2> QED BY <2>1, <2>2, <2>3
<1>16. Holds(D, snk, 0, pos2[Nearest(p.stages, N + 1)])
  <2>0. N + 1 \in 1..(N + 1) /\ i < N + 1 /\ i <= N
    BY <1>1, <1>2
  <2>1. Nearest(p.stages, N + 1) # from
    BY <1>2, <2>0, OneBehind
  <2>2. Nearest(p.stages, N + 1) \in 0..N
    <3>1. Nearest(p.stages, N + 1) \in 0..((N + 1) - 1)
      BY <2>0, NearestIs
    <3> QED BY <1>1, <3>1
  <2> QED BY <1>3, <1>13, <2>1, <2>2
<1>17. ASSUME NEW j \in 1..N, NEW k \in 1..N, Has(p, j), Has(p, k), j < k
       PROVE  pos2[k] <= pos2[j]
  <2>0. /\ j \in 0..N /\ k \in 0..N /\ pos[j] \in Nat /\ pos[k] \in Nat
        /\ pos[k] <= pos[j]
    BY <1>1, <1>3, <1>17
  <2>1. CASE k = from
    <3>1. j <= Nearest(p.stages, from) /\ j # from
      <4>1. j \in 1..(from - 1) /\ from \in 1..(N + 1) /\ j # from
        BY <1>1, <1>2, <1>17, <2>1
      <4> QED BY <4>1, <1>17, NearestIs DEF Has
    <3> DEFINE m == Nearest(p.stages, from)
    <3>2. m \in 1..N /\ m > 0
      BY <1>2, <1>10, <3>1
    <3>3. Has(p, m)
      <4>1. from \in 1..(N + 1)
        BY <1>1, <1>2
      <4> QED BY <3>2, <4>1, NearestIs DEF Has
    <3>4. pos[m] \in Nat /\ c <= pos[m]
      BY <1>3, <1>11, <3>2 DEF Holds
    <3>5. pos[m] <= pos[j]
      <4> HIDE DEF m
      <4>1. j = m \/ j < m
        BY <3>1, <3>2 DEF m
      <4>2. j = m => pos[m] <= pos[j]
        BY <3>4
      <4> QED BY <1>3, <1>17, <3>2, <3>3, <4>1, <4>2
    <3> HIDE DEF m
    <3> QED BY <1>9, <1>13, <2>0, <2>1, <3>1, <3>4, <3>5
  <2>2. CASE j = from
    <3>1. k # from
      BY <1>17, <2>2
    <3>2. pos2[k] = pos[k] /\ pos2[j] = c
      BY <1>13, <2>0, <2>2, <3>1
    <3> QED BY <1>9, <2>0, <2>2, <3>2
  <2>3. CASE k # from /\ j # from
    BY <1>13, <2>0, <2>3
  <2> QED BY <2>1, <2>2, <2>3
<1>18. Placed(p, pos2, buf2, src, snk)
  BY <1>13, <1>14, <1>15, <1>16, <1>17 DEF Placed, D
<1> QED BY <1>9, <1>18 DEF pos2

\* A frame, or a part of it, leaves a buffer or goes into one.
LEMMA SamePlaces ==
  ASSUME NEW p \in Plans, NEW pos, NEW buf, NEW src, NEW snk,
         Filled(p, buf, src, snk), Placed(p, pos, buf, src, snk),
         NEW i \in 1..Len(p.stages), NEW b,
         \A a, c : Holds(Data(p), buf[i].data, a, c) => Holds(Data(p), b.data, a, c)
  PROVE  Placed(p, pos, [buf EXCEPT ![i] = b], src, snk)
<1> DEFINE buf2 == [buf EXCEPT ![i] = b]
<1>1. buf \in [1..Len(p.stages) -> Buffer]
  BY DEF Filled
<1>2. ASSUME NEW j \in 1..Len(p.stages), Has(p, j)
      PROVE  Holds(Data(p), buf2[j].data, pos[j], pos[Nearest(p.stages, j)])
  <2>1. Holds(Data(p), buf[j].data, pos[j], pos[Nearest(p.stages, j)])
    BY <1>2 DEF Placed
  <2>2. CASE j = i
    <3>1. buf2[j] = b
      BY <1>1, <2>2
    <3> HIDE DEF buf2
    <3> QED BY <2>1, <2>2, <3>1
  <2>3. CASE j # i
    <3>1. buf2[j] = buf[j]
      BY <1>1, <2>3
    <3> HIDE DEF buf2
    <3> QED BY <2>1, <3>1
  <2> QED BY <2>2, <2>3
<1> HIDE DEF buf2
<1>3. Placed(p, pos, buf2, src, snk)
  BY <1>2 DEF Placed
<1> QED BY <1>3 DEF buf2

LEMMA LosePlaces ==
  ASSUME NEW p \in Plans, NEW pos, NEW buf, NEW src, NEW snk,
         Filled(p, buf, src, snk), Placed(p, pos, buf, src, snk),
         NEW i \in 1..Len(p.stages), NEW n \in 0..Len(buf[i].data),
         DataOf(SubSeq(buf[i].data, 1, n)) = <<>>
  PROVE  Placed(p, pos, [buf EXCEPT ![i] = Drop(@, n)], src, snk)
<1> DEFINE D == Data(p)
           first == SubSeq(buf[i].data, 1, n)
           rest == SubSeq(buf[i].data, n + 1, Len(buf[i].data))
           b == Drop(buf[i], n)
<1>1. buf[i] \in Buffer /\ buf[i].data \in Seq(Byte) /\ D \in Seq(Byte)
  BY PlanIs DEF Filled, Buffer
<1>2. b.data = rest
  BY <1>1, DropIs
<1>3. first \in Seq(Byte) /\ rest \in Seq(Byte) /\ buf[i].data = first \o rest
  BY <1>1, Cut
<1>4. ASSUME NEW a, NEW c, Holds(D, buf[i].data, a, c)
      PROVE  Holds(D, b.data, a, c)
  <2> HIDE DEF D, rest, b
  <2>0. DataOf(first) = <<>> /\ Len(<<>>) = 0 /\ a \in Nat
    BY <1>4 DEF Holds
  <2> HIDE DEF first
  <2>1. Holds(D, first \o rest, a, c)
    BY <1>3, <1>4
  <2>2. Holds(D, rest, a + Len(DataOf(first)), c)
    BY <1>1, <1>3, <2>1, HoldsSplit
  <2>3. a + Len(DataOf(first)) = a
    BY <2>0
  <2> QED BY <1>2, <2>2, <2>3
<1> HIDE DEF b
<1>5. Placed(p, pos, [buf EXCEPT ![i] = b], src, snk)
  BY <1>4, SamePlaces
<1> QED BY <1>5 DEF b

LEMMA GainPlaces ==
  ASSUME NEW p \in Plans, NEW pos, NEW buf, NEW src, NEW snk,
         Filled(p, buf, src, snk), Placed(p, pos, buf, src, snk),
         NEW i \in 1..Len(p.stages), NEW t \in Seq(Byte), DataOf(t) = <<>>
  PROVE  Placed(p, pos, [buf EXCEPT ![i] = Put(@, t)], src, snk)
<1> DEFINE D == Data(p)
           b == Put(buf[i], t)
<1>1. buf[i] \in Buffer /\ buf[i].data \in Seq(Byte) /\ D \in Seq(Byte) /\ Len(D) \in Nat
  BY PlanIs DEF Filled, Buffer
<1>2. b.data = buf[i].data \o t
  BY <1>1, PutIs
<1>3. ASSUME NEW a, NEW c, Holds(D, buf[i].data, a, c)
      PROVE  Holds(D, b.data, a, c)
  <2> HIDE DEF D, b
  <2>1. c \in 0..Len(D)
    BY <1>1, <1>3 DEF Holds
  <2>2. Holds(D, t, c, c)
    BY <1>1, <2>1, HoldsNothing
  <2>3. Holds(D, buf[i].data \o t, a, c)
    BY <1>1, <1>3, <2>2, HoldsJoin
  <2> QED BY <1>2, <2>3
<1> HIDE DEF b
<1>4. Placed(p, pos, [buf EXCEPT ![i] = b], src, snk)
  BY <1>3, SamePlaces
<1> QED BY <1>4 DEF b

\* Stage 1 reads the first n bytes of the source.
LEMMA ReadPlaces ==
  ASSUME NEW p \in Plans, NEW pos, NEW buf, NEW src, NEW snk,
         Filled(p, buf, src, snk), Placed(p, pos, buf, src, snk),
         NEW n \in 0..Len(src)
  PROVE  \E c \in Nat :
           Placed(p, [pos EXCEPT ![0] = c],
                  [buf EXCEPT ![1] = Put(@, SubSeq(src, 1, n))],
                  SubSeq(src, n + 1, Len(src)), snk)
<1> DEFINE D == Data(p)
           N == Len(p.stages)
           first == SubSeq(src, 1, n)
           rest == SubSeq(src, n + 1, Len(src))
           c == pos[0] + Len(DataOf(first))
           pos2 == [pos EXCEPT ![0] = c]
           b == Put(buf[1], first)
           buf2 == [buf EXCEPT ![1] = b]
<1>1. D \in Seq(Byte) /\ Len(D) \in Nat /\ N \in Nat \ {0} /\ Has(p, 1)
  BY PlanIs
<1>2. /\ pos \in [0..N -> Nat]
      /\ Holds(D, src, pos[0], Len(D))
      /\ \A j \in 1..N : Has(p, j) => Holds(D, buf[j].data, pos[j], pos[Nearest(p.stages, j)])
      /\ Holds(D, snk, 0, pos[Nearest(p.stages, N + 1)])
      /\ \A j, k \in 1..N : Has(p, j) /\ Has(p, k) /\ j < k => pos[k] <= pos[j]
  BY DEF Placed
<1>3. /\ buf \in [1..N -> Buffer] /\ buf[1] \in Buffer /\ buf[1].data \in Seq(Byte)
      /\ src \in Seq(Byte) /\ 1 \in 1..N /\ 0 \in 0..N /\ 1 \in 1..(N + 1)
  BY <1>1 DEF Filled, Buffer
<1>4. first \in Seq(Byte) /\ rest \in Seq(Byte) /\ src = first \o rest
  BY <1>3, Cut
<1>5. b.data = buf[1].data \o first
  BY <1>3, <1>4, PutIs
<1>6. c \in Nat /\ pos[0] \in Nat
  <2>1. Len(DataOf(first)) \in Nat
    BY <1>4, DataOfType
  <2> QED BY <1>2, <1>3, <2>1
<1>7. buf2[1] = b /\ \A j \in 1..N : j # 1 => buf2[j] = buf[j]
  <2> HIDE DEF b
  <2> QED BY <1>3
<1> HIDE DEF D, first, rest, c, b, buf2
<1>8. Holds(D, first, pos[0], c) /\ Holds(D, rest, c, Len(D))
  <2>1. Holds(D, first \o rest, pos[0], Len(D))
    BY <1>2, <1>4
  <2> QED BY <1>1, <1>4, <2>1, HoldsSplit DEF c
<1>9. Nearest(p.stages, 1) = 0
  <2>1. Nearest(p.stages, 1) \in 0..(1 - 1)
    BY <1>3, NearestIs
  <2> QED BY <2>1
<1>10. Holds(D, buf[1].data \o first, pos[1], c)
  <2>1. Holds(D, buf[1].data, pos[1], pos[0])
    BY <1>1, <1>2, <1>3, <1>9
  <2> QED BY <1>1, <1>3, <1>4, <1>8, <2>1, HoldsJoin
<1>11. /\ pos2 \in [0..N -> Nat] /\ pos2[0] = c
       /\ \A j \in 0..N : j # 0 => pos2[j] = pos[j]
  BY <1>2, <1>3, <1>6
<1> HIDE DEF pos2
<1>12. \A j \in 2..(N + 1) : Nearest(p.stages, j) \in 1..N
  <2> TAKE j \in 2..(N + 1)
  <2>1. j \in 1..(N + 1) /\ j > 1
    BY <1>1
  <2>2. Nearest(p.stages, j) \in 0..(j - 1) /\ Nearest(p.stages, j) >= 1
    BY <2>1, NearestIs
  <2> QED BY <1>1, <2>2
<1>13. ASSUME NEW j \in 1..N, Has(p, j)
       PROVE  Holds(D, buf2[j].data, pos2[j], pos2[Nearest(p.stages, j)])
  <2>1. CASE j = 1
    <3>1. pos2[1] = pos[1]
      BY <1>1, <1>11
    <3> QED BY <1>5, <1>7, <1>9, <1>10, <1>11, <2>1, <3>1
  <2>2. CASE j # 1
    <3>1. j \in 2..(N + 1) /\ j \in 0..N /\ j # 0
      BY <1>1, <2>2
    <3>2. Nearest(p.stages, j) \in 0..N /\ Nearest(p.stages, j) # 0
      BY <1>1, <1>12, <3>1
    <3>3. pos2[j] = pos[j] /\ pos2[Nearest(p.stages, j)] = pos[Nearest(p.stages, j)]
      BY <1>11, <3>1, <3>2
    <3> QED BY <1>2, <1>7, <1>13, <2>2, <3>3
  <2> QED BY <2>1, <2>2
<1>14. Holds(D, snk, 0, pos2[Nearest(p.stages, N + 1)])
  <2>1. Nearest(p.stages, N + 1) \in 0..N /\ Nearest(p.stages, N + 1) # 0
    <3>1. N + 1 \in 2..(N + 1)
      BY <1>1
    <3> QED BY <1>1, <1>12, <3>1
  <2> QED BY <1>2, <1>11, <2>1
<1>15. \A j, k \in 1..N : Has(p, j) /\ Has(p, k) /\ j < k => pos2[k] <= pos2[j]
  <2> TAKE j, k \in 1..N
  <2>1. j \in 0..N /\ j # 0 /\ k \in 0..N /\ k # 0
    BY <1>1
  <2> QED BY <1>2, <1>11, <2>1
<1>16. Placed(p, pos2, buf2, rest, snk)
  BY <1>8, <1>11, <1>13, <1>14, <1>15 DEF Placed, D
<1> QED BY <1>6, <1>16 DEF pos2, buf2, b, first, rest

\* The last stage writes the first n bytes of the last buffer.
LEMMA WritePlaces ==
  ASSUME NEW p \in Plans, NEW pos, NEW buf, NEW src, NEW snk,
         Filled(p, buf, src, snk), Placed(p, pos, buf, src, snk),
         NEW from, from = Nearest(p.stages, Len(p.stages) + 1),
         NEW n \in 0..Len(buf[from].data)
  PROVE  \E c \in Nat :
           Placed(p, [pos EXCEPT ![from] = c],
                  [buf EXCEPT ![from] = Drop(@, n)],
                  src, snk \o SubSeq(buf[from].data, 1, n))
<1> DEFINE D == Data(p)
           N == Len(p.stages)
           first == SubSeq(buf[from].data, 1, n)
           rest == SubSeq(buf[from].data, n + 1, Len(buf[from].data))
           c == pos[from] + Len(DataOf(first))
           pos2 == [pos EXCEPT ![from] = c]
           b == Drop(buf[from], n)
           buf2 == [buf EXCEPT ![from] = b]
<1>1. D \in Seq(Byte) /\ Len(D) \in Nat /\ N \in Nat \ {0} /\ Has(p, 1)
  BY PlanIs
<1>2. /\ pos \in [0..N -> Nat]
      /\ Holds(D, src, pos[0], Len(D))
      /\ \A j \in 1..N : Has(p, j) => Holds(D, buf[j].data, pos[j], pos[Nearest(p.stages, j)])
      /\ Holds(D, snk, 0, pos[from])
      /\ \A j, k \in 1..N : Has(p, j) /\ Has(p, k) /\ j < k => pos[k] <= pos[j]
  BY DEF Placed
<1>3. /\ from \in 1..N /\ from \in 0..N /\ from # 0 /\ Has(p, from)
      /\ \A j \in 1..N : Has(p, j) => j <= from
  <2>1. N + 1 \in 1..(N + 1) /\ N + 1 > 1 /\ (N + 1) - 1 = N
    BY <1>1
  <2>2. /\ from \in 0..((N + 1) - 1) /\ from >= 1 /\ (from > 0 => p.stages[from].size > 0)
        /\ \A j \in 1..((N + 1) - 1) : p.stages[j].size > 0 => j <= from
    BY <2>1, NearestIs
  <2> QED BY <1>1, <2>1, <2>2 DEF Has
<1>4. /\ buf \in [1..N -> Buffer] /\ buf[from] \in Buffer /\ buf[from].data \in Seq(Byte)
      /\ snk \in Seq(Byte)
  BY <1>3 DEF Filled, Buffer
<1>5. first \in Seq(Byte) /\ rest \in Seq(Byte) /\ buf[from].data = first \o rest
  BY <1>4, Cut
<1>6. b.data = rest
  BY <1>4, DropIs
<1>7. c \in Nat /\ pos[from] \in Nat /\ pos[from] <= c
  <2>1. Len(DataOf(first)) \in Nat
    BY <1>5, DataOfType
  <2> QED BY <1>2, <1>3, <2>1
<1>8. buf2[from] = b /\ \A j \in 1..N : j # from => buf2[j] = buf[j]
  <2> HIDE DEF b
  <2> QED BY <1>3, <1>4
<1>9. /\ Nearest(p.stages, from) \in 0..(from - 1)
      /\ (Nearest(p.stages, from) > 0 => Has(p, Nearest(p.stages, from)))
  <2>1. from \in 1..(N + 1)
    BY <1>1, <1>3
  <2> QED BY <2>1, NearestIs DEF Has
<1>10. /\ pos2 \in [0..N -> Nat] /\ pos2[from] = c
       /\ \A j \in 0..N : j # from => pos2[j] = pos[j]
  <2> HIDE DEF c
  <2> QED BY <1>2, <1>3, <1>7
<1> HIDE DEF D, first, rest, c, b, buf2, pos2
<1>11. Holds(D, first, pos[from], c) /\ Holds(D, rest, c, pos[Nearest(p.stages, from)])
  <2>1. Holds(D, first \o rest, pos[from], pos[Nearest(p.stages, from)])
    BY <1>2, <1>3, <1>5
  <2> QED BY <1>1, <1>5, <2>1, HoldsSplit DEF c
<1>12. Holds(D, snk \o first, 0, c)
  BY <1>1, <1>2, <1>4, <1>5, <1>11, HoldsJoin
<1>13. ASSUME NEW j \in 1..N, Has(p, j)
       PROVE  Holds(D, buf2[j].data, pos2[j], pos2[Nearest(p.stages, j)])
  <2>0. j \in 1..(N + 1) /\ j \in 0..N /\ j <= from
    BY <1>1, <1>3, <1>13
  <2>1. Nearest(p.stages, j) \in 0..N /\ Nearest(p.stages, j) # from
    <3>1. Nearest(p.stages, j) \in 0..(j - 1)
      BY <2>0, NearestIs
    <3> QED BY <1>1, <1>3, <2>0, <3>1
  <2>2. pos2[Nearest(p.stages, j)] = pos[Nearest(p.stages, j)]
    BY <1>10, <2>1
  <2>3. CASE j = from
    BY <1>6, <1>8, <1>10, <1>11, <2>2, <2>3
  <2>4. CASE j # from
    <3>1. pos2[j] = pos[j] /\ buf2[j] = buf[j]
      BY <1>8, <1>10, <2>0, <2>4
    <3> QED BY <1>2, <1>13, <2>2, <3>1
  <2> QED BY <2>3, <2>4
<1>14. Holds(D, src, pos2[0], Len(D))
  <2>1. 0 \in 0..N /\ 0 # from
    BY <1>1, <1>3
  <2> QED BY <1>2, <1>10, <2>1
<1>15. ASSUME NEW j \in 1..N, NEW k \in 1..N, Has(p, j), Has(p, k), j < k
       PROVE  pos2[k] <= pos2[j]
  <2>0. /\ j \in 0..N /\ k \in 0..N /\ pos[j] \in Nat /\ pos[k] \in Nat
        /\ pos[k] <= pos[j] /\ j # from /\ pos2[j] = pos[j]
    <3>1. j \in 0..N /\ k \in 0..N
      BY <1>1
    <3>2. k <= from
      BY <1>3, <1>15
    <3>3. j # from
      BY <1>3, <1>15, <3>1, <3>2
    <3> QED BY <1>2, <1>10, <1>15, <3>1, <3>3
  <2>1. CASE k = from
    <3> DEFINE m == Nearest(p.stages, from)
    <3>1. j <= m
      <4>1. j \in 1..(from - 1) /\ from \in 1..(N + 1)
        BY <1>1, <1>3, <1>15, <2>1
      <4> QED BY <4>1, <1>15, NearestIs DEF Has
    <3>2. m \in 1..N /\ Has(p, m) /\ pos[m] \in Nat /\ c <= pos[m]
      <4>1. m \in 1..N /\ m > 0
        BY <1>3, <1>9, <3>1
      <4>2. Has(p, m)
        BY <1>9, <4>1
      <4>3. pos[m] \in Nat /\ c <= pos[m]
        BY <1>11 DEF Holds
      <4> QED BY <4>1, <4>2, <4>3
    <3> HIDE DEF m
    <3>3. pos[m] <= pos[j]
      <4>1. j = m \/ j < m
        BY <3>1, <3>2
      <4>2. j = m => pos[m] <= pos[j]
        BY <3>2
      <4> QED BY <1>2, <1>15, <3>2, <4>1, <4>2
    <3> QED BY <1>7, <1>10, <2>0, <2>1, <3>2, <3>3
  <2>2. CASE k # from
    BY <1>10, <2>0, <2>2
  <2> QED BY <2>1, <2>2
<1>16. Holds(D, snk \o first, 0, pos2[Nearest(p.stages, N + 1)])
  BY <1>10, <1>12
<1>17. Placed(p, pos2, buf2, src, snk \o first)
  BY <1>10, <1>13, <1>14, <1>15, <1>16 DEF Placed, D
<1> QED BY <1>7, <1>17 DEF pos2, buf2, b, first

-----------------------------------------------------------------------------
(* The parts of the invariant, of any values of the variables               *)

ChunkStates == {"size", "hex", "lf", "data", "cr", "next", "done"}
Chunk == [state : ChunkStates, text : Seq(Byte), left : Nat, wanted : Nat]

StatusOK(p, a, em, er) ==
  a \in 0..Len(p.stages) /\ em \subseteq 1..Len(p.stages) /\ er \subseteq 1..Len(p.stages)

\* The buffers hold no more than they have room for, and only a last stage
\* that writes has written something.
BuffersOK(p, buf, src, snk) ==
  /\ Filled(p, buf, src, snk)
  /\ \A i \in 1..Len(p.stages) : BufferOK(buf[i], p.stages[i].size)
  /\ p.stages[Len(p.stages)].kind \notin Writing => snk = <<>>

\* What an encoder has still to put is frame; a decoder is behind the data of
\* a chunk when it has had all of it.
ChunkOK(c) ==
  /\ c \in Chunk
  /\ c.left <= c.wanted /\ DataOf(c.text) = <<>>
  /\ c.state = "next" => c.left = 0

ChunksOK(p, ch) ==
  /\ ch \in [1..Len(p.stages) -> Chunk]
  /\ \A i \in 1..Len(p.stages) : ChunkOK(ch[i])

CountsOK(p, tr) ==
  /\ tr \in [1..Len(p.stages) -> Nat]
  /\ \A i \in 1..Len(p.stages) : p.stages[i].kind = "limited" => tr[i] <= p.stages[i].n

\* No more data has passed a limited stage than it has counted bytes.
Counted(p, pos, tr) ==
  \A i \in 1..Len(p.stages) :
    p.stages[i].kind = "limited" => pos[Nearest(p.stages, i)] <= tr[i]

DataOK(p, buf, src, snk, tr) ==
  \E pos : Placed(p, pos, buf, src, snk) /\ Counted(p, pos, tr)

Inv ==
  /\ plan \in Plans
  /\ StatusOK(plan, at, empty, error)
  /\ BuffersOK(plan, buffer, source, sink)
  /\ ChunksOK(plan, chunk)
  /\ CountsOK(plan, transferred)
  /\ DataOK(plan, buffer, source, sink, transferred)

LEMMA StageIs ==
  ASSUME NEW p \in Plans, NEW i \in 1..Len(p.stages)
  PROVE  /\ p.stages[i] \in Shape /\ p.stages[i].size \in Nat /\ p.stages[i].n \in Nat
         /\ p.stages[i].kind \in Kind
         /\ p.stages[i].kind \in Reading => i = 1
         /\ p.stages[i].kind \in Writing => i = Len(p.stages)
         /\ p.stages[i].kind \notin Reading \cup {"null"} => i > 1
         /\ p.stages[i].kind \notin Writing \cup {"null"} => Has(p, i)
<1>1. p.stages \in Seq(Shape) /\ DOMAIN p.stages = 1..Len(p.stages)
  BY PipesAssumption
<1>2. p.stages[i] \in Shape
  BY <1>1
<1>3. /\ p.stages[i].kind \in Reading => i = 1
      /\ p.stages[i].kind \in Writing => i = Len(p.stages)
      /\ p.stages[i].kind \notin Reading \cup {"null"} => i > 1
      /\ p.stages[i].kind \notin Writing \cup {"null"} => p.stages[i].size > 0
  BY <1>1, PipesAssumption
<1> QED BY <1>2, <1>3 DEF Shape, Has

\* A limited stage is behind another one, and has a buffer.
LEMMA LimitedIs ==
  ASSUME NEW p \in Plans, NEW i \in 1..Len(p.stages), p.stages[i].kind = "limited"
  PROVE  /\ i > 1 /\ Has(p, i) /\ i \in 1..(Len(p.stages) + 1)
         /\ Nearest(p.stages, i) \in 1..Len(p.stages) /\ Nearest(p.stages, i) < i
<1>1. i > 1 /\ Has(p, i)
  BY StageIs DEF Reading, Writing
<1>2. i \in 1..(Len(p.stages) + 1) /\ Len(p.stages) \in Nat
  BY PlanIs
<1>3. Nearest(p.stages, i) \in 0..(i - 1) /\ Nearest(p.stages, i) >= 1
  BY <1>1, <1>2, NearestIs
<1> QED BY <1>1, <1>2, <1>3

\* A stage that is not the next with a buffer does not disturb the count.
LEMMA CountedKeeps ==
  ASSUME NEW p \in Plans, NEW pos, NEW tr, Counted(p, pos, tr),
         pos \in [0..Len(p.stages) -> Nat],
         NEW from \in 0..Len(p.stages), NEW c,
         \A i \in 1..Len(p.stages) :
           p.stages[i].kind = "limited" => Nearest(p.stages, i) # from
  PROVE  Counted(p, [pos EXCEPT ![from] = c], tr)
<1> SUFFICES ASSUME NEW i \in 1..Len(p.stages), p.stages[i].kind = "limited"
             PROVE  [pos EXCEPT ![from] = c][Nearest(p.stages, i)] <= tr[i]
  BY DEF Counted
<1>1. Nearest(p.stages, i) \in 1..Len(p.stages) /\ Nearest(p.stages, i) # from
  BY LimitedIs
<1>2. pos[Nearest(p.stages, i)] <= tr[i]
  BY DEF Counted
<1> QED BY <1>1, <1>2

\* The nearest stages of two others are different.
LEMMA OtherBehind ==
  ASSUME NEW p \in Plans, NEW i \in 1..(Len(p.stages) + 1),
         i <= Len(p.stages) => Has(p, i),
         NEW j \in 1..Len(p.stages), p.stages[j].kind = "limited", j # i
  PROVE  Nearest(p.stages, j) # Nearest(p.stages, i)
<1>1. Has(p, j) /\ j \in 1..(Len(p.stages) + 1)
  BY LimitedIs
<1>2. CASE i < j
  <2>1. i <= Len(p.stages) /\ Has(p, i)
    BY <1>1, <1>2
  <2> QED BY <1>1, <1>2, <2>1, OneBehind
<1>3. CASE j < i
  <2>1. j <= Len(p.stages)
    BY <1>1
  <2> QED BY <1>1, <1>3, <2>1, OneBehind
<1> QED BY <1>1, <1>2, <1>3

-----------------------------------------------------------------------------
(* What the operations on buffers keep                                      *)

LEMMA PutOK ==
  ASSUME NEW p \in Plans, NEW buf, NEW src, NEW snk, BuffersOK(p, buf, src, snk),
         NEW i \in 1..Len(p.stages), NEW t \in Seq(Byte),
         Len(t) <= room(buf[i], p.stages[i].size)
  PROVE  BuffersOK(p, [buf EXCEPT ![i] = Put(@, t)], src, snk)
<1>1. /\ buf \in [1..Len(p.stages) -> Buffer] /\ buf[i] \in Buffer
      /\ \A j \in 1..Len(p.stages) : BufferOK(buf[j], p.stages[j].size)
      /\ src \in Seq(Byte) /\ snk \in Seq(Byte)
  BY DEF BuffersOK, Filled
<1> DEFINE b == Put(buf[i], t)
<1>2. b \in Buffer /\ BufferOK(b, p.stages[i].size)
  <2>1. p.stages[i].size \in Nat
    BY StageIs
  <2> QED BY <1>1, <2>1, PutIs
<1> HIDE DEF b
<1>3. BuffersOK(p, [buf EXCEPT ![i] = b], src, snk)
  BY <1>1, <1>2 DEF BuffersOK, Filled
<1> QED BY <1>3 DEF b

LEMMA DropOK ==
  ASSUME NEW p \in Plans, NEW buf, NEW src, NEW snk, BuffersOK(p, buf, src, snk),
         NEW i \in 1..Len(p.stages), NEW n \in 0..Len(buf[i].data)
  PROVE  BuffersOK(p, [buf EXCEPT ![i] = Drop(@, n)], src, snk)
<1>1. /\ buf \in [1..Len(p.stages) -> Buffer] /\ buf[i] \in Buffer
      /\ \A j \in 1..Len(p.stages) : BufferOK(buf[j], p.stages[j].size)
      /\ src \in Seq(Byte) /\ snk \in Seq(Byte)
  BY DEF BuffersOK, Filled
<1> DEFINE b == Drop(buf[i], n)
<1>2. b \in Buffer /\ BufferOK(b, p.stages[i].size)
  <2>1. p.stages[i].size \in Nat
    BY StageIs
  <2> QED BY <1>1, <2>1, DropIs
<1> HIDE DEF b
<1>3. BuffersOK(p, [buf EXCEPT ![i] = b], src, snk)
  BY <1>1, <1>2 DEF BuffersOK, Filled
<1> QED BY <1>3 DEF b

LEMMA MoveBuffers ==
  ASSUME NEW p \in Plans, NEW buf, NEW src, NEW snk, BuffersOK(p, buf, src, snk),
         NEW i \in 1..Len(p.stages), NEW from \in 1..Len(p.stages), from # i,
         NEW n \in 0..Len(buf[from].data), n <= room(buf[i], p.stages[i].size)
  PROVE  BuffersOK(p, [buf EXCEPT ![from] = Drop(@, n),
                                  ![i] = Put(@, SubSeq(buf[from].data, 1, n))], src, snk)
<1> DEFINE b == [buf EXCEPT ![from] = Drop(@, n)]
           t == SubSeq(buf[from].data, 1, n)
<1>1. BuffersOK(p, b, src, snk)
  BY DropOK
<1>2. buf \in [1..Len(p.stages) -> Buffer]
  BY DEF BuffersOK, Filled
<1>3. b[i] = buf[i]
  BY <1>2
<1>4. t \in Seq(Byte) /\ Len(t) = n
  <2>1. buf[from].data \in Seq(Byte)
    BY <1>2 DEF Buffer
  <2> QED BY <2>1, Cut
<1>5. [b EXCEPT ![i] = Put(@, t)]
        = [buf EXCEPT ![from] = Drop(@, n), ![i] = Put(@, SubSeq(buf[from].data, 1, n))]
  OBVIOUS
<1> HIDE DEF b, t
<1>6. BuffersOK(p, [b EXCEPT ![i] = Put(@, t)], src, snk)
  BY <1>1, <1>3, <1>4, PutOK
<1> QED BY <1>5, <1>6

\* The data that is moved to a stage that does not count it, ...
LEMMA MoveData ==
  ASSUME NEW p \in Plans, NEW buf, NEW src, NEW snk, NEW tr,
         BuffersOK(p, buf, src, snk), DataOK(p, buf, src, snk, tr),
         NEW i \in 2..Len(p.stages), Has(p, i), p.stages[i].kind # "limited",
         NEW from, from = Nearest(p.stages, i), NEW n \in 0..Len(buf[from].data)
  PROVE  DataOK(p, [buf EXCEPT ![from] = Drop(@, n),
                               ![i] = Put(@, SubSeq(buf[from].data, 1, n))], src, snk, tr)
<1> DEFINE buf2 == [buf EXCEPT ![from] = Drop(@, n),
                               ![i] = Put(@, SubSeq(buf[from].data, 1, n))]
<1>1. PICK pos : Placed(p, pos, buf, src, snk) /\ Counted(p, pos, tr)
  BY DEF DataOK
<1>2. PICK c \in Nat : Placed(p, [pos EXCEPT ![from] = c], buf2, src, snk)
  BY <1>1, MovePlaces DEF BuffersOK
<1>3. Counted(p, [pos EXCEPT ![from] = c], tr)
  <2>0. Len(p.stages) \in Nat
    BY PlanIs
  <2>1. i \in 1..(Len(p.stages) + 1) /\ (i <= Len(p.stages) => Has(p, i))
    BY <2>0
  <2>2. \A j \in 1..Len(p.stages) :
           p.stages[j].kind = "limited" => Nearest(p.stages, j) # from
    BY <2>1, OtherBehind
  <2>3. from \in 0..Len(p.stages)
    <3>1. from \in 0..(i - 1)
      BY <2>1, NearestIs
    <3> QED BY <2>0, <3>1
  <2>4. pos \in [0..Len(p.stages) -> Nat]
    BY <1>1 DEF Placed
  <2> QED BY <1>1, <2>2, <2>3, <2>4, CountedKeeps
<1> HIDE DEF buf2
<1>4. DataOK(p, buf2, src, snk, tr)
  BY <1>2, <1>3 DEF DataOK
<1> QED BY <1>4 DEF buf2

\* ... and to one that does.
LEMMA MoveCounted ==
  ASSUME NEW p \in Plans, NEW buf, NEW src, NEW snk, NEW tr,
         BuffersOK(p, buf, src, snk), DataOK(p, buf, src, snk, tr), CountsOK(p, tr),
         NEW i \in 2..Len(p.stages), Has(p, i), p.stages[i].kind = "limited",
         NEW from, from = Nearest(p.stages, i), NEW n \in 0..Len(buf[from].data)
  PROVE  DataOK(p, [buf EXCEPT ![from] = Drop(@, n),
                               ![i] = Put(@, SubSeq(buf[from].data, 1, n))], src, snk,
                [tr EXCEPT ![i] = @ + n])
<1> DEFINE buf2 == [buf EXCEPT ![from] = Drop(@, n),
                               ![i] = Put(@, SubSeq(buf[from].data, 1, n))]
           tr2 == [tr EXCEPT ![i] = @ + n]
<1>1. PICK pos : Placed(p, pos, buf, src, snk) /\ Counted(p, pos, tr)
  BY DEF DataOK
<1>2. PICK c \in Nat : /\ Placed(p, [pos EXCEPT ![from] = c], buf2, src, snk)
                       /\ c <= pos[from] + n
  BY <1>1, MovePlaces DEF BuffersOK
<1> DEFINE pos2 == [pos EXCEPT ![from] = c]
<1>3. Counted(p, pos2, tr2)
  <2>0. Len(p.stages) \in Nat /\ n \in Nat /\ i \in 1..Len(p.stages)
    <3>1. buf \in [1..Len(p.stages) -> Buffer]
      BY DEF BuffersOK, Filled
    <3>2. Len(p.stages) \in Nat /\ i \in 1..Len(p.stages)
      BY PlanIs
    <3>3. from \in 1..Len(p.stages)
      BY <3>2, LimitedIs
    <3>4. Len(buf[from].data) \in Nat
      BY <3>1, <3>3 DEF Buffer
    <3> QED BY <3>2, <3>4
  <2>1. i \in 1..(Len(p.stages) + 1) /\ (i <= Len(p.stages) => Has(p, i))
    BY <2>0
  <2>2. pos \in [0..Len(p.stages) -> Nat] /\ from \in 1..Len(p.stages) /\ pos[from] \in Nat
    <3>1. pos \in [0..Len(p.stages) -> Nat]
      BY <1>1 DEF Placed
    <3>2. from \in 1..Len(p.stages)
      BY <2>0, LimitedIs
    <3> QED BY <2>0, <3>1, <3>2
  <2>3. tr \in [1..Len(p.stages) -> Nat]
    BY DEF CountsOK
  <2> SUFFICES ASSUME NEW j \in 1..Len(p.stages), p.stages[j].kind = "limited"
               PROVE  pos2[Nearest(p.stages, j)] <= tr2[j]
    BY DEF Counted
  <2>4. pos[Nearest(p.stages, j)] <= tr[j] /\ Nearest(p.stages, j) \in 0..Len(p.stages)
    <3>1. pos[Nearest(p.stages, j)] <= tr[j]
      BY <1>1 DEF Counted
    <3>2. Nearest(p.stages, j) \in 1..Len(p.stages)
      BY LimitedIs
    <3> QED BY <2>0, <3>1, <3>2
  <2>5. CASE j = i
    <3>1. pos2[from] = c /\ tr2[i] = tr[i] + n /\ tr[i] \in Nat
      BY <2>0, <2>2, <2>3
    <3>2. pos[from] <= tr[i]
      BY <2>4, <2>5
    <3> HIDE DEF pos2, tr2
    <3> QED BY <1>2, <2>0, <2>2, <2>5, <3>1, <3>2
  <2>6. CASE j # i
    <3>1. Nearest(p.stages, j) # from
      BY <2>1, <2>6, OtherBehind
    <3>2. pos2[Nearest(p.stages, j)] = pos[Nearest(p.stages, j)] /\ tr2[j] = tr[j]
      BY <2>2, <2>3, <2>4, <2>6, <3>1
    <3> HIDE DEF pos2, tr2
    <3> QED BY <2>4, <3>2
  <2> QED BY <2>5, <2>6
<1> HIDE DEF buf2, tr2, pos2
<1>4. DataOK(p, buf2, src, snk, tr2)
  BY <1>2, <1>3 DEF DataOK, pos2
<1> QED BY <1>4 DEF buf2, tr2

LEMMA LoseData ==
  ASSUME NEW p \in Plans, NEW buf, NEW src, NEW snk, NEW tr,
         BuffersOK(p, buf, src, snk), DataOK(p, buf, src, snk, tr),
         NEW i \in 1..Len(p.stages), NEW n \in 0..Len(buf[i].data),
         DataOf(SubSeq(buf[i].data, 1, n)) = <<>>
  PROVE  DataOK(p, [buf EXCEPT ![i] = Drop(@, n)], src, snk, tr)
BY LosePlaces DEF DataOK, BuffersOK

LEMMA GainData ==
  ASSUME NEW p \in Plans, NEW buf, NEW src, NEW snk, NEW tr,
         BuffersOK(p, buf, src, snk), DataOK(p, buf, src, snk, tr),
         NEW i \in 1..Len(p.stages), NEW t \in Seq(Byte), DataOf(t) = <<>>
  PROVE  DataOK(p, [buf EXCEPT ![i] = Put(@, t)], src, snk, tr)
BY GainPlaces DEF DataOK, BuffersOK

LEMMA ReadData ==
  ASSUME NEW p \in Plans, NEW buf, NEW src, NEW snk, NEW tr,
         BuffersOK(p, buf, src, snk), DataOK(p, buf, src, snk, tr),
         NEW n \in 0..Len(src)
  PROVE  DataOK(p, [buf EXCEPT ![1] = Put(@, SubSeq(src, 1, n))],
                SubSeq(src, n + 1, Len(src)), snk, tr)
<1> DEFINE buf2 == [buf EXCEPT ![1] = Put(@, SubSeq(src, 1, n))]
           src2 == SubSeq(src, n + 1, Len(src))
<1>1. PICK pos : Placed(p, pos, buf, src, snk) /\ Counted(p, pos, tr)
  BY DEF DataOK
<1>2. PICK c \in Nat : Placed(p, [pos EXCEPT ![0] = c], buf2, src2, snk)
  BY <1>1, ReadPlaces DEF BuffersOK
<1>3. Counted(p, [pos EXCEPT ![0] = c], tr)
  <2>1. \A j \in 1..Len(p.stages) :
           p.stages[j].kind = "limited" => Nearest(p.stages, j) # 0
    BY LimitedIs
  <2>2. 0 \in 0..Len(p.stages)
    BY PlanIs
  <2>3. pos \in [0..Len(p.stages) -> Nat]
    BY <1>1 DEF Placed
  <2> QED BY <1>1, <2>1, <2>2, <2>3, CountedKeeps
<1> HIDE DEF buf2, src2
<1>4. DataOK(p, buf2, src2, snk, tr)
  BY <1>2, <1>3 DEF DataOK
<1> QED BY <1>4 DEF buf2, src2

LEMMA WriteData ==
  ASSUME NEW p \in Plans, NEW buf, NEW src, NEW snk, NEW tr,
         BuffersOK(p, buf, src, snk), DataOK(p, buf, src, snk, tr),
         NEW from, from = Nearest(p.stages, Len(p.stages) + 1),
         NEW n \in 0..Len(buf[from].data)
  PROVE  DataOK(p, [buf EXCEPT ![from] = Drop(@, n)], src,
                snk \o SubSeq(buf[from].data, 1, n), tr)
<1> DEFINE buf2 == [buf EXCEPT ![from] = Drop(@, n)]
           snk2 == snk \o SubSeq(buf[from].data, 1, n)
<1>1. PICK pos : Placed(p, pos, buf, src, snk) /\ Counted(p, pos, tr)
  BY DEF DataOK
<1>2. PICK c \in Nat : Placed(p, [pos EXCEPT ![from] = c], buf2, src, snk2)
  BY <1>1, WritePlaces DEF BuffersOK
<1>3. Counted(p, [pos EXCEPT ![from] = c], tr)
  <2> DEFINE N == Len(p.stages)
  <2>0. N \in Nat
    BY PlanIs
  <2>1. N + 1 \in 1..(N + 1) /\ ~(N + 1 <= N) /\ \A j \in 1..N : j # N + 1
    BY <2>0
  <2>2. \A j \in 1..N : p.stages[j].kind = "limited" => Nearest(p.stages, j) # from
    BY <2>1, OtherBehind
  <2>3. from \in 0..N
    <3>1. from \in 0..((N + 1) - 1)
      BY <2>1, NearestIs
    <3> QED BY <2>0, <3>1
  <2>4. pos \in [0..N -> Nat]
    BY <1>1 DEF Placed
  <2> QED BY <1>1, <2>2, <2>3, <2>4, CountedKeeps
<1> HIDE DEF buf2, snk2
<1>4. DataOK(p, buf2, src, snk2, tr)
  BY <1>2, <1>3 DEF DataOK
<1> QED BY <1>4 DEF buf2, snk2

-----------------------------------------------------------------------------
(* The text of a size, and the size in a text                               *)

LEMMA MinIs ==
  ASSUME NEW T, T \subseteq Nat, T # {}
  PROVE  Min(T) \in T /\ \A y \in T : Min(T) <= y
BY LeastNumber DEF Min

LEMMA Quotient ==
  ASSUME NEW x \in Nat
  PROVE  /\ x \div Base \in Nat /\ x % Base \in Nat
         /\ x > 0 => x \div Base < x
         /\ x = 0 => x \div Base = 0
<1>1. Base \in Nat /\ Base >= 2
  BY PipesAssumption
<1> DEFINE q == x \div Base
           r == x % Base
<1>2. q \in Int /\ r \in 0..(Base - 1) /\ x = Base * q + r
  BY <1>1
<1> HIDE DEF q, r
<1>3. q >= 0
  <2>1. ASSUME q < 0 PROVE FALSE
    <3>1. q <= -1 /\ Base * q <= -Base
      BY <1>1, <1>2, <2>1
    <3> QED BY <1>1, <1>2, <3>1
  <2> QED BY <1>2, <2>1
<1>4. x > 0 => q < x
  <2>1. ASSUME x > 0, q >= x PROVE FALSE
    <3>1. Base * q >= 2 * q
      BY <1>1, <1>2, <1>3
    <3> QED BY <1>1, <1>2, <1>3, <2>1, <3>1
  <2> QED BY <1>2, <2>1
<1>5. x = 0 => q = 0
  <2>1. ASSUME x = 0, q >= 1 PROVE FALSE
    <3>1. Base * q >= Base
      BY <1>1, <1>2, <2>1
    <3> QED BY <1>1, <1>2, <2>1, <3>1
  <2> QED BY <1>2, <1>3, <2>1
<1>6. q \in Nat /\ r \in Nat
  BY <1>2, <1>3
<1> QED BY <1>4, <1>5, <1>6 DEF q, r

\* left is n without its last digits.
Dividing(n, left) ==
  left = [k \in 0..(n + 1) |-> IF k = 0 THEN n ELSE left[k - 1] \div Base]

LEMMA DividingIs ==
  ASSUME NEW n \in Nat
  PROVE  \E left : Dividing(n, left)
<1> DEFINE step == [j \in 1..(n + 1) |-> [x \in Nat |-> x \div Base]]
<1>1. step \in [1..(n + 1) -> [Nat -> Nat]]
  BY Quotient
<1>2. \A j \in 1..(n + 1), x \in Nat : step[j][x] = x \div Base
  OBVIOUS
<1> HIDE DEF step
<1>3. n + 1 \in Nat
  OBVIOUS
<1>4. PICK f \in [0..(n + 1) -> Nat] : Stepping(n + 1, n, step, f)
  BY <1>1, <1>3, SteppingExists
<1>5. f[0] = n /\ \A k \in 1..(n + 1) : f[k] = step[k][f[k - 1]]
  BY <1>4 DEF Stepping
<1>6. \A k \in 0..(n + 1) : f[k] = IF k = 0 THEN n ELSE f[k - 1] \div Base
  <2> TAKE k \in 0..(n + 1)
  <2>1. CASE k = 0
    BY <1>5, <2>1
  <2>2. CASE k # 0
    <3>1. k \in 1..(n + 1) /\ f[k - 1] \in Nat
      BY <2>2
    <3> QED BY <1>2, <1>5, <2>2, <3>1
  <2> QED BY <2>1, <2>2
<1>7. f = [k \in 0..(n + 1) |-> IF k = 0 THEN n ELSE f[k - 1] \div Base]
  BY <1>4, <1>6
<1> QED BY <1>7 DEF Dividing

LEMMA DividingEnds ==
  ASSUME NEW n \in Nat, NEW left, Dividing(n, left)
  PROVE  (\A k \in 0..(n + 1) : left[k] \in Nat) /\ left[n + 1] = 0
<1>1. \A k \in 0..(n + 1) : left[k] = IF k = 0 THEN n ELSE left[k - 1] \div Base
  <2> DEFINE g == [k \in 0..(n + 1) |-> IF k = 0 THEN n ELSE left[k - 1] \div Base]
  <2>1. left = g
    BY DEF Dividing
  <2>2. \A k \in 0..(n + 1) : g[k] = IF k = 0 THEN n ELSE left[k - 1] \div Base
    OBVIOUS
  <2> HIDE DEF g
  <2>3. \A k \in 0..(n + 1) : left[k] = g[k]
    BY <2>1
  <2> QED BY <2>2, <2>3
<1> DEFINE T == {k \in 0..(n + 1) : left[k] \in Nat /\ (left[k] + k <= n \/ left[k] = 0)}
<1>2. 0 \in T
  <2>1. left[0] = n
    BY <1>1
  <2> QED BY <2>1
<1>3. ASSUME NEW k \in 1..(n + 1), k - 1 \in T PROVE k \in T
  <2> DEFINE x == left[k - 1]
  <2>1. x \in Nat /\ (x + (k - 1) <= n \/ x = 0) /\ k \in Nat
    BY <1>3
  <2>2. left[k] = x \div Base
    BY <1>1
  <2> HIDE DEF x
  <2>3. left[k] \in Nat /\ (x > 0 => left[k] < x) /\ (x = 0 => left[k] = 0)
    BY <2>1, <2>2, Quotient
  <2>4. left[k] + k <= n \/ left[k] = 0
    BY <2>1, <2>3
  <2> QED BY <2>3, <2>4
<1>4. \A k \in 0..(n + 1) : k \in T
  <2> HIDE DEF T
  <2>1. n + 1 \in Nat
    OBVIOUS
  <2> QED BY <1>2, <1>3, <2>1, UpTo
<1>5. left[n + 1] \in Nat /\ (left[n + 1] + (n + 1) <= n \/ left[n + 1] = 0)
  BY <1>4
<1> QED BY <1>4, <1>5

Framing(s) == s \in Seq(Byte) /\ \A j \in 1..Len(s) : ~IsData(s[j])

LEMMA FramingIs ==
  ASSUME NEW s, Framing(s)
  PROVE  s \in Seq(Byte) /\ DataOf(s) = <<>>
BY DataOfNothing DEF Framing

\* There are d digits: dividing n that often, and no less, leaves nothing.
DigitsAre(n, left, d) ==
  /\ Dividing(n, left) /\ d \in 1..(n + 1) /\ left[d] = 0
  /\ \A k \in 1..(n + 1) : left[k] = 0 => d <= k
  /\ Digits(n) \in Seq(Byte) /\ Len(Digits(n)) = d
  /\ \A j \in 1..d : Digits(n)[j] = <<"hex", left[d - j] % Base>>

LEMMA DigitsIs ==
  ASSUME NEW n \in Nat
  PROVE  \E left, d : DigitsAre(n, left, d)
<1> DEFINE left == CHOOSE f : Dividing(n, f)
           T == {k \in 1..(n + 1) : left[k] = 0}
           d == Min(T)
           s == [j \in 1..d |-> <<"hex", left[d - j] % Base>>]
<1>1. Dividing(n, left)
  BY DividingIs
<1>2. Digits(n) = s
  BY DEF Digits, Dividing
<1> HIDE DEF left
<1>3. (\A k \in 0..(n + 1) : left[k] \in Nat) /\ left[n + 1] = 0
  BY <1>1, DividingEnds
<1>4. d \in T /\ \A k \in T : d <= k
  <2>1. n + 1 \in 1..(n + 1)
    OBVIOUS
  <2>2. T \subseteq Nat /\ T \subseteq 1..(n + 1) /\ T # {}
    BY <1>3, <2>1
  <2> HIDE DEF T
  <2> QED BY <2>2, MinIs
<1>40. d \in 1..(n + 1) /\ left[d] = 0 /\ \A k \in 1..(n + 1) : left[k] = 0 => d <= k
  BY <1>4
<1> HIDE DEF d
<1>5. \A j \in 1..d : <<"hex", left[d - j] % Base>> \in Byte
  <2> TAKE j \in 1..d
  <2>1. d - j \in 0..(n + 1)
    BY <1>40
  <2>2. left[d - j] % Base \in Nat
    BY <1>3, <2>1, Quotient
  <2> QED BY <2>2 DEF Byte
<1>6. s \in Seq(Byte) /\ Len(s) = d /\ \A j \in 1..d : s[j] = <<"hex", left[d - j] % Base>>
  <2>1. d \in Nat
    BY <1>40
  <2>2. s \in [1..d -> Byte] /\ \A j \in 1..d : s[j] = <<"hex", left[d - j] % Base>>
    BY <1>5
  <2> HIDE DEF s
  <2>3. s \in Seq(Byte) /\ Len(s) = d
    BY <2>1, <2>2
  <2> QED BY <2>2, <2>3
<1> HIDE DEF s
<1>7. DigitsAre(n, left, d)
  BY <1>1, <1>2, <1>40, <1>6 DEF DigitsAre
<1> QED BY <1>7

LEMMA DigitsFraming ==
  ASSUME NEW n \in Nat
  PROVE  Framing(Digits(n))
<1>1. PICK left, d : DigitsAre(n, left, d)
  BY DigitsIs
<1>2. \A j \in 1..Len(Digits(n)) : ~IsData(Digits(n)[j])
  BY <1>1 DEF DigitsAre, IsData
<1> QED BY <1>1, <1>2 DEF Framing, DigitsAre

LEMMA FramingJoins ==
  ASSUME NEW s, NEW t, Framing(s), Framing(t)
  PROVE  Framing(s \o t)
<1>1. s \in Seq(Byte) /\ t \in Seq(Byte) /\ Len(s) \in Nat /\ Len(t) \in Nat
  BY DEF Framing
<1>2. /\ s \o t \in Seq(Byte) /\ Len(s \o t) = Len(s) + Len(t)
      /\ \A j \in 1..(Len(s) + Len(t)) :
           (s \o t)[j] = IF j <= Len(s) THEN s[j] ELSE t[j - Len(s)]
  BY <1>1, ConcatProperties
<1> DEFINE u == s \o t
<1> HIDE DEF u
<1>3. ASSUME NEW j \in 1..Len(u) PROVE ~IsData(u[j])
  <2>1. j \in 1..(Len(s) + Len(t))
    BY <1>2 DEF u
  <2>2. CASE j <= Len(s)
    <3>1. u[j] = s[j] /\ j \in 1..Len(s)
      BY <1>2, <2>1, <2>2 DEF u
    <3> QED BY <3>1 DEF Framing
  <2>3. CASE ~(j <= Len(s))
    <3>1. u[j] = t[j - Len(s)]
      BY <1>2, <2>1, <2>3 DEF u
    <3>2. j - Len(s) \in 1..Len(t)
      BY <1>1, <2>1, <2>3
    <3> QED BY <3>1, <3>2 DEF Framing
  <2> QED BY <2>2, <2>3
<1>4. u \in Seq(Byte)
  BY <1>2 DEF u
<1> QED BY <1>3, <1>4 DEF Framing, u

LEMMA EndFraming == Framing(<<CR, LF>>)
BY DEF Framing, CR, LF, Byte, IsData

LEMMA SizeTextFraming ==
  ASSUME NEW n \in Nat
  PROVE  Framing(SizeText(n))
<1> DEFINE whole == Digits(n) \o <<CR, LF>>
<1>1. Framing(whole)
  BY DigitsFraming, EndFraming, FramingJoins
<1>2. SizeText(n) = IF Len(whole) = MaxChunkSizeLength
                    THEN [whole EXCEPT ![Len(whole)] = NUL] ELSE whole
  BY DEF SizeText
<1> HIDE DEF whole
<1>3. CASE Len(whole) = MaxChunkSizeLength
  <2> DEFINE s == [whole EXCEPT ![Len(whole)] = NUL]
  <2>1. NUL \in Byte /\ ~IsData(NUL)
    BY DEF NUL, Byte, IsData
  <2>2. whole \in Seq(Byte) /\ \A j \in 1..Len(whole) : ~IsData(whole[j])
    BY <1>1 DEF Framing
  <2>3. s \in Seq(Byte) /\ Len(s) = Len(whole)
    <3>1. whole \in [1..Len(whole) -> Byte] /\ Len(whole) \in Nat
      BY <2>2
    <3>2. s \in [1..Len(whole) -> Byte]
      BY <2>1, <3>1
    <3> HIDE DEF s
    <3> QED BY <3>1, <3>2
  <2>4. \A j \in 1..Len(whole) : s[j] = NUL \/ s[j] = whole[j]
    BY <2>2
  <2> HIDE DEF s
  <2>5. Framing(s)
    BY <2>1, <2>2, <2>3, <2>4 DEF Framing
  <2> QED BY <1>2, <1>3, <2>5 DEF s
<1>4. CASE Len(whole) # MaxChunkSizeLength
  BY <1>1, <1>2, <1>4
<1> QED BY <1>3, <1>4

\* The parts of a text are frame, too.
LEMMA FramingCut ==
  ASSUME NEW s \in Seq(Byte), DataOf(s) = <<>>, NEW n \in 0..Len(s)
  PROVE  /\ DataOf(SubSeq(s, 1, n)) = <<>> /\ DataOf(SubSeq(s, n + 1, Len(s))) = <<>>
<1> DEFINE a == SubSeq(s, 1, n)
           b == SubSeq(s, n + 1, Len(s))
           x == DataOf(a)
           y == DataOf(b)
<1>1. a \in Seq(Byte) /\ b \in Seq(Byte) /\ s = a \o b
  BY Cut
<1>2. x \in Seq(Byte) /\ y \in Seq(Byte) /\ Len(x) \in Nat /\ Len(y) \in Nat
  BY <1>1, DataOfType
<1>3. DataOf(a \o b) = x \o y
  <2> HIDE DEF a, b
  <2> QED BY <1>1, DataOfJoin DEF DataJoins
<1>4. x \o y = <<>>
  BY <1>1, <1>3
<1> HIDE DEF x, y
<1>5. Len(x \o y) = Len(x) + Len(y)
  BY <1>2, ConcatProperties
<1>6. Len(x) = 0 /\ Len(y) = 0
  BY <1>2, <1>4, <1>5
<1>7. x = <<>> /\ y = <<>>
  BY <1>2, <1>6, EmptySeq
<1> QED BY <1>7 DEF x, y

\* The first n bytes are frame if each of them is.
LEMMA FramingFirst ==
  ASSUME NEW s \in Seq(Byte), NEW n \in 0..Len(s), \A j \in 1..n : ~IsData(s[j])
  PROVE  DataOf(SubSeq(s, 1, n)) = <<>>
<1> DEFINE t == SubSeq(s, 1, n)
<1>1. t \in Seq(Byte) /\ Len(t) = n
  BY Cut
<1>2. \A j \in 1..n : t[j] = s[j]
  <2> TAKE j \in 1..n
  <2> QED OBVIOUS
<1> HIDE DEF t
<1>3. Framing(t)
  BY <1>1, <1>2 DEF Framing
<1> QED BY <1>3, FramingIs DEF t

\* The number in a text.
Numbering(w, s, k, f) ==
  f = [j \in 0..k |-> IF j = 0 THEN w ELSE f[j - 1] * Base + s[j][2]]

NumberAt(w, s, k, number) ==
  /\ number[0] = w /\ \A j \in 0..k : number[j] \in Nat
  /\ \A j \in 1..k : number[j] = number[j - 1] * Base + s[j][2]

LEMMA NumberSteps ==
  ASSUME NEW w \in Nat, NEW s \in Seq(Byte), NEW k \in 0..Len(s)
  PROVE  NumberAt(w, s, k, CHOOSE f : Numbering(w, s, k, f))
<1> DEFINE step == [j \in 1..k |-> [x \in Nat |-> x * Base + s[j][2]]]
           number == CHOOSE f : Numbering(w, s, k, f)
<1>0. Base \in Nat /\ k \in Nat
  BY PipesAssumption
<1>1. \A j \in 1..k : s[j][2] \in Nat
  <2> TAKE j \in 1..k
  <2>1. s[j] \in Byte
    BY <1>0
  <2> QED BY <2>1 DEF Byte
<1>2. step \in [1..k -> [Nat -> Nat]]
  <2>1. \A j \in 1..k, x \in Nat : x * Base + s[j][2] \in Nat
    BY <1>0, <1>1
  <2> QED BY <2>1
<1>3. \A j \in 1..k, x \in Nat : step[j][x] = x * Base + s[j][2]
  OBVIOUS
<1> HIDE DEF step
<1>4. PICK f \in [0..k -> Nat] : Stepping(k, w, step, f)
  BY <1>0, <1>2, SteppingExists
<1>5. f[0] = w /\ \A j \in 1..k : f[j] = step[j][f[j - 1]]
  BY <1>4 DEF Stepping
<1>6. \A j \in 0..k : f[j] = IF j = 0 THEN w ELSE f[j - 1] * Base + s[j][2]
  <2> TAKE j \in 0..k
  <2>1. CASE j = 0
    BY <1>5, <2>1
  <2>2. CASE j # 0
    <3>1. j \in 1..k /\ f[j - 1] \in Nat
      BY <1>0, <2>2
    <3> QED BY <1>3, <1>5, <2>2, <3>1
  <2> QED BY <2>1, <2>2
<1>7. Numbering(w, s, k, f)
  <2>1. f = [j \in 0..k |-> IF j = 0 THEN w ELSE f[j - 1] * Base + s[j][2]]
    BY <1>4, <1>6
  <2> QED BY <2>1 DEF Numbering
<1>8. Numbering(w, s, k, number)
  BY <1>7
<1> HIDE DEF number
<1>9. \A j \in 0..k : number[j] = IF j = 0 THEN w ELSE number[j - 1] * Base + s[j][2]
  <2> DEFINE g == [j \in 0..k |-> IF j = 0 THEN w ELSE number[j - 1] * Base + s[j][2]]
  <2>1. number = g
    BY <1>8 DEF Numbering
  <2>2. \A j \in 0..k : g[j] = IF j = 0 THEN w ELSE number[j - 1] * Base + s[j][2]
    OBVIOUS
  <2> HIDE DEF g
  <2>3. \A j \in 0..k : number[j] = g[j]
    BY <2>1
  <2> QED BY <2>2, <2>3
<1> DEFINE T == {j \in 0..k : number[j] \in Nat}
<1>10. 0 \in T
  <2>1. number[0] = w
    BY <1>0, <1>9
  <2> QED BY <1>0, <2>1
<1>11. ASSUME NEW j \in 1..k, j - 1 \in T PROVE j \in T
  <2>1. number[j - 1] \in Nat /\ j \in 0..k /\ j # 0
    BY <1>0, <1>11
  <2>2. number[j] = number[j - 1] * Base + s[j][2]
    BY <1>9, <2>1
  <2>3. number[j - 1] * Base \in Nat
    BY <1>0, <2>1
  <2>4. s[j][2] \in Nat
    BY <1>1
  <2> HIDE DEF T
  <2>5. number[j] \in Nat
    BY <2>2, <2>3, <2>4
  <2> QED BY <2>1, <2>5 DEF T
<1>12. \A j \in 0..k : j \in T
  <2> HIDE DEF T
  <2> QED BY <1>0, <1>10, <1>11, UpTo
<1>13. number[0] = w /\ \A j \in 1..k : number[j] = number[j - 1] * Base + s[j][2]
  BY <1>0, <1>9
<1>14. \A j \in 0..k : number[j] \in Nat
  BY <1>12
<1>15. NumberAt(w, s, k, number)
  BY <1>13, <1>14 DEF NumberAt
<1> QED BY <1>15 DEF number

LEMMA NumberIs ==
  ASSUME NEW w \in Nat, NEW s \in Seq(Byte), NEW k \in 0..Len(s)
  PROVE  (CHOOSE f : Numbering(w, s, k, f))[k] \in Nat
<1>1. k \in 0..k
  OBVIOUS
<1> QED BY <1>1, NumberSteps DEF NumberAt

-----------------------------------------------------------------------------
(* The variables                                                            *)

\* What is behind stage i, and in its buffer.
LEMMA Here ==
  ASSUME Inv, NEW i \in Stages
  PROVE  /\ plan \in Plans /\ End = Len(plan.stages) /\ End \in Nat \ {0}
         /\ i \in 1..Len(plan.stages) /\ i \in 1..(Len(plan.stages) + 1)
         /\ NearestIn(i) = Nearest(plan.stages, i)
         /\ size(i) = plan.stages[i].size /\ kind(i) = plan.stages[i].kind
         /\ HasBuffer(i) <=> Has(plan, i)
         /\ buffer[i] \in Buffer /\ buffer[i].data \in Seq(Byte) /\ Len(buffer[i].data) \in Nat
         /\ room(buffer[i], size(i)) \in Nat
<1>1. plan \in Plans /\ BuffersOK(plan, buffer, source, sink)
  BY DEF Inv
<1>2. End = Len(plan.stages) /\ End \in Nat \ {0}
  BY <1>1, PlanIs DEF End
<1>3. i \in 1..Len(plan.stages) /\ i \in 1..(Len(plan.stages) + 1)
  BY <1>2 DEF Stages
<1>4. NearestIn(i) = Nearest(plan.stages, i)
  BY DEF NearestIn, Nearest, HasBuffer, size
<1>5. size(i) = plan.stages[i].size /\ kind(i) = plan.stages[i].kind
  BY DEF size, kind
<1>6. HasBuffer(i) <=> Has(plan, i)
  BY DEF HasBuffer, Has, size
<1>7. buffer[i] \in Buffer /\ BufferOK(buffer[i], plan.stages[i].size)
  BY <1>1, <1>3 DEF BuffersOK, Filled
<1>8. buffer[i].data \in Seq(Byte) /\ Len(buffer[i].data) \in Nat /\ buffer[i].gap \in Nat
  BY <1>7 DEF Buffer
<1>9. plan.stages[i].size \in Nat
  BY <1>1, <1>3, StageIs
<1>10. room(buffer[i], size(i)) \in Nat
  <2> DEFINE b == buffer[i]
             z == plan.stages[i].size
             l == Len(b.data)
  <2>1. b.gap + l <= z /\ l \in Nat /\ b.gap \in Nat /\ z \in Nat
    BY <1>7, <1>8, <1>9 DEF BufferOK
  <2>2. room(buffer[i], size(i)) = z - b.gap - l
    BY <1>5 DEF room
  <2> HIDE DEF b, z, l
  <2>3. z - b.gap - l \in Nat
    BY <2>1
  <2> QED BY <2>2, <2>3
<1> QED BY <1>1, <1>2, <1>3, <1>4, <1>5, <1>6, <1>7, <1>8, <1>10

LEMMA Before ==
  ASSUME Inv, NEW i \in Stages, i > 1
  PROVE  /\ NearestIn(i) \in Stages /\ NearestIn(i) # i /\ NearestIn(i) > 0
         /\ i \in 2..Len(plan.stages)
<1>1. /\ plan \in Plans /\ End = Len(plan.stages) /\ End \in Nat \ {0}
      /\ i \in 1..Len(plan.stages) /\ i \in 1..(Len(plan.stages) + 1)
      /\ NearestIn(i) = Nearest(plan.stages, i)
  BY Here
<1>2. Nearest(plan.stages, i) \in 0..(i - 1) /\ Nearest(plan.stages, i) >= 1
  BY <1>1, NearestIs
<1> QED BY <1>1, <1>2 DEF Stages

\* What moves to stage i is in the nearest buffer, and there is room for it.
LEMMA MovedIs ==
  ASSUME Inv, NEW i \in Stages, NEW j \in Stages, NEW max \in Nat
  PROVE  /\ Moved(buffer[j], i, max) \in 0..Len(buffer[j].data)
         /\ Moved(buffer[j], i, max) <= room(buffer[i], size(i))
         /\ Moved(buffer[j], i, max) <= max
<1>1. Len(buffer[j].data) \in Nat /\ room(buffer[i], size(i)) \in Nat
  BY Here
<1> DEFINE T == {Len(buffer[j].data), room(buffer[i], size(i)), max}
<1>2. T \subseteq Nat /\ T # {}
  BY <1>1
<1>3. Min(T) \in T /\ \A y \in T : Min(T) <= y
  <2> HIDE DEF T
  <2> QED BY <1>2, MinIs
<1>4. Moved(buffer[j], i, max) = Min(T)
  BY DEF Moved
<1> DEFINE m == Min(T)
<1>5. m \in Nat /\ m <= Len(buffer[j].data) /\ m <= room(buffer[i], size(i)) /\ m <= max
  BY <1>1, <1>2, <1>3
<1> HIDE DEF m
<1>6. Moved(buffer[j], i, max) = m
  BY <1>4 DEF m
<1> QED BY <1>1, <1>5, <1>6

LEMMA LeastOfTwo ==
  ASSUME NEW a \in Nat, NEW b \in Nat
  PROVE  Min({a, b}) \in Nat /\ Min({a, b}) <= a /\ Min({a, b}) <= b
BY MinIs

\* The move of n bytes to a stage that does not count them.
LEMMA MoveIs ==
  ASSUME Inv, NEW i \in Stages, i > 1, HasBuffer(i),
         NEW n \in 0..Len(buffer[NearestIn(i)].data), n <= room(buffer[i], size(i))
  PROVE  /\ BuffersOK(plan, Move(NearestIn(i), i, n), source, sink)
         /\ kind(i) # "limited" =>
              DataOK(plan, Move(NearestIn(i), i, n), source, sink, transferred)
         /\ DataOK(plan, Move(NearestIn(i), i, n), source, sink,
                   [transferred EXCEPT ![i] = @ + n]) \/ kind(i) # "limited"
<1> DEFINE from == NearestIn(i)
<1>1. /\ plan \in Plans /\ i \in 1..Len(plan.stages)
      /\ from = Nearest(plan.stages, i) /\ Has(plan, i)
      /\ size(i) = plan.stages[i].size /\ kind(i) = plan.stages[i].kind
  BY Here
<1>2. from \in 1..Len(plan.stages) /\ from # i /\ i \in 2..Len(plan.stages)
  BY Before DEF Stages
<1>3. /\ BuffersOK(plan, buffer, source, sink)
      /\ DataOK(plan, buffer, source, sink, transferred) /\ CountsOK(plan, transferred)
  BY DEF Inv
<1> HIDE DEF from
<1>4. n \in 0..Len(buffer[from].data) /\ n <= room(buffer[i], plan.stages[i].size)
  BY <1>1 DEF from
<1>5. BuffersOK(plan, Move(from, i, n), source, sink)
  BY <1>1, <1>2, <1>3, <1>4, MoveBuffers DEF Move
<1>6. kind(i) # "limited" => DataOK(plan, Move(from, i, n), source, sink, transferred)
  BY <1>1, <1>2, <1>3, <1>4, MoveData DEF Move
<1>7. kind(i) = "limited" => DataOK(plan, Move(from, i, n), source, sink,
                                    [transferred EXCEPT ![i] = @ + n])
  BY <1>1, <1>2, <1>3, <1>4, MoveCounted DEF Move
<1> QED BY <1>5, <1>6, <1>7 DEF from

\* copyFromNearest.
LEMMA CopiedIs ==
  ASSUME Inv, NEW i \in Stages, kind(i) # "limited"
  PROVE  /\ BuffersOK(plan, Copied(i), source, sink)
         /\ DataOK(plan, Copied(i), source, sink, transferred)
<1> DEFINE from == NearestIn(i)
           n == Moved(buffer[from], i, Len(buffer[from].data))
<1>1. CASE HasBuffer(i) /\ from > 0
  <2>1. i > 1
    <3>1. i \in Nat /\ i >= 1
      BY Here
    <3>2. i = 1 => from = 0
      <4>1. from \in 0..(i - 1)
        BY Here, NearestIs
      <4> QED BY <4>1
    <3> QED BY <1>1, <3>1, <3>2
  <2>2. from \in Stages
    BY <2>1, Before
  <2> HIDE DEF from
  <2>3. Len(buffer[from].data) \in Nat
    BY <2>2, Here
  <2>4. n \in 0..Len(buffer[from].data) /\ n <= room(buffer[i], size(i))
    BY <2>2, <2>3, MovedIs
  <2>5. Copied(i) = Move(from, i, n)
    BY <1>1 DEF Copied, from
  <2> HIDE DEF n
  <2> QED BY <1>1, <2>1, <2>4, <2>5, MoveIs DEF from
<1>2. CASE ~(HasBuffer(i) /\ from > 0)
  <2>1. Copied(i) = buffer
    BY <1>2 DEF Copied
  <2> QED BY <2>1 DEF Inv
<1> QED BY <1>1, <1>2

\* Other data in the source or the sink.
LEMMA OtherEnds ==
  ASSUME NEW p \in Plans, NEW buf, NEW src, NEW snk, BuffersOK(p, buf, src, snk),
         NEW src2 \in Seq(Byte), NEW snk2 \in Seq(Byte),
         snk2 = snk \/ p.stages[Len(p.stages)].kind \in Writing
  PROVE  BuffersOK(p, buf, src2, snk2)
BY DEF BuffersOK, Filled

\* One stage, or none, is entered in the records of the pass.
LEMMA StatusKeeps ==
  ASSUME Inv, NEW i \in Stages, plan' = plan,
         at' \in {0, i} \/ (i # End /\ at' = i + 1),
         empty' = empty \/ empty' = empty \cup {i},
         error' = error \/ error' = error \cup {i}
  PROVE  StatusOK(plan', at', empty', error')
<1>1. StatusOK(plan, at, empty, error)
  BY DEF Inv
<1>2. End = Len(plan.stages) /\ End \in Nat \ {0} /\ i \in 1..Len(plan.stages)
  BY Here
<1>3. at' \in 0..Len(plan.stages)
  BY <1>2
<1>4. empty' \subseteq 1..Len(plan.stages) /\ error' \subseteq 1..Len(plan.stages)
  BY <1>1, <1>2 DEF StatusOK
<1> QED BY <1>3, <1>4 DEF StatusOK

LEMMA ContinuesIs ==
  ASSUME Inv, NEW i \in Stages, plan' = plan, Continues(i)
  PROVE  StatusOK(plan', at', empty', error')
BY StatusKeeps DEF Continues

-----------------------------------------------------------------------------
(* The steps                                                                *)

LEMMA Kept ==
  ASSUME plan \in Plans, plan' = plan,
         StatusOK(plan', at', empty', error'),
         BuffersOK(plan, buffer', source', sink'),
         ChunksOK(plan, chunk'), CountsOK(plan, transferred'),
         DataOK(plan, buffer', source', sink', transferred')
  PROVE  Inv'
BY DEF Inv

\* What a stage that leaves its chunk and its count alone has to show.
LEMMA Moves ==
  ASSUME Inv, NEW i \in Stages, UNCHANGED <<plan, transferred, chunk>>,
         StatusOK(plan', at', empty', error'),
         BuffersOK(plan, buffer', source', sink'),
         DataOK(plan, buffer', source', sink', transferred)
  PROVE  Inv'
<1>1. plan \in Plans /\ ChunksOK(plan, chunk) /\ CountsOK(plan, transferred)
  BY DEF Inv
<1>2. plan' = plan /\ chunk' = chunk /\ transferred' = transferred
  OBVIOUS
<1> QED BY <1>1, <1>2, Kept

LEMMA KeepsNull ==
  ASSUME Inv, NEW i \in Stages, NullStage(i)
  PROVE  Inv'
<1>1. /\ kind(i) = "null" /\ buffer' = Copied(i)
      /\ UNCHANGED <<plan, source, sink, transferred, chunk>>
  BY DEF NullStage, Turn
<1>2. StatusOK(plan', at', empty', error')
  BY <1>1, StatusKeeps DEF NullStage, After
<1>3. /\ BuffersOK(plan, Copied(i), source, sink)
      /\ DataOK(plan, Copied(i), source, sink, transferred)
  BY <1>1, CopiedIs
<1>4. plan' = plan /\ source' = source /\ sink' = sink
  BY <1>1
<1> QED BY <1>1, <1>2, <1>3, <1>4, Moves

LEMMA KeepsIn ==
  ASSUME Inv, NEW i \in Stages, InStage(i)
  PROVE  Inv'
<1> DEFINE r == room(buffer[i], size(i))
           most == Min({r, Len(source)})
<1>1. kind(i) \in Reading /\ UNCHANGED <<plan, sink, transferred, chunk>>
  BY DEF InStage, Turn
<1>2. PICK n \in (IF kind(i) = "file_in" THEN {most} ELSE 0..most) :
        /\ buffer' = [buffer EXCEPT ![i] = Put(@, SubSeq(source, 1, n))]
        /\ source' = SubSeq(source, n + 1, Len(source))
        /\ After(i, n = 0 /\ kind(i) = "ssl_in" /\ room(buffer[i], size(i)) > 0, FALSE)
  BY DEF InStage
<1>3. StatusOK(plan', at', empty', error')
  BY <1>1, <1>2, StatusKeeps DEF After
<1>4. /\ plan \in Plans /\ BuffersOK(plan, buffer, source, sink)
      /\ DataOK(plan, buffer, source, sink, transferred)
      /\ source \in Seq(Byte) /\ sink \in Seq(Byte) /\ Len(source) \in Nat
  BY DEF Inv, BuffersOK, Filled
<1>5. /\ i \in 1..Len(plan.stages) /\ r \in Nat
      /\ size(i) = plan.stages[i].size /\ kind(i) = plan.stages[i].kind
  BY Here
<1>6. i = 1
  BY <1>1, <1>4, <1>5, StageIs
<1>7. most \in Nat /\ most <= r /\ most <= Len(source)
  BY <1>4, <1>5, LeastOfTwo
<1> HIDE DEF most, r
<1>8. n \in 0..Len(source) /\ n <= r /\ n \in Nat
  <2>1. n = most \/ n \in 0..most
    BY <1>2
  <2> QED BY <1>4, <1>5, <1>7, <2>1
<1>9. /\ SubSeq(source, 1, n) \in Seq(Byte) /\ Len(SubSeq(source, 1, n)) = n
      /\ SubSeq(source, n + 1, Len(source)) \in Seq(Byte)
  BY <1>4, <1>8, Cut
<1> DEFINE buf2 == [buffer EXCEPT ![i] = Put(@, SubSeq(source, 1, n))]
           src2 == SubSeq(source, n + 1, Len(source))
<1>10. DataOK(plan, buf2, src2, sink, transferred)
  BY <1>4, <1>6, <1>8, ReadData
<1>11. BuffersOK(plan, buf2, source, sink)
  <2>1. Len(SubSeq(source, 1, n)) <= room(buffer[i], plan.stages[i].size)
    BY <1>5, <1>8, <1>9 DEF r
  <2> QED BY <1>4, <1>5, <1>9, <2>1, PutOK
<1>12. buffer' = buf2 /\ source' = src2 /\ sink' = sink
  BY <1>1, <1>2
<1>13. src2 \in Seq(Byte)
  BY <1>9
<1> HIDE DEF buf2, src2
<1>14. BuffersOK(plan, buf2, src2, sink)
  BY <1>4, <1>11, <1>13, OtherEnds
<1> QED BY <1>1, <1>3, <1>10, <1>12, <1>14, Moves

LEMMA KeepsInFails ==
  ASSUME Inv, NEW i \in Stages, InFails(i)
  PROVE  Inv'
<1>1. UNCHANGED <<plan, buffer, source, sink, transferred, chunk>>
  BY DEF InFails
<1>2. StatusOK(plan', at', empty', error')
  BY <1>1, StatusKeeps DEF InFails, After
<1>3. /\ BuffersOK(plan, buffer, source, sink)
      /\ DataOK(plan, buffer, source, sink, transferred)
  BY DEF Inv
<1>4. buffer' = buffer /\ source' = source /\ sink' = sink
  BY <1>1
<1> QED BY <1>1, <1>2, <1>3, <1>4, Moves

\* The buffer that a stage writes from is the last one.
LEMMA LastBuffer ==
  ASSUME Inv, NEW i \in Stages, kind(i) \in Writing
  PROVE  LET b == IF HasBuffer(i) THEN i ELSE NearestIn(i)
         IN b = Nearest(plan.stages, Len(plan.stages) + 1) /\ b \in Stages
<1> DEFINE N == Len(plan.stages)
           m == Nearest(plan.stages, N + 1)
<1>1. /\ plan \in Plans /\ N \in Nat \ {0} /\ End = N /\ i \in 1..N /\ i \in 1..(N + 1)
      /\ NearestIn(i) = Nearest(plan.stages, i)
      /\ kind(i) = plan.stages[i].kind /\ (HasBuffer(i) <=> Has(plan, i))
  BY Here
<1>2. i = N /\ i > 1
  <2>1. /\ plan.stages[i].kind \in Writing => i = N
        /\ plan.stages[i].kind \notin Reading \cup {"null"} => i > 1
    BY <1>1, StageIs
  <2>2. plan.stages[i].kind \notin Reading \cup {"null"}
    BY <1>1 DEF Writing, Reading
  <2> QED BY <1>1, <2>1, <2>2
<1>3. /\ m \in 0..N /\ m >= 1 /\ Has(plan, m)
      /\ \A j \in 1..N : Has(plan, j) => j <= m
  <2>1. N + 1 \in 1..(N + 1) /\ N + 1 > 1 /\ (N + 1) - 1 = N
    BY <1>1
  <2>2. /\ m \in 0..((N + 1) - 1) /\ m >= 1 /\ (m > 0 => plan.stages[m].size > 0)
        /\ \A j \in 1..((N + 1) - 1) : plan.stages[j].size > 0 => j <= m
    BY <1>1, <2>1, NearestIs
  <2> QED BY <2>1, <2>2 DEF Has
<1> HIDE DEF m
<1>4. CASE HasBuffer(i)
  BY <1>1, <1>2, <1>3, <1>4 DEF m, Stages
<1>5. CASE ~HasBuffer(i)
  <2> DEFINE k == Nearest(plan.stages, i)
  <2>1. m # i /\ m \in 1..(i - 1)
    <3>1. m # i
      BY <1>1, <1>3, <1>5
    <3> QED BY <1>2, <1>3, <3>1
  <2>2. k \in 0..(i - 1) /\ m <= k /\ k >= 1 /\ (k > 0 => Has(plan, k))
    BY <1>1, <1>2, <1>3, <2>1, NearestIs DEF Has
  <2> HIDE DEF k
  <2>3. k \in 1..N /\ Has(plan, k)
    BY <1>2, <2>2
  <2>4. k <= m
    BY <1>3, <2>3
  <2>5. k = m
    BY <2>1, <2>2, <2>4
  <2> QED BY <1>1, <1>5, <2>3, <2>5 DEF k, m, Stages
<1> QED BY <1>4, <1>5

LEMMA KeepsOut ==
  ASSUME Inv, NEW i \in Stages, OutStage(i)
  PROVE  Inv'
<1> DEFINE b == IF HasBuffer(i) THEN i ELSE NearestIn(i)
           buf == Copied(i)
           all == Len(buf[b].data)
<1>1. kind(i) \in Writing /\ UNCHANGED <<plan, source, transferred, chunk>>
  BY DEF OutStage, Turn
<1>2. PICK n \in (IF kind(i) = "file_out" \/ all = 0 THEN {all} ELSE 1..all) :
        /\ buffer' = [buf EXCEPT ![b] = Drop(@, n)]
        /\ sink' = sink \o SubSeq(buf[b].data, 1, n)
        /\ After(i, FALSE, FALSE)
  BY DEF OutStage
<1>3. StatusOK(plan', at', empty', error')
  BY <1>1, <1>2, StatusKeeps DEF After
<1>4. kind(i) # "limited"
  BY <1>1 DEF Writing
<1>5. plan \in Plans /\ source \in Seq(Byte) /\ sink \in Seq(Byte)
  BY DEF Inv, BuffersOK, Filled
<1>6. BuffersOK(plan, buf, source, sink) /\ DataOK(plan, buf, source, sink, transferred)
  BY <1>4, CopiedIs
<1>7. b = Nearest(plan.stages, Len(plan.stages) + 1) /\ b \in 1..Len(plan.stages)
  BY <1>1, LastBuffer DEF Stages, End
<1> HIDE DEF b, buf
<1>8. buf[b].data \in Seq(Byte) /\ all \in Nat
  BY <1>6, <1>7 DEF BuffersOK, Filled, Buffer
<1>9. n \in 0..Len(buf[b].data)
  BY <1>2, <1>8
<1>10. /\ BuffersOK(plan, [buf EXCEPT ![b] = Drop(@, n)], source, sink)
       /\ DataOK(plan, [buf EXCEPT ![b] = Drop(@, n)], source,
                 sink \o SubSeq(buf[b].data, 1, n), transferred)
  BY <1>5, <1>6, <1>7, <1>9, DropOK, WriteData
<1>11. sink \o SubSeq(buf[b].data, 1, n) \in Seq(Byte)
  <2>1. SubSeq(buf[b].data, 1, n) \in Seq(Byte)
    BY <1>8, <1>9, Cut
  <2> QED BY <1>5, <2>1, ConcatProperties
<1>12. plan.stages[Len(plan.stages)].kind \in Writing
  <2>1. kind(i) = plan.stages[i].kind /\ i \in 1..Len(plan.stages)
    BY Here
  <2> QED BY <1>1, <1>5, <2>1, StageIs
<1> DEFINE buf2 == [buf EXCEPT ![b] = Drop(@, n)]
           snk2 == sink \o SubSeq(buf[b].data, 1, n)
<1>13. buffer' = buf2 /\ sink' = snk2 /\ source' = source
  BY <1>1, <1>2
<1>14. /\ BuffersOK(plan, buf2, source, sink) /\ snk2 \in Seq(Byte)
       /\ DataOK(plan, buf2, source, snk2, transferred)
  BY <1>10, <1>11
<1> HIDE DEF buf2, snk2
<1>15. BuffersOK(plan, buf2, source, snk2)
  BY <1>5, <1>12, <1>14, OtherEnds
<1> QED BY <1>1, <1>3, <1>13, <1>14, <1>15, Moves

LEMMA KeepsOutFails ==
  ASSUME Inv, NEW i \in Stages, OutFails(i)
  PROVE  Inv'
<1>1. /\ kind(i) \in Writing /\ buffer' = Copied(i)
      /\ UNCHANGED <<plan, source, sink, transferred, chunk>>
  BY DEF OutFails, Turn
<1>2. StatusOK(plan', at', empty', error')
  BY <1>1, StatusKeeps DEF OutFails, After
<1>3. kind(i) # "limited"
  BY <1>1 DEF Writing
<1>4. /\ BuffersOK(plan, Copied(i), source, sink)
      /\ DataOK(plan, Copied(i), source, sink, transferred)
  BY <1>3, CopiedIs
<1>5. plan' = plan /\ source' = source /\ sink' = sink
  BY <1>1
<1> QED BY <1>1, <1>2, <1>4, <1>5, Moves

LEMMA KeepsLimited ==
  ASSUME Inv, NEW i \in Stages, LimitedStage(i)
  PROVE  Inv'
<1> DEFINE from == NearestIn(i)
           left == plan.stages[i].n - transferred[i]
           n == Moved(buffer[from], i, left)
<1>1. /\ kind(i) = "limited" /\ buffer' = Move(from, i, n)
      /\ transferred' = [transferred EXCEPT ![i] = @ + n]
      /\ UNCHANGED <<plan, source, sink, chunk>>
  BY DEF LimitedStage, Turn
<1>2. StatusOK(plan', at', empty', error')
  BY <1>1, StatusKeeps DEF LimitedStage, After
<1>3. /\ plan \in Plans /\ i \in 1..Len(plan.stages) /\ kind(i) = plan.stages[i].kind
      /\ (HasBuffer(i) <=> Has(plan, i))
  BY Here
<1>4. i > 1 /\ HasBuffer(i) /\ plan.stages[i].n \in Nat
  BY <1>1, <1>3, LimitedIs, StageIs
<1>5. ChunksOK(plan, chunk) /\ CountsOK(plan, transferred)
  BY DEF Inv
<1>6. left \in Nat /\ transferred[i] \in Nat
  BY <1>1, <1>3, <1>4, <1>5 DEF CountsOK
<1>7. from \in Stages /\ Len(buffer[from].data) \in Nat
  <2>1. from \in Stages
    BY <1>4, Before
  <2> QED BY <2>1, Here
<1> HIDE DEF left
<1>8. n \in 0..Len(buffer[from].data) /\ n <= room(buffer[i], size(i)) /\ n <= left
  BY <1>6, <1>7, MovedIs
<1> HIDE DEF n
<1>9. /\ BuffersOK(plan, Move(from, i, n), source, sink)
      /\ DataOK(plan, Move(from, i, n), source, sink, [transferred EXCEPT ![i] = @ + n])
  BY <1>1, <1>4, <1>8, MoveIs
<1>10. CountsOK(plan, transferred')
  <2>1. n \in Nat /\ transferred[i] + n <= plan.stages[i].n
    BY <1>4, <1>6, <1>7, <1>8 DEF left
  <2>2. transferred \in [1..Len(plan.stages) -> Nat]
    BY <1>5 DEF CountsOK
  <2>3. /\ transferred' \in [1..Len(plan.stages) -> Nat]
        /\ transferred'[i] = transferred[i] + n
        /\ \A j \in 1..Len(plan.stages) : j # i => transferred'[j] = transferred[j]
    BY <1>1, <1>3, <1>6, <2>1, <2>2
  <2> QED BY <1>5, <2>1, <2>3 DEF CountsOK
<1>11. plan' = plan /\ source' = source /\ sink' = sink /\ chunk' = chunk
  BY <1>1
<1> QED BY <1>1, <1>2, <1>3, <1>5, <1>9, <1>10, <1>11, Kept

\* A chunk stage is entered with what it has still to do.
LEMMA ChunkSet ==
  ASSUME Inv, NEW i \in Stages, NEW c, ChunkOK(c)
  PROVE  ChunksOK(plan, [chunk EXCEPT ![i] = c])
<1>1. ChunksOK(plan, chunk) /\ i \in 1..Len(plan.stages)
  BY DEF Inv, Stages, End
<1> DEFINE ch == [chunk EXCEPT ![i] = c]
<1>2. /\ ch \in [1..Len(plan.stages) -> Chunk] /\ ch[i] = c
      /\ \A j \in 1..Len(plan.stages) : j # i => ch[j] = chunk[j]
  BY <1>1 DEF ChunksOK, ChunkOK
<1> HIDE DEF ch
<1>3. ChunksOK(plan, ch)
  BY <1>1, <1>2 DEF ChunksOK
<1> QED BY <1>3 DEF ch

LEMMA ChunkIs ==
  ASSUME Inv, NEW i \in Stages
  PROVE  /\ chunk[i] \in Chunk /\ chunk[i].state \in ChunkStates
         /\ chunk[i].text \in Seq(Byte) /\ DataOf(chunk[i].text) = <<>>
         /\ chunk[i].left \in Nat /\ chunk[i].wanted \in Nat
         /\ chunk[i].left <= chunk[i].wanted
         /\ chunk[i].state = "next" => chunk[i].left = 0
<1>1. ChunksOK(plan, chunk) /\ i \in 1..Len(plan.stages)
  BY DEF Inv, Stages, End
<1>2. ChunkOK(chunk[i])
  BY <1>1 DEF ChunksOK
<1> QED BY <1>2 DEF ChunkOK, Chunk

\* A chunk stage: the plan, the source, the sink and the counts stay.
LEMMA ChunkStage ==
  ASSUME Inv, UNCHANGED Encoding,
         StatusOK(plan', at', empty', error'),
         BuffersOK(plan, buffer', source, sink),
         DataOK(plan, buffer', source, sink, transferred),
         ChunksOK(plan, chunk')
  PROVE  Inv'
<1>1. plan \in Plans /\ CountsOK(plan, transferred)
  BY DEF Inv
<1>2. plan' = plan /\ source' = source /\ sink' = sink /\ transferred' = transferred
  BY DEF Encoding
<1> QED BY <1>1, <1>2, Kept

LEMMA ChunkStays ==
  ASSUME Inv, UNCHANGED <<Encoding, buffer, chunk>>,
         StatusOK(plan', at', empty', error')
  PROVE  Inv'
<1>1. /\ BuffersOK(plan, buffer, source, sink)
      /\ DataOK(plan, buffer, source, sink, transferred) /\ ChunksOK(plan, chunk)
  BY DEF Inv
<1>2. UNCHANGED Encoding /\ buffer' = buffer /\ chunk' = chunk
  OBVIOUS
<1> QED BY <1>1, <1>2, ChunkStage

LEMMA ChunkKind ==
  ASSUME Inv, NEW i \in Stages, kind(i) \in {"encode"} \cup Decoding
  PROVE  i > 1 /\ HasBuffer(i) /\ kind(i) # "limited" /\ NearestIn(i) \in Stages
<1>1. /\ plan \in Plans /\ i \in 1..Len(plan.stages) /\ kind(i) = plan.stages[i].kind
      /\ (HasBuffer(i) <=> Has(plan, i))
  BY Here
<1>2. kind(i) \notin Reading \cup {"null"} /\ kind(i) \notin Writing \cup {"null"}
      /\ kind(i) # "limited"
  BY DEF Decoding, Reading, Writing
<1>3. i > 1 /\ HasBuffer(i)
  BY <1>1, <1>2, StageIs
<1> QED BY <1>2, <1>3, Before

LEMMA PlanStays ==
  ASSUME UNCHANGED Encoding
  PROVE  plan' = plan
BY DEF Encoding

LEMMA KeepsEncodeSize ==
  ASSUME Inv, NEW i \in Stages, EncodeSize(i)
  PROVE  Inv'
<1> DEFINE from == NearestIn(i)
           n == Min({Len(buffer[from].data), plan.stages[i].n})
<1>1. /\ kind(i) = "encode" /\ UNCHANGED Encoding /\ buffer' = buffer
      /\ IF Len(SizeText(n)) > MaxChunkSizeLength
         THEN After(i, TRUE, FALSE) /\ UNCHANGED chunk
         ELSE /\ chunk' = [chunk EXCEPT ![i] = [state |-> "hex", text |-> SizeText(n),
                                                left |-> n, wanted |-> n]]
              /\ Continues(i)
  BY DEF EncodeSize, Encodes, Turn
<1>2. StatusOK(plan', at', empty', error')
  <2>1. After(i, TRUE, FALSE) \/ Continues(i)
    BY <1>1
  <2>2. plan' = plan
    BY <1>1, PlanStays
  <2> QED BY <2>1, <2>2, StatusKeeps DEF After, Continues
<1>3. n \in Nat
  <2>1. from \in Stages
    BY <1>1, ChunkKind
  <2>2. Len(buffer[from].data) \in Nat
    BY <2>1, Here
  <2>3. plan.stages[i].n \in Nat
    <3>1. plan \in Plans /\ i \in 1..Len(plan.stages)
      BY Here
    <3> QED BY <3>1, StageIs
  <2> QED BY <2>2, <2>3, LeastOfTwo
<1> HIDE DEF n
<1>4. ChunksOK(plan, chunk')
  <2>1. CASE UNCHANGED chunk
    BY <2>1 DEF Inv
  <2>2. CASE chunk' = [chunk EXCEPT ![i] = [state |-> "hex", text |-> SizeText(n),
                                            left |-> n, wanted |-> n]]
    <3> DEFINE t == SizeText(n)
               c == [state |-> "hex", text |-> t, left |-> n, wanted |-> n]
    <3>1. t \in Seq(Byte) /\ DataOf(t) = <<>>
      BY <1>3, SizeTextFraming, FramingIs
    <3>2. chunk' = [chunk EXCEPT ![i] = c]
      BY <2>2
    <3> HIDE DEF t
    <3>3. ChunkOK(c)
      BY <1>3, <3>1 DEF ChunkOK, Chunk, ChunkStates
    <3> HIDE DEF c
    <3> QED BY <3>2, <3>3, ChunkSet
  <2> QED BY <1>1, <2>1, <2>2
<1>5. /\ BuffersOK(plan, buffer, source, sink)
      /\ DataOK(plan, buffer, source, sink, transferred)
  BY DEF Inv
<1> QED BY <1>1, <1>2, <1>4, <1>5, ChunkStage

\* A text goes out.
LEMMA KeepsText ==
  ASSUME Inv, NEW i \in Stages, kind(i) = "encode",
         NEW then \in ChunkStates, then # "next", PutsText(i, then), UNCHANGED Encoding
  PROVE  Inv'
<1> DEFINE t == chunk[i].text
           n == Min({Len(t), room(buffer[i], size(i))})
           out == n = Len(t)
           first == SubSeq(t, 1, n)
           rest == SubSeq(t, n + 1, Len(t))
           s == IF out THEN then ELSE chunk[i].state
           c == [chunk[i] EXCEPT !.text = rest, !.state = s]
<1>1. /\ buffer' = [buffer EXCEPT ![i] = Put(@, first)]
      /\ chunk' = [chunk EXCEPT ![i].text = SubSeq(@, n + 1, Len(@)),
                                ![i].state = IF out THEN then ELSE @]
      /\ IF out THEN Continues(i) ELSE After(i, FALSE, FALSE)
  BY DEF PutsText
<1>2. StatusOK(plan', at', empty', error')
  <2>1. After(i, FALSE, FALSE) \/ Continues(i)
    BY <1>1
  <2>2. plan' = plan
    BY PlanStays
  <2> QED BY <2>1, <2>2, StatusKeeps DEF After, Continues
<1>3. /\ t \in Seq(Byte) /\ DataOf(t) = <<>> /\ chunk[i] \in Chunk
      /\ chunk[i].state \in ChunkStates /\ chunk[i].left \in Nat /\ chunk[i].wanted \in Nat
      /\ chunk[i].left <= chunk[i].wanted /\ (chunk[i].state = "next" => chunk[i].left = 0)
  BY ChunkIs
<1>4. /\ plan \in Plans /\ i \in 1..Len(plan.stages) /\ room(buffer[i], size(i)) \in Nat
      /\ size(i) = plan.stages[i].size
  BY Here
<1>5. n \in 0..Len(t) /\ n <= room(buffer[i], size(i))
  <2>1. Len(t) \in Nat
    BY <1>3
  <2>2. n \in Nat /\ n <= Len(t) /\ n <= room(buffer[i], size(i))
    BY <1>4, <2>1, LeastOfTwo
  <2> QED BY <2>1, <2>2
<1> HIDE DEF n
<1>6. /\ first \in Seq(Byte) /\ Len(first) = n /\ rest \in Seq(Byte)
      /\ DataOf(first) = <<>> /\ DataOf(rest) = <<>>
  BY <1>3, <1>5, Cut, FramingCut
<1>7. /\ BuffersOK(plan, buffer, source, sink)
      /\ DataOK(plan, buffer, source, sink, transferred)
  BY DEF Inv
<1> HIDE DEF first
<1>8. BuffersOK(plan, buffer', source, sink)
  <2>1. Len(first) <= room(buffer[i], plan.stages[i].size)
    BY <1>4, <1>5, <1>6
  <2>2. BuffersOK(plan, [buffer EXCEPT ![i] = Put(@, first)], source, sink)
    BY <1>4, <1>6, <1>7, <2>1, PutOK
  <2> QED BY <1>1, <2>2
<1>9. DataOK(plan, buffer', source, sink, transferred)
  <2>1. DataOK(plan, [buffer EXCEPT ![i] = Put(@, first)], source, sink, transferred)
    BY <1>4, <1>6, <1>7, GainData
  <2> QED BY <1>1, <2>1
<1>10. ChunksOK(plan, chunk')
  <2>1. chunk \in [1..Len(plan.stages) -> Chunk]
    BY DEF Inv, ChunksOK
  <2>2. chunk' = [chunk EXCEPT ![i] = c]
    BY <1>1, <1>4, <2>1
  <2>3. s \in ChunkStates /\ (s = "next" => chunk[i].left = 0)
    BY <1>3
  <2> HIDE DEF s, rest
  <2>4. /\ c \in Chunk /\ c.state = s /\ c.text = rest
        /\ c.left = chunk[i].left /\ c.wanted = chunk[i].wanted
    BY <1>3, <1>6, <2>3 DEF Chunk
  <2> HIDE DEF c
  <2>5. ChunkOK(c)
    BY <1>3, <1>6, <2>3, <2>4 DEF ChunkOK
  <2> QED BY <2>2, <2>5, ChunkSet
<1> QED BY <1>2, <1>8, <1>9, <1>10, ChunkStage

LEMMA KeepsEncodeHex ==
  ASSUME Inv, NEW i \in Stages, EncodeHex(i)
  PROVE  Inv'
<1>1. kind(i) = "encode" /\ UNCHANGED Encoding
  BY DEF EncodeHex, Encodes, Turn
<1>2. CASE chunk[i].wanted = 0
  <2>1. PutsText(i, "done") /\ "done" \in ChunkStates
    BY <1>2 DEF EncodeHex, ChunkStates
  <2> QED BY <1>1, <2>1, KeepsText
<1>3. CASE chunk[i].wanted # 0
  <2>1. PutsText(i, "data") /\ "data" \in ChunkStates
    BY <1>3 DEF EncodeHex, ChunkStates
  <2> QED BY <1>1, <2>1, KeepsText
<1> QED BY <1>2, <1>3

LEMMA KeepsEncodeCR ==
  ASSUME Inv, NEW i \in Stages, EncodeCR(i)
  PROVE  Inv'
<1>1. kind(i) = "encode" /\ UNCHANGED Encoding
  BY DEF EncodeCR, Encodes, Turn
<1>2. PutsText(i, "size") /\ "size" \in ChunkStates
  BY DEF EncodeCR, ChunkStates
<1> QED BY <1>1, <1>2, KeepsText

LEMMA KeepsEncodeDone ==
  ASSUME Inv, NEW i \in Stages, EncodeDone(i)
  PROVE  Inv'
<1>1. UNCHANGED <<Encoding, buffer, chunk>> /\ After(i, FALSE, FALSE)
  BY DEF EncodeDone
<1>2. plan' = plan
  BY <1>1, PlanStays
<1>3. StatusOK(plan', at', empty', error')
  BY <1>1, <1>2, StatusKeeps DEF After
<1> QED BY <1>1, <1>3, ChunkStays

LEMMA KeepsEncodeData ==
  ASSUME Inv, NEW i \in Stages, EncodeData(i)
  PROVE  Inv'
<1> DEFINE from == NearestIn(i)
           n == Moved(buffer[from], i, chunk[i].left)
<1>1. /\ kind(i) = "encode" /\ UNCHANGED Encoding
      /\ IF InEmpty(i) THEN UNCHANGED <<buffer, chunk>> /\ After(i, TRUE, FALSE)
         ELSE /\ buffer' = Move(from, i, n)
              /\ IF n < chunk[i].left
                 THEN /\ chunk' = [chunk EXCEPT ![i].left = @ - n]
                      /\ After(i, FALSE, FALSE)
                 ELSE /\ chunk' = [chunk EXCEPT ![i].left = 0, ![i].text = <<CR, LF>>,
                                                ![i].state = "cr"]
                      /\ Continues(i)
  BY DEF EncodeData, Encodes, Turn
<1>2. StatusOK(plan', at', empty', error')
  <2>1. After(i, TRUE, FALSE) \/ After(i, FALSE, FALSE) \/ Continues(i)
    BY <1>1
  <2>2. plan' = plan
    BY <1>1, PlanStays
  <2> QED BY <2>1, <2>2, StatusKeeps DEF After, Continues
<1>3. CASE InEmpty(i)
  BY <1>1, <1>2, <1>3, ChunkStays
<1>4. CASE ~InEmpty(i)
  <2>1. i > 1 /\ HasBuffer(i) /\ kind(i) # "limited" /\ from \in Stages
    BY <1>1, ChunkKind
  <2>2. /\ chunk[i] \in Chunk /\ chunk[i].left \in Nat /\ chunk[i].wanted \in Nat
        /\ chunk[i].left <= chunk[i].wanted /\ DataOf(chunk[i].text) = <<>>
        /\ (chunk[i].state = "next" => chunk[i].left = 0)
    BY ChunkIs
  <2>3. /\ n \in 0..Len(buffer[from].data) /\ n <= room(buffer[i], size(i))
        /\ n <= chunk[i].left
    BY <2>1, <2>2, MovedIs
  <2>4. n \in Nat
    <3>1. Len(buffer[from].data) \in Nat
      BY <2>1, Here
    <3> QED BY <2>3, <3>1
  <2> HIDE DEF n
  <2>5. /\ BuffersOK(plan, Move(from, i, n), source, sink)
        /\ DataOK(plan, Move(from, i, n), source, sink, transferred)
    BY <2>1, <2>3, MoveIs
  <2>6. buffer' = Move(from, i, n)
    BY <1>1, <1>4
  <2>7. chunk \in [1..Len(plan.stages) -> Chunk] /\ i \in 1..Len(plan.stages)
    BY Here DEF Inv, ChunksOK
  <2>8. ChunksOK(plan, chunk')
    <3>1. CASE n < chunk[i].left
      <4> DEFINE l == chunk[i].left - n
                 c == [chunk[i] EXCEPT !.left = l]
      <4>1. chunk' = [chunk EXCEPT ![i] = c]
        BY <1>1, <1>4, <2>7, <3>1
      <4>2. l \in Nat /\ l <= chunk[i].wanted /\ (chunk[i].state = "next" => l = 0)
        BY <2>2, <2>4, <3>1
      <4> HIDE DEF l
      <4>3. /\ c \in Chunk /\ c.state = chunk[i].state /\ c.text = chunk[i].text
            /\ c.left = l /\ c.wanted = chunk[i].wanted
        BY <2>2, <4>2 DEF Chunk
      <4> HIDE DEF c
      <4>4. ChunkOK(c)
        BY <2>2, <4>2, <4>3 DEF ChunkOK
      <4> QED BY <4>1, <4>4, ChunkSet
    <3>2. CASE ~(n < chunk[i].left)
      <4> DEFINE t == <<CR, LF>>
                 c == [chunk[i] EXCEPT !.left = 0, !.text = t, !.state = "cr"]
      <4>1. chunk' = [chunk EXCEPT ![i] = c]
        BY <1>1, <1>4, <2>7, <3>2
      <4>2. t \in Seq(Byte) /\ DataOf(t) = <<>>
        BY EndFraming, FramingIs
      <4> HIDE DEF t
      <4>3. /\ c \in Chunk /\ c.state = "cr" /\ c.text = t
            /\ c.left = 0 /\ c.wanted = chunk[i].wanted
        BY <2>2, <4>2 DEF Chunk, ChunkStates
      <4> HIDE DEF c
      <4>4. ChunkOK(c)
        BY <2>2, <4>2, <4>3 DEF ChunkOK
      <4> QED BY <4>1, <4>4, ChunkSet
    <3> QED BY <3>1, <3>2
  <2> QED BY <1>1, <1>2, <2>5, <2>6, <2>8, ChunkStage
<1> QED BY <1>3, <1>4

\* A decoder.
LEMMA DecoderIs ==
  ASSUME Inv, NEW i \in Stages, kind(i) \in Decoding
  PROVE  /\ i > 1 /\ HasBuffer(i) /\ kind(i) # "limited" /\ NearestIn(i) \in Stages
         /\ Input(i) = buffer[NearestIn(i)].data
         /\ Input(i) \in Seq(Byte) /\ Len(Input(i)) \in Nat
         /\ LeftInDestination(i) = room(buffer[i], size(i)) /\ LeftInDestination(i) \in Nat
<1>1. i > 1 /\ HasBuffer(i) /\ kind(i) # "limited" /\ NearestIn(i) \in Stages
  BY ChunkKind
<1>2. Input(i) = buffer[NearestIn(i)].data /\ LeftInDestination(i) = room(buffer[i], size(i))
  BY DEF Input, LeftInDestination
<1>3. buffer[NearestIn(i)].data \in Seq(Byte) /\ Len(buffer[NearestIn(i)].data) \in Nat
  BY <1>1, Here
<1>4. room(buffer[i], size(i)) \in Nat
  BY Here
<1> QED BY <1>1, <1>2, <1>3, <1>4

\* The part of the frame that is taken has no data in it.
LEMMA FrameIs ==
  ASSUME Inv, NEW i \in Stages, kind(i) \in Decoding,
         NEW n \in 0..Len(Input(i)), Copies(i) => n <= LeftInDestination(i),
         DataOf(SubSeq(Input(i), 1, n)) = <<>>, Frame(i, n)
  PROVE  /\ BuffersOK(plan, buffer', source, sink)
         /\ DataOK(plan, buffer', source, sink, transferred)
<1> DEFINE from == NearestIn(i)
<1>1. /\ i > 1 /\ HasBuffer(i) /\ kind(i) # "limited" /\ from \in Stages
      /\ Input(i) = buffer[from].data /\ LeftInDestination(i) = room(buffer[i], size(i))
  BY DecoderIs
<1>2. n \in 0..Len(buffer[from].data) /\ DataOf(SubSeq(buffer[from].data, 1, n)) = <<>>
  BY <1>1
<1>3. CASE Copies(i)
  <2>1. buffer' = Move(from, i, n)
    BY <1>3 DEF Frame
  <2>2. n <= room(buffer[i], size(i))
    BY <1>1, <1>3
  <2>3. /\ BuffersOK(plan, Move(from, i, n), source, sink)
        /\ DataOK(plan, Move(from, i, n), source, sink, transferred)
    BY <1>1, <1>2, <2>2, MoveIs
  <2> QED BY <2>1, <2>3
<1>4. CASE ~Copies(i)
  <2>1. buffer' = [buffer EXCEPT ![from] = Drop(@, n)]
    BY <1>4 DEF Frame
  <2>2. /\ plan \in Plans /\ BuffersOK(plan, buffer, source, sink)
        /\ DataOK(plan, buffer, source, sink, transferred)
    BY DEF Inv
  <2>3. from \in 1..Len(plan.stages)
    BY <1>1 DEF Stages, End
  <2> HIDE DEF from
  <2>4. BuffersOK(plan, [buffer EXCEPT ![from] = Drop(@, n)], source, sink)
    BY <1>2, <2>2, <2>3, DropOK
  <2>5. DataOK(plan, [buffer EXCEPT ![from] = Drop(@, n)], source, sink, transferred)
    BY <1>2, <2>2, <2>3, LoseData
  <2> QED BY <2>1, <2>4, <2>5
<1> QED BY <1>3, <1>4

\* The first byte of the input is frame.
LEMMA FrameByte ==
  ASSUME Inv, NEW i \in Stages, kind(i) \in Decoding, Input(i) # <<>>,
         Copies(i) => LeftInDestination(i) > 0,
         ~IsData(Head(Input(i))), Frame(i, 1)
  PROVE  /\ BuffersOK(plan, buffer', source, sink)
         /\ DataOK(plan, buffer', source, sink, transferred)
<1> DEFINE s == Input(i)
<1>1. s \in Seq(Byte) /\ Len(s) \in Nat /\ LeftInDestination(i) \in Nat
  BY DecoderIs
<1>2. Len(s) >= 1 /\ Head(s) = s[1]
  <2> HIDE DEF s
  <2>1. s # <<>>
    BY DEF s
  <2> QED BY <1>1, <2>1
<1> HIDE DEF s
<1>3. 1 \in 0..Len(s) /\ \A j \in 1..1 : ~IsData(s[j])
  BY <1>1, <1>2 DEF s
<1>4. DataOf(SubSeq(s, 1, 1)) = <<>>
  BY <1>1, <1>3, FramingFirst
<1>5. Copies(i) => 1 <= LeftInDestination(i)
  BY <1>1
<1> QED BY <1>3, <1>4, <1>5, FrameIs DEF s

\* The chunk goes on in another state.
LEMMA ChunkGoesOn ==
  ASSUME Inv, NEW i \in Stages, NEW st \in ChunkStates,
         st = "next" => chunk[i].left = 0,
         chunk' = [chunk EXCEPT ![i].state = st]
  PROVE  ChunksOK(plan, chunk')
<1> DEFINE c == [chunk[i] EXCEPT !.state = st]
<1>1. /\ chunk[i] \in Chunk
      /\ chunk[i].left <= chunk[i].wanted /\ DataOf(chunk[i].text) = <<>>
  BY ChunkIs
<1>2. chunk \in [1..Len(plan.stages) -> Chunk] /\ i \in 1..Len(plan.stages)
  BY Here DEF Inv, ChunksOK
<1>3. chunk' = [chunk EXCEPT ![i] = c]
  BY <1>2
<1>4. /\ c \in Chunk /\ c.state = st /\ c.text = chunk[i].text
      /\ c.left = chunk[i].left /\ c.wanted = chunk[i].wanted
  BY <1>1 DEF Chunk
<1> HIDE DEF c
<1>5. ChunkOK(c)
  BY <1>1, <1>4 DEF ChunkOK
<1>6. ChunksOK(plan, [chunk EXCEPT ![i] = c])
  BY <1>5, ChunkSet
<1> QED BY <1>3, <1>6

LEMMA KeepsDecodeReturns ==
  ASSUME Inv, NEW i \in Stages, DecodeReturns(i)
  PROVE  Inv'
<1>1. UNCHANGED <<Encoding, buffer, chunk>> /\ After(i, FALSE, FALSE)
  BY DEF DecodeReturns
<1>2. plan' = plan
  BY <1>1, PlanStays
<1>3. StatusOK(plan', at', empty', error')
  BY <1>1, <1>2, StatusKeeps DEF After
<1> QED BY <1>1, <1>3, ChunkStays

LEMMA KeepsDecodeFails ==
  ASSUME Inv, NEW i \in Stages, DecodeFails(i), UNCHANGED Encoding
  PROVE  Inv'
<1>1. UNCHANGED <<Encoding, buffer, chunk>> /\ After(i, TRUE, FALSE)
  BY DEF DecodeFails
<1>2. plan' = plan
  BY PlanStays
<1>3. StatusOK(plan', at', empty', error')
  BY <1>1, <1>2, StatusKeeps DEF After
<1> QED BY <1>1, <1>3, ChunkStays

LEMMA KeepsDecodeSizeEnd ==
  ASSUME Inv, NEW i \in Stages, DecodeSizeEnd(i)
  PROVE  Inv'
<1>1. /\ kind(i) \in Decoding /\ Input(i) # <<>> /\ (Copies(i) => LeftInDestination(i) > 0)
      /\ UNCHANGED Encoding
      /\ IF Head(Input(i)) # LF THEN DecodeFails(i)
         ELSE /\ Frame(i, 1)
              /\ chunk' = [chunk EXCEPT ![i].state = "data"]
              /\ IF chunk[i].wanted = 0 THEN After(i, FALSE, TRUE) ELSE Continues(i)
  BY DEF DecodeSizeEnd, Decodes, Turn
<1>2. CASE Head(Input(i)) # LF
  BY <1>1, <1>2, KeepsDecodeFails
<1>3. CASE Head(Input(i)) = LF
  <2>1. plan' = plan /\ (After(i, FALSE, TRUE) \/ Continues(i))
    BY <1>1, <1>3, PlanStays
  <2>2. StatusOK(plan', at', empty', error')
    BY <2>1, StatusKeeps DEF After, Continues
  <2>3. ~IsData(Head(Input(i)))
    BY <1>3 DEF IsData, LF
  <2>4. /\ BuffersOK(plan, buffer', source, sink)
        /\ DataOK(plan, buffer', source, sink, transferred)
    BY <1>1, <1>3, <2>3, FrameByte
  <2>5. ChunksOK(plan, chunk')
    BY <1>1, <1>3, ChunkGoesOn DEF ChunkStates
  <2> QED BY <1>1, <2>2, <2>4, <2>5, ChunkStage
<1> QED BY <1>2, <1>3

LEMMA KeepsDecodeDataEnd ==
  ASSUME Inv, NEW i \in Stages, DecodeDataEnd(i)
  PROVE  Inv'
<1>1. /\ kind(i) \in Decoding /\ Input(i) # <<>> /\ (Copies(i) => LeftInDestination(i) > 0)
      /\ UNCHANGED Encoding /\ chunk[i].left = 0
      /\ IF Head(Input(i)) # CR THEN DecodeFails(i)
         ELSE /\ Frame(i, 1)
              /\ chunk' = [chunk EXCEPT ![i].state = "next"]
              /\ Continues(i)
  BY DEF DecodeDataEnd, Decodes, Turn
<1>2. CASE Head(Input(i)) # CR
  BY <1>1, <1>2, KeepsDecodeFails
<1>3. CASE Head(Input(i)) = CR
  <2>1. plan' = plan /\ Continues(i)
    BY <1>1, <1>3, PlanStays
  <2>2. StatusOK(plan', at', empty', error')
    BY <2>1, ContinuesIs
  <2>3. ~IsData(Head(Input(i)))
    BY <1>3 DEF IsData, CR
  <2>4. /\ BuffersOK(plan, buffer', source, sink)
        /\ DataOK(plan, buffer', source, sink, transferred)
    BY <1>1, <1>3, <2>3, FrameByte
  <2>5. ChunksOK(plan, chunk')
    BY <1>1, <1>3, ChunkGoesOn DEF ChunkStates
  <2> QED BY <1>1, <2>2, <2>4, <2>5, ChunkStage
<1> QED BY <1>2, <1>3

LEMMA KeepsDecodeNext ==
  ASSUME Inv, NEW i \in Stages, DecodeNext(i)
  PROVE  Inv'
<1>1. /\ kind(i) \in Decoding /\ Input(i) # <<>> /\ (Copies(i) => LeftInDestination(i) > 0)
      /\ UNCHANGED Encoding /\ chunk[i].state = "next"
      /\ IF Head(Input(i)) # LF THEN DecodeFails(i)
         ELSE /\ Frame(i, 1)
              /\ chunk' = [chunk EXCEPT ![i].state = "hex", ![i].wanted = 0]
              /\ Continues(i)
  BY DEF DecodeNext, Decodes, Turn
<1>2. CASE Head(Input(i)) # LF
  BY <1>1, <1>2, KeepsDecodeFails
<1>3. CASE Head(Input(i)) = LF
  <2>1. plan' = plan /\ Continues(i)
    BY <1>1, <1>3, PlanStays
  <2>2. StatusOK(plan', at', empty', error')
    BY <2>1, ContinuesIs
  <2>3. ~IsData(Head(Input(i)))
    BY <1>3 DEF IsData, LF
  <2>4. /\ BuffersOK(plan, buffer', source, sink)
        /\ DataOK(plan, buffer', source, sink, transferred)
    BY <1>1, <1>3, <2>3, FrameByte
  <2>5. ChunksOK(plan, chunk')
    <3> DEFINE c == [chunk[i] EXCEPT !.state = "hex", !.wanted = 0]
    <3>1. chunk[i] \in Chunk /\ chunk[i].left = 0 /\ DataOf(chunk[i].text) = <<>>
      BY <1>1, ChunkIs
    <3>2. chunk \in [1..Len(plan.stages) -> Chunk] /\ i \in 1..Len(plan.stages)
      BY Here DEF Inv, ChunksOK
    <3>3. chunk' = [chunk EXCEPT ![i] = c]
      BY <1>1, <1>3, <3>2
    <3>4. /\ c \in Chunk /\ c.state = "hex" /\ c.text = chunk[i].text
          /\ c.left = chunk[i].left /\ c.wanted = 0
      BY <3>1 DEF Chunk, ChunkStates
    <3> HIDE DEF c
    <3>5. ChunkOK(c)
      BY <3>1, <3>4 DEF ChunkOK
    <3> QED BY <3>3, <3>5, ChunkSet
  <2> QED BY <1>1, <2>2, <2>4, <2>5, ChunkStage
<1> QED BY <1>2, <1>3

LEMMA KeepsDecodeData ==
  ASSUME Inv, NEW i \in Stages, DecodeData(i)
  PROVE  Inv'
<1> DEFINE from == NearestIn(i)
           n == Moved(buffer[from], i, chunk[i].left)
           l == chunk[i].left - n
           c == [chunk[i] EXCEPT !.left = l]
<1>1. /\ kind(i) \in Decoding /\ UNCHANGED Encoding /\ Continues(i)
      /\ buffer' = Move(from, i, n)
      /\ chunk' = [chunk EXCEPT ![i].left = @ - n]
  BY DEF DecodeData, Decodes, Turn
<1>2. StatusOK(plan', at', empty', error')
  <2>1. plan' = plan
    BY <1>1, PlanStays
  <2> QED BY <1>1, <2>1, ContinuesIs
<1>3. i > 1 /\ HasBuffer(i) /\ kind(i) # "limited" /\ from \in Stages
  BY <1>1, ChunkKind
<1>4. /\ chunk[i] \in Chunk /\ chunk[i].left \in Nat /\ chunk[i].wanted \in Nat
      /\ chunk[i].left <= chunk[i].wanted /\ DataOf(chunk[i].text) = <<>>
      /\ (chunk[i].state = "next" => chunk[i].left = 0)
  BY ChunkIs
<1>5. /\ n \in 0..Len(buffer[from].data) /\ n <= room(buffer[i], size(i))
      /\ n <= chunk[i].left
  BY <1>3, <1>4, MovedIs
<1>6. n \in Nat
  <2>1. Len(buffer[from].data) \in Nat
    BY <1>3, Here
  <2> QED BY <1>5, <2>1
<1> HIDE DEF n
<1>7. /\ BuffersOK(plan, Move(from, i, n), source, sink)
      /\ DataOK(plan, Move(from, i, n), source, sink, transferred)
  BY <1>3, <1>5, MoveIs
<1>8. ChunksOK(plan, chunk')
  <2>1. chunk \in [1..Len(plan.stages) -> Chunk] /\ i \in 1..Len(plan.stages)
    BY Here DEF Inv, ChunksOK
  <2>2. chunk' = [chunk EXCEPT ![i] = c]
    BY <1>1, <2>1
  <2>3. l \in Nat /\ l <= chunk[i].wanted /\ (chunk[i].state = "next" => l = 0)
    BY <1>4, <1>5, <1>6
  <2> HIDE DEF l
  <2>4. /\ c \in Chunk /\ c.state = chunk[i].state /\ c.text = chunk[i].text
        /\ c.left = l /\ c.wanted = chunk[i].wanted
    BY <1>4, <2>3 DEF Chunk
  <2> HIDE DEF c
  <2>5. ChunkOK(c)
    BY <1>4, <2>3, <2>4 DEF ChunkOK
  <2> QED BY <2>2, <2>5, ChunkSet
<1> QED BY <1>1, <1>2, <1>7, <1>8, ChunkStage

LEMMA KeepsDecodeHex ==
  ASSUME Inv, NEW i \in Stages, DecodeHex(i)
  PROVE  Inv'
<1> DEFINE s == Input(i)
           seen == IF Copies(i) THEN Min({Len(s), LeftInDestination(i)}) ELSE Len(s)
           T == {seen} \cup {j \in 0..(seen - 1) : s[j + 1][1] # "hex"}
           k == Min(T)
           wanted == (CHOOSE f : Numbering(chunk[i].wanted, s, k, f))[k]
           n == Min({k + 1, seen})
           st == IF k < seen THEN "lf" ELSE chunk[i].state
           c == [chunk[i] EXCEPT !.wanted = wanted, !.left = wanted, !.state = st]
<1>1. kind(i) \in Decoding /\ UNCHANGED Encoding /\ chunk[i].state = "hex"
  BY DEF DecodeHex, Decodes, Turn
<1>2. IF k < seen /\ s[k + 1] # CR THEN DecodeFails(i)
      ELSE /\ Frame(i, n)
           /\ chunk' = [chunk EXCEPT ![i].wanted = wanted, ![i].left = wanted,
                                     ![i].state = IF k < seen THEN "lf" ELSE @]
           /\ Continues(i)
  BY DEF DecodeHex, Numbering
<1> HIDE DEF wanted
<1>3. CASE k < seen /\ s[k + 1] # CR
  <2>1. DecodeFails(i)
    BY <1>2, <1>3
  <2> QED BY <1>1, <2>1, KeepsDecodeFails
<1>4. CASE ~(k < seen /\ s[k + 1] # CR)
  <2>1. /\ Frame(i, n) /\ Continues(i)
        /\ chunk' = [chunk EXCEPT ![i].wanted = wanted, ![i].left = wanted,
                                  ![i].state = IF k < seen THEN "lf" ELSE @]
    BY <1>2, <1>4
  <2>2. StatusOK(plan', at', empty', error')
    BY <1>1, <2>1, PlanStays, ContinuesIs
  <2>3. s \in Seq(Byte) /\ Len(s) \in Nat /\ LeftInDestination(i) \in Nat
    BY <1>1, DecoderIs
  <2>4. seen \in Nat /\ seen <= Len(s) /\ (Copies(i) => seen <= LeftInDestination(i))
    <3>1. Min({Len(s), LeftInDestination(i)}) \in Nat
          /\ Min({Len(s), LeftInDestination(i)}) <= Len(s)
          /\ Min({Len(s), LeftInDestination(i)}) <= LeftInDestination(i)
      BY <2>3, LeastOfTwo
    <3> QED BY <2>3, <3>1
  <2> HIDE DEF seen
  <2>5. k \in T /\ \A y \in T : k <= y
    <3>1. T \subseteq Nat /\ T # {}
      BY <2>4
    <3> HIDE DEF T
    <3> QED BY <3>1, MinIs
  <2> HIDE DEF k
  <2>6. k \in 0..seen /\ \A j \in 1..k : s[j][1] = "hex"
    <3>1. k \in 0..seen
      BY <2>4, <2>5
    <3>2. ASSUME NEW j \in 1..k PROVE s[j][1] = "hex"
      <4>1. j - 1 \in 0..(seen - 1) /\ ~(k <= j - 1) /\ (j - 1) + 1 = j
        BY <2>4, <3>1
      <4>2. j - 1 \notin T
        BY <2>5, <4>1
      <4> QED BY <4>1, <4>2
    <3> QED BY <3>1, <3>2
  <2> HIDE DEF T
  <2>7. n \in 0..Len(s) /\ n <= seen /\ (n = k \/ (n = k + 1 /\ k < seen))
    <3>1. n \in {k + 1, seen} /\ n <= k + 1 /\ n <= seen
      <4> DEFINE U == {k + 1, seen}
      <4>1. U \subseteq Nat /\ U # {}
        BY <2>4, <2>6
      <4>2. Min(U) \in U /\ \A y \in U : Min(U) <= y
        <5> HIDE DEF U
        <5> QED BY <4>1, MinIs
      <4> QED BY <4>2
    <3> HIDE DEF n
    <3> QED BY <2>3, <2>4, <2>6, <3>1
  <2> HIDE DEF n
  <2>8. \A j \in 1..n : ~IsData(s[j])
    <3> TAKE j \in 1..n
    <3>1. CASE j <= k
      <4>1. s[j][1] = "hex"
        BY <2>6, <2>7, <3>1
      <4> QED BY <4>1 DEF IsData
    <3>2. CASE ~(j <= k)
      <4>1. j = k + 1 /\ k < seen
        BY <2>3, <2>4, <2>6, <2>7, <3>2
      <4>2. s[j] = CR
        BY <1>4, <4>1
      <4> QED BY <4>2 DEF IsData, CR
    <3> QED BY <3>1, <3>2
  <2>9. DataOf(SubSeq(s, 1, n)) = <<>>
    BY <2>3, <2>7, <2>8, FramingFirst
  <2>10. Copies(i) => n <= LeftInDestination(i)
    BY <2>3, <2>4, <2>7
  <2>11. /\ BuffersOK(plan, buffer', source, sink)
         /\ DataOK(plan, buffer', source, sink, transferred)
    BY <1>1, <2>1, <2>7, <2>9, <2>10, FrameIs
  <2>12. /\ chunk[i] \in Chunk /\ chunk[i].wanted \in Nat /\ DataOf(chunk[i].text) = <<>>
    BY ChunkIs
  <2>13. wanted \in Nat
    <3>1. k \in 0..Len(s)
      BY <2>3, <2>4, <2>6
    <3> HIDE DEF s
    <3> QED BY <2>3, <2>12, <3>1, NumberIs DEF wanted
  <2>14. ChunksOK(plan, chunk')
    <3>1. chunk \in [1..Len(plan.stages) -> Chunk] /\ i \in 1..Len(plan.stages)
      BY Here DEF Inv, ChunksOK
    <3>2. chunk' = [chunk EXCEPT ![i] = c]
      BY <2>1, <3>1
    <3>3. st \in ChunkStates /\ st # "next"
      BY <1>1 DEF ChunkStates
    <3> HIDE DEF st
    <3>4. /\ c \in Chunk /\ c.state = st /\ c.text = chunk[i].text
          /\ c.left = wanted /\ c.wanted = wanted
      BY <2>12, <2>13, <3>3 DEF Chunk
    <3> HIDE DEF c
    <3>5. ChunkOK(c)
      BY <2>12, <2>13, <3>3, <3>4 DEF ChunkOK
    <3> QED BY <3>2, <3>5, ChunkSet
  <2> QED BY <1>1, <2>2, <2>11, <2>14, ChunkStage
<1> QED BY <1>3, <1>4

-----------------------------------------------------------------------------
(* The invariant holds                                                      *)

LEMMA KeepsProcess ==
  ASSUME Inv, Process
  PROVE  Inv'
<1>1. /\ UNCHANGED <<plan, buffer, empty, error, source, sink, transferred, chunk>>
      /\ (at' \in Stages \/ at' = 0)
  BY DEF Process
<1>2. StatusOK(plan, at, empty, error) /\ plan \in Plans
  BY DEF Inv
<1>3. StatusOK(plan', at', empty', error')
  <2>1. Len(plan.stages) \in Nat
    BY <1>2, PlanIs
  <2> QED BY <1>1, <1>2, <2>1 DEF StatusOK, Stages
<1>4. /\ BuffersOK(plan, buffer, source, sink) /\ ChunksOK(plan, chunk)
      /\ CountsOK(plan, transferred) /\ DataOK(plan, buffer, source, sink, transferred)
  BY DEF Inv
<1>5. /\ plan' = plan /\ buffer' = buffer /\ source' = source /\ sink' = sink
      /\ transferred' = transferred /\ chunk' = chunk
  BY <1>1
<1> QED BY <1>2, <1>3, <1>4, <1>5, Kept

LEMMA NoBytes == <<>> \in Seq(Byte) /\ DataOf(<<>>) = <<>>
<1>1. Framing(<<>>)
  BY DEF Framing
<1> QED BY <1>1, FramingIs

\* All of the data is where it is at the start.
LEMMA HoldsAll ==
  ASSUME NEW p \in Plans
  PROVE  Holds(Data(p), p.data, 0, Len(Data(p)))
<1> DEFINE D == Data(p)
<1>1. D \in Seq(Byte) /\ Len(D) \in Nat
  BY PlanIs
<1>2. DataOf(p.data) = D
  BY DEF Data
<1> HIDE DEF D
<1>3. SubSeq(D, 0 + 1, Len(D)) = D
  <2>1. 0 + 1 = 1
    OBVIOUS
  <2>2. SubSeq(D, 1, Len(D)) = D
    BY <1>1, SubSeqFull
  <2> QED BY <2>1, <2>2
<1>4. Holds(D, p.data, 0, Len(D))
  BY <1>1, <1>2, <1>3 DEF Holds
<1> QED BY <1>4 DEF D

LEMMA InitData ==
  ASSUME Init
  PROVE  DataOK(plan, buffer, source, sink, transferred)
<1> DEFINE N == Len(plan.stages)
           D == Data(plan)
           preset == plan.stages[1].kind = "null"
           pos == [i \in 0..N |-> IF i = 0 /\ preset THEN Len(D) ELSE 0]
<1>1. /\ plan \in Plans /\ sink = <<>>
      /\ buffer = [i \in 1..N |-> IF i = 1 /\ preset THEN Holding(plan.data) ELSE Empty]
      /\ source = IF preset THEN <<>> ELSE plan.data
      /\ transferred = [i \in 1..N |-> 0]
  BY DEF Init, Stages
<1>2. N \in Nat \ {0} /\ D \in Seq(Byte) /\ Len(D) \in Nat
  BY <1>1, PlanIs
<1>3. /\ pos \in [0..N -> Nat] /\ pos[0] = (IF preset THEN Len(D) ELSE 0)
      /\ \A i \in 1..N : pos[i] = 0
  BY <1>2
<1>4. Holds(D, plan.data, 0, Len(D))
  BY <1>1, HoldsAll
<1>5. \A b \in 0..Len(D) : Holds(D, <<>>, b, b)
  BY <1>2, NoBytes, HoldsNothing
<1>6. \A i \in 2..(N + 1) : Nearest(plan.stages, i) \in 1..N
  <2> TAKE i \in 2..(N + 1)
  <2>1. i \in 1..(N + 1) /\ i > 1
    BY <1>2
  <2>2. Nearest(plan.stages, i) \in 0..(i - 1) /\ Nearest(plan.stages, i) >= 1
    BY <1>1, <2>1, NearestIs
  <2> QED BY <1>2, <2>1, <2>2
<1>7. Nearest(plan.stages, 1) = 0
  <2>1. 1 \in 1..(N + 1)
    BY <1>2
  <2>2. Nearest(plan.stages, 1) \in 0..(1 - 1)
    BY <1>1, <2>1, NearestIs
  <2> QED BY <2>2
<1>8. /\ Empty.data = <<>> /\ Holding(plan.data).data = plan.data
  BY DEF Empty, Holding
<1> HIDE DEF pos, D, preset
<1>9. Holds(D, source, pos[0], Len(D))
  <2>1. CASE preset
    BY <1>1, <1>2, <1>3, <1>5, <2>1
  <2>2. CASE ~preset
    BY <1>1, <1>3, <1>4, <2>2
  <2> QED BY <2>1, <2>2
<1>10. ASSUME NEW i \in 1..N
       PROVE  Holds(D, buffer[i].data, pos[i], pos[Nearest(plan.stages, i)])
  <2>1. CASE i = 1
    <3>1. CASE preset
      <4>1. buffer[1] = Holding(plan.data)
        BY <1>1, <1>2, <3>1
      <4>2. pos[1] = 0 /\ pos[0] = Len(D)
        BY <1>2, <1>3, <3>1
      <4> QED BY <1>4, <1>7, <1>8, <2>1, <4>1, <4>2
    <3>2. CASE ~preset
      <4>1. buffer[1] = Empty
        BY <1>1, <1>2, <3>2
      <4>2. pos[1] = 0 /\ pos[0] = 0 /\ 0 \in 0..Len(D)
        BY <1>2, <1>3, <3>2
      <4> QED BY <1>5, <1>7, <1>8, <2>1, <4>1, <4>2
    <3> QED BY <3>1, <3>2
  <2>2. CASE i # 1
    <3>1. buffer[i] = Empty
      BY <1>1, <2>2
    <3>2. i \in 2..(N + 1)
      BY <1>2, <2>2
    <3>3. pos[i] = 0 /\ pos[Nearest(plan.stages, i)] = 0 /\ 0 \in 0..Len(D)
      BY <1>2, <1>3, <1>6, <3>2
    <3> QED BY <1>5, <1>8, <3>1, <3>3
  <2> QED BY <2>1, <2>2
<1>11. Holds(D, sink, 0, pos[Nearest(plan.stages, N + 1)])
  <2>1. N + 1 \in 2..(N + 1) /\ 0 \in 0..Len(D)
    BY <1>2
  <2>2. pos[Nearest(plan.stages, N + 1)] = 0
    BY <1>3, <1>6, <2>1
  <2> QED BY <1>1, <1>5, <2>1, <2>2
<1>12. \A i, j \in 1..N : pos[j] <= pos[i]
  BY <1>3
<1>13. Placed(plan, pos, buffer, source, sink)
  BY <1>3, <1>9, <1>10, <1>11, <1>12 DEF Placed, D
<1>14. Counted(plan, pos, transferred)
  <2>1. \A i \in 1..N : plan.stages[i].kind = "limited" => Nearest(plan.stages, i) \in 1..N
    BY <1>1, LimitedIs
  <2> QED BY <1>1, <1>3, <2>1 DEF Counted
<1> QED BY <1>13, <1>14 DEF DataOK

LEMMA InitInv == Init => Inv
<1> SUFFICES ASSUME Init PROVE Inv
  OBVIOUS
<1> DEFINE N == Len(plan.stages)
           preset == plan.stages[1].kind = "null"
<1>1. /\ plan \in Plans /\ at = 0 /\ empty = {} /\ error = {} /\ sink = <<>>
      /\ buffer = [i \in 1..N |-> IF i = 1 /\ preset THEN Holding(plan.data) ELSE Empty]
      /\ source = IF preset THEN <<>> ELSE plan.data
      /\ transferred = [i \in 1..N |-> 0]
      /\ chunk = [i \in 1..N |-> IF kind(i) \in Decoding THEN [NoChunk EXCEPT !.state = "hex"]
                                 ELSE NoChunk]
  BY DEF Init, Stages
<1>2. N \in Nat \ {0} /\ plan.data \in Seq(Byte) /\ Len(plan.data) \in Nat
  BY <1>1, PlanIs
<1>3. StatusOK(plan, at, empty, error)
  BY <1>1, <1>2 DEF StatusOK
<1>4. /\ Empty \in Buffer /\ (\A z \in Nat : BufferOK(Empty, z))
      /\ Holding(plan.data) \in Buffer /\ BufferOK(Holding(plan.data), Len(plan.data))
  BY <1>2, NoBytes DEF Empty, Holding, Buffer, BufferOK
<1>5. BuffersOK(plan, buffer, source, sink)
  <2>1. preset => plan.stages[1].size = Len(plan.data)
    BY <1>1, PipesAssumption
  <2>2. \A i \in 1..N : plan.stages[i].size \in Nat
    BY <1>1, StageIs
  <2> HIDE DEF preset
  <2>3. Filled(plan, buffer, source, sink)
    BY <1>1, <1>2, <1>4, NoBytes DEF Filled
  <2>4. ASSUME NEW i \in 1..N PROVE BufferOK(buffer[i], plan.stages[i].size)
    <3>1. CASE i = 1 /\ preset
      BY <1>1, <1>4, <2>1, <3>1
    <3>2. CASE ~(i = 1 /\ preset)
      BY <1>1, <1>4, <2>2, <3>2
    <3> QED BY <3>1, <3>2
  <2> QED BY <1>1, <2>3, <2>4 DEF BuffersOK
<1>6. ChunksOK(plan, chunk)
  <2> DEFINE c == [NoChunk EXCEPT !.state = "hex"]
  <2>1. c = [state |-> "hex", text |-> <<>>, left |-> 0, wanted |-> 0]
    BY DEF NoChunk
  <2> HIDE DEF c
  <2>2. ChunkOK(c) /\ ChunkOK(NoChunk)
    BY <2>1, NoBytes DEF ChunkOK, NoChunk, Chunk, ChunkStates
  <2>3. chunk = [i \in 1..N |-> IF kind(i) \in Decoding THEN c ELSE NoChunk]
    BY <1>1 DEF c
  <2>4. c \in Chunk /\ NoChunk \in Chunk
    BY <2>2 DEF ChunkOK
  <2>5. \A i \in 1..N : chunk[i] = c \/ chunk[i] = NoChunk
    BY <2>3
  <2> QED BY <2>2, <2>3, <2>4, <2>5 DEF ChunksOK
<1>7. CountsOK(plan, transferred)
  <2>1. \A i \in 1..N : plan.stages[i].n \in Nat
    BY <1>1, StageIs
  <2> QED BY <1>1, <2>1 DEF CountsOK
<1> QED BY <1>1, <1>3, <1>5, <1>6, <1>7, InitData DEF Inv

LEMMA StageKeeps ==
  ASSUME Inv, NEW i \in Stages, Stage(i)
  PROVE  Inv'
<1>1. CASE NullStage(i)
  BY <1>1, KeepsNull
<1>2. CASE InStage(i)
  BY <1>2, KeepsIn
<1>3. CASE OutStage(i)
  BY <1>3, KeepsOut
<1>4. CASE LimitedStage(i)
  BY <1>4, KeepsLimited
<1>5. CASE EncodeSize(i)
  BY <1>5, KeepsEncodeSize
<1>6. CASE EncodeHex(i)
  BY <1>6, KeepsEncodeHex
<1>7. CASE EncodeData(i)
  BY <1>7, KeepsEncodeData
<1>8. CASE EncodeCR(i)
  BY <1>8, KeepsEncodeCR
<1>9. CASE EncodeDone(i)
  BY <1>9, KeepsEncodeDone
<1>10. CASE DecodeReturns(i)
  BY <1>10, KeepsDecodeReturns
<1>11. CASE DecodeHex(i)
  BY <1>11, KeepsDecodeHex
<1>12. CASE DecodeSizeEnd(i)
  BY <1>12, KeepsDecodeSizeEnd
<1>13. CASE DecodeData(i)
  BY <1>13, KeepsDecodeData
<1>14. CASE DecodeDataEnd(i)
  BY <1>14, KeepsDecodeDataEnd
<1>15. CASE DecodeNext(i)
  BY <1>15, KeepsDecodeNext
<1> QED BY <1>1, <1>2, <1>3, <1>4, <1>5, <1>6, <1>7, <1>8, <1>9, <1>10, <1>11, <1>12,
           <1>13, <1>14, <1>15 DEF Stage

LEMMA StepInv == Inv /\ [Next]_vars => Inv'
<1> SUFFICES ASSUME Inv, [Next]_vars PROVE Inv'
  OBVIOUS
<1>1. CASE Process
  BY <1>1, KeepsProcess
<1>2. ASSUME NEW i \in Stages, Stage(i) PROVE Inv'
  BY <1>2, StageKeeps
<1>3. ASSUME NEW i \in Stages, InFails(i) PROVE Inv'
  BY <1>3, KeepsInFails
<1>4. ASSUME NEW i \in Stages, OutFails(i) PROVE Inv'
  BY <1>4, KeepsOutFails
<1>5. CASE UNCHANGED vars
  BY <1>5 DEF vars, Inv
<1> QED BY <1>1, <1>2, <1>3, <1>4, <1>5 DEF Next

\* The data is in its order on its way through the buffers, and no more of it
\* has passed a limit than the stage has counted (copyFromNearest, _limited).
THEOREM InvHolds == Spec => []Inv
BY InitInv, StepInv, PTL DEF Spec

-----------------------------------------------------------------------------
(* What the invariant says of the output                                    *)

LEMMA InvTypes == Inv => TypeOK
<1> SUFFICES ASSUME Inv PROVE TypeOK
  OBVIOUS
<1>1. plan \in Plans /\ StatusOK(plan, at, empty, error)
  BY DEF Inv
<1>2. Stages = 1..Len(plan.stages) /\ End = Len(plan.stages)
  BY DEF Stages, End
<1>3. \A i \in Stages : BufferOK(buffer[i], size(i))
  BY <1>2 DEF Inv, BuffersOK, size
<1>4. \A i \in Stages : chunk[i].left \in 0..chunk[i].wanted
  BY ChunkIs
<1>5. ASSUME NEW i \in Stages, kind(i) = "limited"
      PROVE  transferred[i] \in 0..plan.stages[i].n
  <2>1. transferred[i] \in Nat /\ transferred[i] <= plan.stages[i].n
    BY <1>2, <1>5 DEF Inv, CountsOK, kind
  <2>2. plan.stages[i].n \in Nat
    BY <1>1, <1>2, StageIs
  <2> QED BY <2>1, <2>2
<1> QED BY <1>1, <1>2, <1>3, <1>4, <1>5 DEF TypeOK, StatusOK

\* The first e of the data have come out, no more than a limit lets pass.
LEMMA OutputIs ==
  ASSUME Inv
  PROVE  \E e \in 0..Len(Data(plan)) :
           /\ DataOf(Output) = SubSeq(Data(plan), 1, e)
           /\ \A l \in Limits : e <= l
<1> DEFINE N == Len(plan.stages)
           D == Data(plan)
           m == Nearest(plan.stages, N + 1)
<1>1. plan \in Plans /\ N \in Nat \ {0} /\ D \in Seq(Byte) /\ Len(D) \in Nat /\ End = N
  BY PlanIs DEF Inv, End
<1>2. PICK pos : Placed(plan, pos, buffer, source, sink) /\ Counted(plan, pos, transferred)
  BY DEF Inv, DataOK
<1>3. /\ pos \in [0..N -> Nat] /\ Holds(D, sink, 0, pos[m])
      /\ \A i \in 1..N : Has(plan, i) =>
           Holds(D, buffer[i].data, pos[i], pos[Nearest(plan.stages, i)])
      /\ \A i, j \in 1..N : Has(plan, i) /\ Has(plan, j) /\ i < j => pos[j] <= pos[i]
  BY <1>2 DEF Placed
<1>4. /\ sink \in Seq(Byte) /\ buffer[N] \in Buffer /\ buffer[N].data \in Seq(Byte)
      /\ BufferOK(buffer[N], plan.stages[N].size)
      /\ (plan.stages[N].kind \notin Writing => sink = <<>>)
  <2>1. N \in 1..N
    BY <1>1
  <2> QED BY <2>1 DEF Inv, BuffersOK, Filled, Buffer
<1>5. Output = IF plan.stages[N].kind \in Writing THEN sink ELSE buffer[N].data
  <2>1. sink \o <<>> = sink /\ <<>> \o buffer[N].data = buffer[N].data
    BY <1>4, ConcatEmptySeq
  <2> QED BY <1>1, <1>4, <2>1 DEF Output, kind
<1>6. ASSUME NEW i \in 1..N, plan.stages[i].kind = "limited"
      PROVE  /\ i > 1 /\ i \in 1..(N + 1) /\ Has(plan, i)
             /\ Nearest(plan.stages, i) \in 1..N /\ Nearest(plan.stages, i) < i
             /\ Has(plan, Nearest(plan.stages, i))
             /\ pos[Nearest(plan.stages, i)] \in Nat
             /\ pos[Nearest(plan.stages, i)] <= plan.stages[i].n
  <2>1. /\ i > 1 /\ i \in 1..(N + 1) /\ Has(plan, i)
        /\ Nearest(plan.stages, i) \in 1..N /\ Nearest(plan.stages, i) < i
    BY <1>1, <1>6, LimitedIs
  <2>2. Has(plan, Nearest(plan.stages, i))
    BY <1>1, <2>1, NearestIs DEF Has
  <2>3. pos[Nearest(plan.stages, i)] <= transferred[i]
    BY <1>2, <1>6 DEF Counted
  <2>4. transferred[i] \in Nat /\ transferred[i] <= plan.stages[i].n
    BY <1>6 DEF Inv, CountsOK
  <2>5. pos[Nearest(plan.stages, i)] \in Nat /\ plan.stages[i].n \in Nat
    <3>1. Nearest(plan.stages, i) \in 0..N
      BY <2>1
    <3>2. plan.stages[i].n \in Nat
      BY <1>1, StageIs
    <3> QED BY <1>3, <3>1, <3>2
  <2> QED BY <2>1, <2>2, <2>3, <2>4, <2>5
<1>7. /\ m \in 1..N /\ Has(plan, m) /\ \A j \in 1..N : Has(plan, j) => j <= m
  <2>1. N + 1 \in 1..(N + 1) /\ N + 1 > 1 /\ (N + 1) - 1 = N
    BY <1>1
  <2>2. /\ m \in 0..((N + 1) - 1) /\ m >= 1 /\ (m > 0 => plan.stages[m].size > 0)
        /\ \A j \in 1..((N + 1) - 1) : plan.stages[j].size > 0 => j <= m
    BY <1>1, <2>1, NearestIs
  <2> QED BY <2>1, <2>2 DEF Has
<1>8. Limits = {plan.stages[i].n : i \in {j \in 1..N : plan.stages[j].kind = "limited"}}
  BY DEF Limits, Stages, kind
<1> SUFFICES \E e \in 0..Len(D) :
               /\ DataOf(Output) = SubSeq(D, 1, e)
               /\ \A i \in 1..N : plan.stages[i].kind = "limited" => e <= plan.stages[i].n
  BY <1>8 DEF D
<1>9. ASSUME NEW s, NEW a, NEW e, Holds(D, s, a, e), a = 0
      PROVE  e \in 0..Len(D) /\ DataOf(s) = SubSeq(D, 1, e)
  <2>1. a + 1 = 1
    BY <1>9
  <2>2. e \in Nat /\ e <= Len(D) /\ DataOf(s) = SubSeq(D, a + 1, e)
    BY <1>9 DEF Holds
  <2> HIDE DEF D
  <2> QED BY <1>1, <2>1, <2>2
<1> HIDE DEF m, D
<1>10. CASE plan.stages[N].kind \in Writing
  <2>1. pos[m] \in 0..Len(D) /\ DataOf(Output) = SubSeq(D, 1, pos[m])
    BY <1>3, <1>5, <1>9, <1>10
  <2>2. ASSUME NEW i \in 1..N, plan.stages[i].kind = "limited"
        PROVE  pos[m] <= plan.stages[i].n
    <3> DEFINE k == Nearest(plan.stages, i)
    <3>1. /\ Has(plan, i) /\ k \in 1..N /\ k < i /\ Has(plan, k)
          /\ pos[k] \in Nat /\ pos[k] <= plan.stages[i].n
      BY <1>6, <2>2
    <3> HIDE DEF k
    <3>2. i <= m
      BY <1>7, <3>1
    <3>3. k < m
      BY <1>7, <3>1, <3>2
    <3>4. pos[m] <= pos[k]
      BY <1>3, <1>7, <3>1, <3>3
    <3>5. plan.stages[i].n \in Nat
      BY <1>1, StageIs
    <3> QED BY <2>1, <3>1, <3>4, <3>5
  <2> QED BY <2>1, <2>2
<1>11. CASE plan.stages[N].kind \notin Writing /\ Has(plan, N)
  <2> DEFINE k == Nearest(plan.stages, N)
  <2>1. m = N
    <3>1. N \in 1..N
      BY <1>1
    <3>2. N <= m
      BY <1>7, <1>11, <3>1
    <3> QED BY <1>7, <3>2
  <2>2. pos[N] = 0
    BY <1>1, <1>3, <1>4, <1>11, <2>1, NoBytes, HoldsEmpty
  <2>3. Holds(D, buffer[N].data, pos[N], pos[k])
    <3>1. N \in 1..N
      BY <1>1
    <3> QED BY <1>3, <1>11, <3>1
  <2>4. pos[k] \in 0..Len(D) /\ DataOf(Output) = SubSeq(D, 1, pos[k])
    BY <1>5, <1>9, <1>11, <2>2, <2>3
  <2>5. ASSUME NEW i \in 1..N, plan.stages[i].kind = "limited"
        PROVE  pos[k] <= plan.stages[i].n
    <3> DEFINE h == Nearest(plan.stages, i)
    <3>1. /\ i > 1 /\ Has(plan, i) /\ h \in 1..N /\ h < i /\ Has(plan, h)
          /\ pos[h] \in Nat /\ pos[h] <= plan.stages[i].n
      BY <1>6, <2>5
    <3>2. CASE i = N
      BY <3>1, <3>2
    <3>3. CASE i # N
      <4>1. i \in 1..(N - 1) /\ N \in 1..(N + 1) /\ N > 1
        BY <1>1, <3>3, <3>1
      <4>2. /\ i <= k /\ k \in 0..(N - 1) /\ (k > 0 => Has(plan, k))
        BY <1>1, <3>1, <4>1, NearestIs DEF Has
      <4> HIDE DEF h, k
      <4>3. k \in 1..N /\ Has(plan, k) /\ h < k
        BY <1>1, <3>1, <4>1, <4>2
      <4>4. pos[k] <= pos[h]
        BY <1>3, <3>1, <4>3
      <4>5. plan.stages[i].n \in Nat
        BY <1>1, StageIs
      <4> QED BY <2>4, <3>1, <4>4, <4>5
    <3> QED BY <3>2, <3>3
  <2> QED BY <2>4, <2>5
<1>12. CASE plan.stages[N].kind \notin Writing /\ ~Has(plan, N)
  <2>1. buffer[N].data = <<>>
    <3>1. plan.stages[N].size = 0
      <4>1. plan.stages[N].size \in Nat
        BY <1>1, StageIs
      <4> QED BY <1>12, <4>1 DEF Has
    <3>2. Len(buffer[N].data) = 0
      <4>1. buffer[N].gap \in Nat /\ Len(buffer[N].data) \in Nat
        BY <1>4 DEF Buffer
      <4> QED BY <1>4, <3>1, <4>1 DEF BufferOK
    <3> QED BY <1>4, <3>2, EmptySeq
  <2>2. DataOf(Output) = <<>>
    BY <1>5, <1>12, <2>1, NoBytes
  <2>3. SubSeq(D, 1, 0) = <<>> /\ 0 \in 0..Len(D)
    BY <1>1, SubSeqEmpty
  <2>4. \A i \in 1..N : plan.stages[i].n \in Nat
    BY <1>1, StageIs
  <2> QED BY <2>2, <2>3, <2>4
<1> QED BY <1>10, <1>11, <1>12

\* One beginning of a sequence is a beginning of a longer one.
LEMMA Beginnings ==
  ASSUME NEW D \in Seq(Byte), NEW e \in Nat, NEW m \in Nat, e <= m, m <= Len(D)
  PROVE  IsPrefix(SubSeq(D, 1, e), SubSeq(D, 1, m))
<1> DEFINE s == SubSeq(D, 1, e)
           t == SubSeq(D, 1, m)
<1>1. /\ s \in Seq(Byte) /\ Len(s) = e /\ t \in Seq(Byte) /\ Len(t) = m
      /\ \A j \in 1..e : s[j] = D[j]
      /\ \A j \in 1..m : t[j] = D[j]
  OBVIOUS
<1> HIDE DEF s, t
<1>2. SubSeq(s, 1, Len(s)) = s
  BY <1>1, SubSeqFull
<1> DEFINE u == SubSeq(t, 1, Len(s))
<1>3. u \in Seq(Byte) /\ Len(u) = e /\ \A j \in 1..e : u[j] = t[j]
  BY <1>1
<1> HIDE DEF u
<1>4. u = s
  <2>1. \A j \in 1..Len(u) : u[j] = s[j]
    BY <1>1, <1>3
  <2> QED BY <1>1, <1>3, <2>1, SeqEqual
<1> QED BY <1>1, <1>2, <1>4 DEF IsPrefix, s, t, u

LEMMA InvOutput == Inv => OutputInOrder
<1> SUFFICES ASSUME Inv PROVE OutputInOrder
  OBVIOUS
<1> DEFINE D == Data(plan)
           T == {Len(D)} \cup Limits
<1>1. D \in Seq(Byte) /\ Len(D) \in Nat /\ plan \in Plans
  BY PlanIs DEF Inv
<1>2. PICK e \in 0..Len(D) : DataOf(Output) = SubSeq(D, 1, e) /\ \A l \in Limits : e <= l
  BY OutputIs
<1>3. T \subseteq Nat /\ T # {}
  <2>1. \A i \in 1..Len(plan.stages) : plan.stages[i].n \in Nat
    BY <1>1, StageIs
  <2>2. Limits \subseteq Nat
    BY <2>1 DEF Limits, Stages
  <2> HIDE DEF D
  <2> QED BY <1>1, <2>2
<1>4. Expected = SubSeq(D, 1, Min(T))
  BY DEF Expected, Data
<1> HIDE DEF D
<1>5. Min(T) \in T /\ \A y \in T : Min(T) <= y
  <2> HIDE DEF T
  <2> QED BY <1>3, MinIs
<1>6. Min(T) \in Nat /\ e <= Min(T) /\ Min(T) <= Len(D) /\ e \in Nat
  <2>1. \A y \in T : e <= y
    BY <1>1, <1>2
  <2>2. Len(D) \in T
    OBVIOUS
  <2> HIDE DEF T
  <2>3. e <= Min(T) /\ Min(T) <= Len(D)
    BY <1>5, <2>1, <2>2
  <2>4. Min(T) \in Nat
    BY <1>3, <1>5
  <2> QED BY <1>1, <2>3, <2>4
<1> DEFINE k == Min(T)
<1> HIDE DEF k
<1>7. IsPrefix(SubSeq(D, 1, e), SubSeq(D, 1, k))
  BY <1>1, <1>6, Beginnings DEF k
<1> QED BY <1>2, <1>4, <1>7, InvTypes DEF OutputInOrder, k

\* Whatever the sizes of the buffers and the parts that are read and written:
\* the data that has come out of a pipeline is a beginning of the data it was
\* given, and ends at its limits.
THEOREM OutputOrdered == Spec => []OutputInOrder
<1>1. Spec => []Inv
  BY InvHolds
<1>2. Inv => OutputInOrder
  BY InvOutput
<1> QED BY <1>1, <1>2, PTL

-----------------------------------------------------------------------------
(* Reading frames, byte by byte                                             *)

\* A decoder between two bytes.
At(state, left, wanted) ==
  [state |-> state, text |-> <<>>, left |-> left, wanted |-> wanted]
Start == At("hex", 0, 0)
Ended == At("data", 0, 0)
Bad == At("bad", 0, 0)

Reader == {At(state, left, wanted) :
             state \in {"hex", "lf", "data", "next", "bad"}, left \in Nat, wanted \in Nat}

\* What byte b makes of it.
Read(c, b) ==
  IF c.state = "hex" /\ b[1] = "hex"
  THEN At("hex", c.wanted * Base + b[2], c.wanted * Base + b[2])
  ELSE IF c.state = "hex" /\ b = CR THEN At("lf", c.wanted, c.wanted)
  ELSE IF c.state = "lf" /\ b = LF THEN At("data", c.wanted, c.wanted)
  ELSE IF c.state = "data" /\ c.left > 0 /\ IsData(b) THEN At("data", c.left - 1, c.wanted)
  ELSE IF c.state = "data" /\ c.left = 0 /\ c.wanted > 0 /\ b = CR
       THEN At("next", 0, c.wanted)
  ELSE IF c.state = "next" /\ b = LF THEN Start
  ELSE Bad

LEMMA AtIs ==
  ASSUME NEW s, NEW l, NEW w
  PROVE  /\ At(s, l, w).state = s /\ At(s, l, w).left = l /\ At(s, l, w).wanted = w
         /\ At(s, l, w).text = <<>>
BY DEF At

LEMMA ReaderIs ==
  ASSUME NEW c \in Reader
  PROVE  /\ c = At(c.state, c.left, c.wanted) /\ c.left \in Nat /\ c.wanted \in Nat
         /\ c.state \in {"hex", "lf", "data", "next", "bad"} /\ c.text = <<>>
<1>1. PICK s \in {"hex", "lf", "data", "next", "bad"}, l \in Nat, w \in Nat : c = At(s, l, w)
  BY DEF Reader
<1> QED BY <1>1, AtIs

LEMMA InReader ==
  ASSUME NEW s \in {"hex", "lf", "data", "next", "bad"}, NEW l \in Nat, NEW w \in Nat
  PROVE  At(s, l, w) \in Reader
BY DEF Reader

LEMMA ReadType ==
  ASSUME NEW c \in Reader, NEW b \in Byte
  PROVE  Read(c, b) \in Reader
<1>1. c.left \in Nat /\ c.wanted \in Nat
  BY ReaderIs
<1>2. b[2] \in Nat /\ Base \in Nat
  BY PipesAssumption DEF Byte
<1> DEFINE w == c.wanted * Base + b[2]
<1>3. w \in Nat
  BY <1>1, <1>2
<1>4. c.left > 0 => c.left - 1 \in Nat
  BY <1>1
<1>5. Start \in Reader /\ Bad \in Reader
  BY InReader DEF Start, Bad
<1>6. /\ Read(c, b) \in {At("hex", w, w), At("lf", c.wanted, c.wanted),
                         At("data", c.wanted, c.wanted), At("next", 0, c.wanted), Start, Bad}
         \/ (c.left > 0 /\ Read(c, b) = At("data", c.left - 1, c.wanted))
  BY DEF Read
<1> HIDE DEF w
<1>7. /\ At("hex", w, w) \in Reader /\ At("lf", c.wanted, c.wanted) \in Reader
      /\ At("data", c.wanted, c.wanted) \in Reader /\ At("next", 0, c.wanted) \in Reader
  BY <1>1, <1>3, InReader
<1>8. c.left > 0 => At("data", c.left - 1, c.wanted) \in Reader
  BY <1>1, <1>4, InReader
<1> QED BY <1>5, <1>6, <1>7, <1>8

\* What the bytes of s make of it.
Led(c, s) ==
  LET of[n \in 0..Len(s)] == IF n = 0 THEN c ELSE Read(of[n - 1], s[n])
  IN of[Len(s)]

Leading(c, s, f) == f = [n \in 0..Len(s) |-> IF n = 0 THEN c ELSE Read(f[n - 1], s[n])]

LEMMA LeadingExists ==
  ASSUME NEW c \in Reader, NEW s \in Seq(Byte)
  PROVE  \E f : Leading(c, s, f)
<1> DEFINE step == [j \in 1..Len(s) |-> [d \in Reader |-> Read(d, s[j])]]
<1>1. Len(s) \in Nat /\ \A j \in 1..Len(s) : s[j] \in Byte
  OBVIOUS
<1>2. step \in [1..Len(s) -> [Reader -> Reader]]
  <2>1. \A d \in Reader, j \in 1..Len(s) : Read(d, s[j]) \in Reader
    BY <1>1, ReadType
  <2> QED BY <2>1
<1>3. \A j \in 1..Len(s), d \in Reader : step[j][d] = Read(d, s[j])
  OBVIOUS
<1> HIDE DEF step
<1>4. PICK f \in [0..Len(s) -> Reader] : Stepping(Len(s), c, step, f)
  BY <1>1, <1>2, SteppingExists
<1>5. f[0] = c /\ \A j \in 1..Len(s) : f[j] = step[j][f[j - 1]]
  BY <1>4 DEF Stepping
<1>6. \A n \in 0..Len(s) : f[n] = IF n = 0 THEN c ELSE Read(f[n - 1], s[n])
  <2> TAKE n \in 0..Len(s)
  <2>1. CASE n = 0
    BY <1>5, <2>1
  <2>2. CASE n # 0
    <3>1. n \in 1..Len(s) /\ n - 1 \in 0..Len(s)
      BY <1>1, <2>2
    <3>2. f[n - 1] \in Reader
      BY <1>4, <3>1
    <3>3. f[n] = step[n][f[n - 1]]
      BY <1>5, <3>1
    <3> QED BY <1>3, <2>2, <3>1, <3>2, <3>3
  <2> QED BY <2>1, <2>2
<1>7. f = [n \in 0..Len(s) |-> IF n = 0 THEN c ELSE Read(f[n - 1], s[n])]
  BY <1>4, <1>6
<1> QED BY <1>7 DEF Leading

\* f is what c is after each of the bytes.
Passing(c, s, f) ==
  /\ Led(c, s) = f[Len(s)] /\ f[0] = c
  /\ \A j \in 1..Len(s) : f[j] = Read(f[j - 1], s[j])
  /\ \A j \in 0..Len(s) : f[j] \in Reader

LEMMA LedIs ==
  ASSUME NEW c \in Reader, NEW s \in Seq(Byte)
  PROVE  \E f : Passing(c, s, f)
<1> DEFINE F == CHOOSE f : Leading(c, s, f)
<1>0. Len(s) \in Nat /\ \A j \in 1..Len(s) : s[j] \in Byte
  OBVIOUS
<1>1. Led(c, s) = F[Len(s)]
  BY DEF Led, Leading
<1>2. Leading(c, s, F)
  <2>1. \E f : Leading(c, s, f)
    BY LeadingExists
  <2> QED BY <2>1
<1> HIDE DEF F
<1>3. \A n \in 0..Len(s) : F[n] = IF n = 0 THEN c ELSE Read(F[n - 1], s[n])
  <2> DEFINE g == [n \in 0..Len(s) |-> IF n = 0 THEN c ELSE Read(F[n - 1], s[n])]
  <2>1. F = g
    BY <1>2 DEF Leading
  <2>2. \A n \in 0..Len(s) : g[n] = IF n = 0 THEN c ELSE Read(F[n - 1], s[n])
    OBVIOUS
  <2> HIDE DEF g
  <2>3. \A n \in 0..Len(s) : F[n] = g[n]
    BY <2>1
  <2> QED BY <2>2, <2>3
<1>4. F[0] = c /\ \A j \in 1..Len(s) : F[j] = Read(F[j - 1], s[j])
  <2>1. F[0] = c
    BY <1>0, <1>3
  <2>2. ASSUME NEW j \in 1..Len(s) PROVE F[j] = Read(F[j - 1], s[j])
    <3>1. j \in 0..Len(s) /\ j # 0
      OBVIOUS
    <3> QED BY <1>3, <3>1
  <2> QED BY <2>1, <2>2
<1> DEFINE T == {j \in 0..Len(s) : F[j] \in Reader}
<1>5. 0 \in T
  BY <1>0, <1>4
<1>6. ASSUME NEW j \in 1..Len(s), j - 1 \in T PROVE j \in T
  <2>1. F[j - 1] \in Reader /\ s[j] \in Byte /\ j \in 0..Len(s)
    BY <1>0, <1>6
  <2>2. F[j] \in Reader
    BY <1>4, <2>1, ReadType
  <2> QED BY <2>1, <2>2
<1>7. \A j \in 0..Len(s) : j \in T
  <2> HIDE DEF T
  <2> QED BY <1>0, <1>5, <1>6, UpTo
<1>8. \A j \in 0..Len(s) : F[j] \in Reader
  BY <1>7
<1> QED BY <1>1, <1>4, <1>8 DEF Passing

LEMMA LedType ==
  ASSUME NEW c \in Reader, NEW s \in Seq(Byte)
  PROVE  Led(c, s) \in Reader
<1>1. Len(s) \in 0..Len(s)
  OBVIOUS
<1>2. PICK f : Passing(c, s, f)
  BY LedIs
<1> QED BY <1>1, <1>2 DEF Passing

LEMMA LedNothing ==
  ASSUME NEW c \in Reader
  PROVE  Led(c, <<>>) = c
<1> DEFINE s == <<>>
<1>1. s \in Seq(Byte) /\ Len(s) = 0
  OBVIOUS
<1> HIDE DEF s
<1>2. PICK f : Passing(c, s, f)
  BY <1>1, LedIs
<1>3. Led(c, s) = f[0] /\ f[0] = c
  BY <1>1, <1>2 DEF Passing
<1> QED BY <1>3 DEF s

LEMMA LedByte ==
  ASSUME NEW c \in Reader, NEW b \in Byte
  PROVE  Led(c, <<b>>) = Read(c, b)
<1> DEFINE s == <<b>>
<1>1. s \in Seq(Byte) /\ Len(s) = 1 /\ s[1] = b
  OBVIOUS
<1> HIDE DEF s
<1>2. PICK f : Passing(c, s, f)
  BY <1>1, LedIs
<1>3. 1 \in 1..Len(s) /\ 1 - 1 = 0
  BY <1>1
<1>4. f[1] = Read(f[0], s[1]) /\ Led(c, s) = f[1] /\ f[0] = c
  BY <1>1, <1>2, <1>3 DEF Passing
<1> QED BY <1>1, <1>4 DEF s

\* One sequence after the other.
LEMMA LedJoin ==
  ASSUME NEW c \in Reader, NEW s \in Seq(Byte), NEW t \in Seq(Byte)
  PROVE  Led(c, s \o t) = Led(Led(c, s), t)
<1> DEFINE st == s \o t
           m == Len(s)
           n == Len(t)
           d == Led(c, s)
<1>1. st \in Seq(Byte) /\ Len(st) = m + n /\ m \in Nat /\ n \in Nat
  BY ConcatProperties
<1>2. \A j \in 1..m : st[j] = s[j]
  BY ConcatProperties
<1>3. \A j \in 1..n : st[m + j] = t[j]
  <2> TAKE j \in 1..n
  <2>1. m + j \in 1..(m + n) /\ ~(m + j <= m) /\ (m + j) - m = j
    OBVIOUS
  <2> QED BY <2>1, ConcatProperties
<1>4. d \in Reader
  BY LedType
<1> HIDE DEF st, m, n, d
<1>01. PICK f : Passing(c, s, f)
  BY LedIs
<1>02. PICK h : Passing(d, t, h)
  BY <1>4, LedIs
<1>03. PICK g : Passing(c, st, g)
  BY <1>1, LedIs
<1>5. d = f[m] /\ f[0] = c /\ \A j \in 1..m : f[j] = Read(f[j - 1], s[j])
  BY <1>01 DEF m, d, Passing
<1>6. Led(d, t) = h[n] /\ h[0] = d /\ \A j \in 1..n : h[j] = Read(h[j - 1], t[j])
  BY <1>02 DEF n, Passing
<1>7. /\ Led(c, st) = g[m + n] /\ g[0] = c
      /\ \A j \in 1..(m + n) : g[j] = Read(g[j - 1], st[j])
  BY <1>03, <1>1 DEF Passing
<1>8. g[m] = f[m]
  <2> DEFINE T == {j \in 0..m : g[j] = f[j]}
  <2>1. 0 \in T
    BY <1>1, <1>5, <1>7
  <2>2. ASSUME NEW j \in 1..m, j - 1 \in T PROVE j \in T
    <3>1. j \in 1..(m + n) /\ j \in 0..m
      BY <1>1
    <3>2. g[j - 1] = f[j - 1]
      BY <2>2
    <3>3. g[j] = f[j]
      BY <1>2, <1>5, <1>7, <3>1, <3>2
    <3> QED BY <3>1, <3>3
  <2>3. \A j \in 0..m : j \in T
    <3> HIDE DEF T
    <3> QED BY <1>1, <2>1, <2>2, UpTo
  <2> QED BY <1>1, <2>3
<1>9. g[m + n] = h[n]
  <2> DEFINE T == {j \in 0..n : g[m + j] = h[j]}
  <2>1. 0 \in T
    <3>1. m + 0 = m /\ 0 \in 0..n
      BY <1>1
    <3> QED BY <1>5, <1>6, <1>8, <3>1
  <2>2. ASSUME NEW j \in 1..n, j - 1 \in T PROVE j \in T
    <3>1. m + j \in 1..(m + n) /\ (m + j) - 1 = m + (j - 1) /\ j \in 0..n
      BY <1>1
    <3>2. g[m + (j - 1)] = h[j - 1]
      BY <2>2
    <3>3. g[m + j] = Read(g[m + (j - 1)], st[m + j])
      <4>1. g[m + j] = Read(g[(m + j) - 1], st[m + j])
        BY <1>7, <3>1
      <4> QED BY <3>1, <4>1
    <3>4. g[m + j] = h[j]
      BY <1>3, <1>6, <3>2, <3>3
    <3> QED BY <3>1, <3>4
  <2>3. \A j \in 0..n : j \in T
    <3> HIDE DEF T
    <3> QED BY <1>1, <2>1, <2>2, UpTo
  <2>4. n \in T
    <3> HIDE DEF T
    <3>1. n \in 0..n
      BY <1>1
    <3> QED BY <2>3, <3>1
  <2> QED BY <2>4
<1> QED BY <1>6, <1>7, <1>9 DEF st, d

\* What has gone wrong stays wrong, and nothing comes behind the end.
LEMMA LedBad ==
  ASSUME NEW s \in Seq(Byte)
  PROVE  Led(Bad, s) = Bad /\ (s # <<>> => Led(Ended, s) = Bad)
<1>0. Bad \in Reader /\ Ended \in Reader
  BY InReader DEF Bad, Ended
<1>1. \A b \in Byte : Read(Bad, b) = Bad /\ Read(Ended, b) = Bad
  BY DEF Read, Bad, Ended, At
<1>2. \A t \in Seq(Byte) : Led(Bad, t) = Bad
  <2> TAKE t \in Seq(Byte)
  <2>0. PICK f : Passing(Bad, t, f)
    BY <1>0, LedIs
  <2>1. /\ Led(Bad, t) = f[Len(t)] /\ f[0] = Bad
        /\ \A j \in 1..Len(t) : f[j] = Read(f[j - 1], t[j])
    BY <2>0 DEF Passing
  <2>2. Len(t) \in Nat /\ \A j \in 1..Len(t) : t[j] \in Byte
    OBVIOUS
  <2> DEFINE T == {j \in 0..Len(t) : f[j] = Bad}
  <2>3. 0 \in T
    BY <2>1, <2>2
  <2>4. \A j \in 1..Len(t) : j - 1 \in T => j \in T
    BY <1>1, <2>1, <2>2
  <2>5. \A j \in 0..Len(t) : j \in T
    <3> HIDE DEF T
    <3> QED BY <2>2, <2>3, <2>4, UpTo
  <2> QED BY <2>1, <2>2, <2>5
<1>3. ASSUME s # <<>> PROVE Led(Ended, s) = Bad
  <2> DEFINE a == SubSeq(s, 1, 1)
             t == SubSeq(s, 2, Len(s))
  <2>1. 1 \in 0..Len(s) /\ 1 + 1 = 2
    BY <1>3
  <2>2. a \in Seq(Byte) /\ Len(a) = 1 /\ t \in Seq(Byte) /\ s = a \o t
    BY <2>1, Cut
  <2> HIDE DEF a, t
  <2>3. a[1] \in Byte /\ a = <<a[1]>>
    <3>1. a[1] \in Byte
      <4>0. a \in Seq(Byte)
        BY <2>2
      <4>1. \A j \in 1..Len(a) : a[j] \in Byte
        BY <4>0
      <4>2. 1 \in 1..Len(a)
        BY <2>2
      <4> QED BY <4>1, <4>2
    <3> DEFINE b == <<a[1]>>
    <3>2. b \in Seq(Byte) /\ Len(b) = 1 /\ b[1] = a[1]
      BY <3>1
    <3> HIDE DEF b
    <3>3. \A j \in 1..Len(a) : a[j] = b[j]
      BY <2>2, <3>2
    <3>4. a = b
      BY <2>2, <3>2, <3>3, SeqEqual
    <3> QED BY <3>1, <3>4 DEF b
  <2>4. Led(Ended, a) = Bad
    BY <1>0, <1>1, <2>3, LedByte
  <2>5. Led(Ended, s) = Led(Led(Ended, a), t)
    BY <1>0, <2>2, LedJoin
  <2> QED BY <1>2, <2>2, <2>4, <2>5
<1> QED BY <1>2, <1>3

\* The way through a part of s.
LEMMA PassingPart ==
  ASSUME NEW c \in Reader, NEW s \in Seq(Byte), NEW f, Passing(c, s, f), NEW n \in 0..Len(s)
  PROVE  Led(c, SubSeq(s, 1, n)) = f[n]
<1> DEFINE t == SubSeq(s, 1, n)
<1>1. t \in Seq(Byte) /\ Len(t) = n /\ n \in Nat /\ Len(s) \in Nat
  BY Cut
<1>2. \A j \in 1..n : t[j] = s[j]
  OBVIOUS
<1> HIDE DEF t
<1>3. PICK h : Passing(c, t, h)
  BY <1>1, LedIs
<1>4. h[0] = c /\ Led(c, t) = h[n] /\ \A j \in 1..n : h[j] = Read(h[j - 1], t[j])
  BY <1>1, <1>3 DEF Passing
<1>5. f[0] = c /\ \A j \in 1..Len(s) : f[j] = Read(f[j - 1], s[j])
  BY DEF Passing
<1> DEFINE T == {j \in 0..n : h[j] = f[j]}
<1>6. 0 \in T
  BY <1>1, <1>4, <1>5
<1>7. ASSUME NEW j \in 1..n, j - 1 \in T PROVE j \in T
  <2>1. j \in 1..Len(s) /\ j \in 0..n
    BY <1>1
  <2>2. h[j - 1] = f[j - 1]
    BY <1>7
  <2>3. h[j] = f[j]
    BY <1>2, <1>4, <1>5, <2>1, <2>2
  <2> QED BY <2>1, <2>3
<1>8. \A j \in 0..n : j \in T
  <2> HIDE DEF T
  <2> QED BY <1>1, <1>6, <1>7, UpTo
<1>9. h[n] = f[n]
  BY <1>1, <1>8
<1> QED BY <1>4, <1>9 DEF t

\* A way that does not end badly is nowhere bad.
LEMMA PassingGood ==
  ASSUME NEW c \in Reader, NEW s \in Seq(Byte), NEW f, Passing(c, s, f), Led(c, s) # Bad
  PROVE  \A j \in 0..Len(s) : f[j] # Bad
<1> SUFFICES ASSUME NEW j \in 0..Len(s) PROVE f[j] # Bad
  OBVIOUS
<1> DEFINE a == SubSeq(s, 1, j)
           b == SubSeq(s, j + 1, Len(s))
<1>1. a \in Seq(Byte) /\ b \in Seq(Byte) /\ s = a \o b
  BY Cut
<1>2. Led(c, a) = f[j]
  BY PassingPart
<1> HIDE DEF a, b
<1>3. Led(c, s) = Led(Led(c, a), b)
  BY <1>1, LedJoin
<1>4. Led(Bad, b) = Bad
  BY <1>1, LedBad
<1> QED BY <1>2, <1>3, <1>4

LEMMA LedFirst ==
  ASSUME NEW c \in Reader, NEW s \in Seq(Byte), NEW t \in Seq(Byte), Led(c, s \o t) # Bad
  PROVE  Led(c, s) # Bad
<1>1. Led(c, s \o t) = Led(Led(c, s), t)
  BY LedJoin
<1>2. Led(Bad, t) = Bad
  BY LedBad
<1> QED BY <1>1, <1>2

\* Data, of which a chunk has enough left.
LEMMA LedData ==
  ASSUME NEW l \in Nat, NEW w \in Nat, NEW s \in Seq(Byte), Len(s) <= l,
         \A j \in 1..Len(s) : IsData(s[j])
  PROVE  Led(At("data", l, w), s) = At("data", l - Len(s), w)
<1> DEFINE c == At("data", l, w)
           n == Len(s)
<1>1. c \in Reader /\ n \in Nat
  BY InReader
<1> HIDE DEF c
<1>2. PICK f : Passing(c, s, f)
  BY <1>1, LedIs
<1>3. f[0] = c /\ Led(c, s) = f[n] /\ \A j \in 1..n : f[j] = Read(f[j - 1], s[j])
  BY <1>2 DEF Passing
<1> HIDE DEF n
<1>4. n <= l /\ \A j \in 1..n : IsData(s[j])
  BY DEF n
<1> DEFINE T == {j \in 0..n : f[j] = At("data", l - j, w)}
<1>5. 0 \in T
  BY <1>1, <1>3 DEF c
<1>6. ASSUME NEW j \in 1..n, j - 1 \in T PROVE j \in T
  <2>1. f[j - 1] = At("data", l - (j - 1), w) /\ j \in 0..n
    BY <1>1, <1>6
  <2> DEFINE k == l - (j - 1)
  <2>2. k > 0 /\ k - 1 = l - j
    BY <1>1, <1>4
  <2> HIDE DEF k
  <2>3. Read(At("data", k, w), s[j]) = At("data", k - 1, w)
    BY <1>4, <2>2 DEF Read, At
  <2>4. f[j] = Read(At("data", k, w), s[j])
    BY <1>3, <2>1 DEF k
  <2> QED BY <2>1, <2>2, <2>3, <2>4
<1>7. \A j \in 0..n : j \in T
  <2> HIDE DEF T
  <2> QED BY <1>1, <1>5, <1>6, UpTo
<1>8. f[n] = At("data", l - n, w)
  BY <1>1, <1>7
<1> QED BY <1>3, <1>8 DEF c, n

\* What a decoder that does not fail takes for data is data.
LEMMA TakesData ==
  ASSUME NEW l \in Nat, NEW w \in Nat, NEW s \in Seq(Byte),
         Led(At("data", l, w), s) # Bad, NEW n \in 0..Len(s), n <= l
  PROVE  /\ \A j \in 1..n : IsData(s[j])
         /\ Led(At("data", l, w), SubSeq(s, 1, n)) = At("data", l - n, w)
<1> DEFINE c == At("data", l, w)
<1>1. c \in Reader /\ n \in Nat /\ Len(s) \in Nat
  BY InReader
<1>2. c = At("data", l - 0, w)
  OBVIOUS
<1> HIDE DEF c
<1>3. PICK f : Passing(c, s, f)
  BY <1>1, LedIs
<1>4. f[0] = c /\ \A j \in 1..Len(s) : f[j] = Read(f[j - 1], s[j])
  BY <1>3 DEF Passing
<1>5. \A j \in 0..Len(s) : f[j] # Bad
  BY <1>1, <1>3, PassingGood DEF c
<1> DEFINE T == {j \in 0..n : f[j] = At("data", l - j, w)}
<1>6. 0 \in T
  BY <1>1, <1>2, <1>4
<1>7. ASSUME NEW j \in 1..n, j - 1 \in T PROVE j \in T /\ IsData(s[j])
  <2>1. f[j - 1] = At("data", l - (j - 1), w) /\ j \in 0..n /\ j \in 1..Len(s) /\ j \in 0..Len(s)
    BY <1>1, <1>7
  <2> DEFINE k == l - (j - 1)
  <2>2. k > 0 /\ k - 1 = l - j
    BY <1>1
  <2> HIDE DEF k
  <2>3. /\ IsData(s[j]) => Read(At("data", k, w), s[j]) = At("data", k - 1, w)
        /\ ~IsData(s[j]) => Read(At("data", k, w), s[j]) = Bad
    BY <2>2 DEF Read, At, Bad
  <2>4. f[j] = Read(At("data", k, w), s[j]) /\ f[j] # Bad
    <3>1. f[j] = Read(f[j - 1], s[j])
      BY <1>4, <2>1
    <3>2. f[j] # Bad
      BY <1>5, <2>1
    <3> QED BY <2>1, <3>1, <3>2 DEF k
  <2> QED BY <2>1, <2>2, <2>3, <2>4
<1>8. \A j \in 0..n : j \in T
  <2> HIDE DEF T
  <2> QED BY <1>1, <1>6, <1>7, UpTo
<1>9. \A j \in 1..n : IsData(s[j])
  <2> TAKE j \in 1..n
  <2>1. j - 1 \in T
    <3> HIDE DEF T
    <3>1. j - 1 \in 0..n
      BY <1>1
    <3> QED BY <1>8, <3>1
  <2> QED BY <1>7, <2>1
<1>10. f[n] = At("data", l - n, w)
  BY <1>1, <1>8
<1>11. Led(c, SubSeq(s, 1, n)) = f[n]
  BY <1>1, <1>3, PassingPart
<1> QED BY <1>9, <1>10, <1>11 DEF c

\* The digits of a number.
LEMMA LedDigits ==
  ASSUME NEW w \in Nat, NEW s \in Seq(Byte), NEW k \in 0..Len(s),
         \A j \in 1..k : s[j][1] = "hex", NEW number, NumberAt(w, s, k, number)
  PROVE  Led(At("hex", w, w), SubSeq(s, 1, k)) = At("hex", number[k], number[k])
<1> DEFINE c == At("hex", w, w)
<1>1. c \in Reader /\ k \in Nat /\ Len(s) \in Nat
  BY InReader
<1>2. PICK f : Passing(c, s, f)
  <2> HIDE DEF c
  <2> QED BY <1>1, LedIs
<1>3. f[0] = c /\ \A j \in 1..Len(s) : f[j] = Read(f[j - 1], s[j])
  BY <1>2 DEF Passing
<1>4. /\ number[0] = w /\ \A j \in 0..k : number[j] \in Nat
      /\ \A j \in 1..k : number[j] = number[j - 1] * Base + s[j][2]
  BY DEF NumberAt
<1> DEFINE T == {j \in 0..k : f[j] = At("hex", number[j], number[j])}
<1>5. 0 \in T
  <2>1. 0 \in 0..k
    BY <1>1
  <2> QED BY <1>3, <1>4, <2>1
<1> HIDE DEF c
<1>6. ASSUME NEW j \in 1..k, j - 1 \in T PROVE j \in T
  <2>1. j \in 1..Len(s) /\ j \in 0..k /\ f[j - 1] = At("hex", number[j - 1], number[j - 1])
    BY <1>1, <1>6
  <2> DEFINE x == number[j - 1]
             b == s[j]
  <2>2. b[1] = "hex" /\ number[j] = x * Base + b[2]
    BY <1>4
  <2>3. f[j] = Read(At("hex", x, x), b)
    BY <1>3, <2>1
  <2> HIDE DEF x, b
  <2>4. Read(At("hex", x, x), b) = At("hex", x * Base + b[2], x * Base + b[2])
    BY <2>2, AtIs DEF Read
  <2> QED BY <2>1, <2>2, <2>3, <2>4
<1>7. \A j \in 0..k : j \in T
  <2> HIDE DEF T
  <2> QED BY <1>1, <1>5, <1>6, UpTo
<1>8. f[k] = At("hex", number[k], number[k])
  BY <1>1, <1>7
<1>9. Led(c, SubSeq(s, 1, k)) = f[k]
  BY <1>1, <1>2, PassingPart
<1> QED BY <1>8, <1>9 DEF c

LEMMA Remainder ==
  ASSUME NEW x \in Nat
  PROVE  \E q, r \in Nat : x \div Base = q /\ x % Base = r /\ x = q * Base + r
<1>1. Base \in Nat /\ Base >= 2
  BY PipesAssumption
<1> DEFINE q == x \div Base
           r == x % Base
<1>2. x = Base * q + r /\ q \in Nat /\ r \in Nat
  BY <1>1, Quotient
<1>3. x \div Base = q /\ x % Base = r
  OBVIOUS
<1> HIDE DEF q, r
<1>4. Base * q = q * Base
  BY <1>1, <1>2
<1>5. x = q * Base + r
  BY <1>2, <1>4
<1> QED BY <1>2, <1>3, <1>5

LEMMA SmallerQuotient ==
  ASSUME NEW x \in Nat, NEW y \in Nat, x <= y
  PROVE  x \div Base <= y \div Base
<1>1. Base \in Nat /\ Base >= 2
  BY PipesAssumption
<1> DEFINE q == x \div Base
           r == y \div Base
           u == x % Base
           v == y % Base
<1>2. /\ x = Base * q + u /\ y = Base * r + v /\ q \in Int /\ r \in Int
      /\ u \in 0..(Base - 1) /\ v \in 0..(Base - 1)
  BY <1>1
<1> HIDE DEF q, r, u, v
<1>3. ASSUME q >= r + 1 PROVE FALSE
  <2>1. Base * q >= Base * (r + 1)
    BY <1>1, <1>2, <1>3
  <2>2. Base * (r + 1) = Base * r + Base
    BY <1>1, <1>2
  <2> QED BY <1>1, <1>2, <2>1, <2>2
<1>4. q <= r
  BY <1>2, <1>3
<1> QED BY <1>4 DEF q, r

LEMMA DividingSteps ==
  ASSUME NEW n \in Nat, NEW left, Dividing(n, left)
  PROVE  \A k \in 0..(n + 1) :
           left[k] \in Nat /\ left[k] = IF k = 0 THEN n ELSE left[k - 1] \div Base
<1>1. \A k \in 0..(n + 1) : left[k] \in Nat
  BY DividingEnds
<1> DEFINE g == [k \in 0..(n + 1) |-> IF k = 0 THEN n ELSE left[k - 1] \div Base]
<1>2. left = g
  BY DEF Dividing
<1>3. \A k \in 0..(n + 1) : g[k] = IF k = 0 THEN n ELSE left[k - 1] \div Base
  OBVIOUS
<1> HIDE DEF g
<1>4. \A k \in 0..(n + 1) : left[k] = g[k]
  BY <1>2
<1> QED BY <1>1, <1>3, <1>4

\* The digits of a number, read again, are the number.
LEMMA LedNumber ==
  ASSUME NEW n \in Nat
  PROVE  Digits(n) \in Seq(Byte) /\ Led(Start, Digits(n)) = At("hex", n, n)
<1>1. PICK left, d : DigitsAre(n, left, d)
  BY DigitsIs
<1> DEFINE s == Digits(n)
           number == [j \in 0..d |-> left[d - j]]
<1>2. /\ d \in 1..(n + 1) /\ left[d] = 0 /\ s \in Seq(Byte) /\ Len(s) = d
      /\ \A j \in 1..d : s[j] = <<"hex", left[d - j] % Base>>
  BY <1>1 DEF DigitsAre
<1>3. \A k \in 0..(n + 1) : left[k] \in Nat /\ left[k] = IF k = 0 THEN n ELSE left[k - 1] \div Base
  BY <1>1, DividingSteps DEF DigitsAre
<1> HIDE DEF s
<1>4. /\ number[0] = 0 /\ number[d] = n /\ \A j \in 0..d : number[j] \in Nat
  <2>1. number[0] = left[d] /\ number[d] = left[0] /\ left[0] = n
    BY <1>2, <1>3
  <2>2. \A j \in 0..d : d - j \in 0..(n + 1) /\ number[j] = left[d - j]
    BY <1>2
  <2> HIDE DEF number
  <2> QED BY <1>2, <1>3, <2>1, <2>2
<1>5. ASSUME NEW j \in 1..d PROVE number[j] = number[j - 1] * Base + s[j][2]
  <2>1. /\ number[j] = left[d - j] /\ number[j - 1] = left[(d - j) + 1]
        /\ d - j \in 0..(n + 1) /\ (d - j) + 1 \in 0..(n + 1) /\ (d - j) + 1 # 0
    BY <1>2
  <2> DEFINE k == d - j
  <2>2. left[k + 1] = left[k] \div Base /\ left[k] \in Nat
    <3>1. left[k + 1] = left[(k + 1) - 1] \div Base
      BY <1>3, <2>1
    <3>2. (k + 1) - 1 = k
      BY <1>2
    <3> QED BY <1>3, <2>1, <3>1, <3>2
  <2>3. PICK q, r \in Nat : left[k] \div Base = q /\ left[k] % Base = r /\ left[k] = q * Base + r
    BY <2>2, Remainder
  <2>4. s[j][2] = left[k] % Base
    <3>1. s[j] = <<"hex", left[k] % Base>>
      BY <1>2
    <3> QED BY <3>1
  <2>5. number[j] = left[k] /\ number[j - 1] = left[k + 1]
    BY <2>1
  <2> HIDE DEF k, number
  <2>6. left[k + 1] = q /\ s[j][2] = r
    BY <2>2, <2>3, <2>4
  <2> QED BY <2>3, <2>5, <2>6
<1>6. \A j \in 1..d : s[j][1] = "hex"
  BY <1>2
<1> HIDE DEF number
<1>7. NumberAt(0, s, d, number) /\ d \in 0..Len(s) /\ 0 \in Nat
  BY <1>2, <1>4, <1>5 DEF NumberAt
<1>8. Led(At("hex", 0, 0), SubSeq(s, 1, d)) = At("hex", number[d], number[d])
  BY <1>2, <1>6, <1>7, LedDigits
<1>9. SubSeq(s, 1, d) = s
  BY <1>2, SubSeqFull
<1> QED BY <1>2, <1>4, <1>8, <1>9 DEF s, Start

\* A text with its end, and what is behind a chunk.
LEMMA LedEnds ==
  ASSUME NEW w \in Nat
  PROVE  /\ <<CR, LF>> \in Seq(Byte)
         /\ Led(At("hex", w, w), <<CR, LF>>) = At("data", w, w)
         /\ w > 0 => Led(At("data", 0, w), <<CR, LF>>) = Start
<1>1. CR \in Byte /\ LF \in Byte /\ <<CR, LF>> \in Seq(Byte) /\ <<CR>> \in Seq(Byte)
      /\ <<LF>> \in Seq(Byte) /\ <<CR, LF>> = <<CR>> \o <<LF>>
  BY DEF CR, LF, Byte
<1>2. \A c \in Reader : Led(c, <<CR, LF>>) = Read(Read(c, CR), LF)
  <2> TAKE c \in Reader
  <2>1. Led(c, <<CR, LF>>) = Led(Led(c, <<CR>>), <<LF>>)
    <3> DEFINE a == <<CR>>
               b == <<LF>>
               ab == <<CR, LF>>
    <3>1. a \in Seq(Byte) /\ b \in Seq(Byte) /\ ab = a \o b
      BY <1>1
    <3> HIDE DEF a, b, ab
    <3>2. Led(c, a \o b) = Led(Led(c, a), b)
      BY <3>1, LedJoin
    <3> QED BY <3>1, <3>2 DEF a, b, ab
  <2>2. Led(c, <<CR>>) = Read(c, CR) /\ Read(c, CR) \in Reader
    BY <1>1, LedByte, ReadType
  <2>3. Led(Read(c, CR), <<LF>>) = Read(Read(c, CR), LF)
    BY <1>1, <2>2, LedByte
  <2> QED BY <2>1, <2>2, <2>3
<1>3. At("hex", w, w) \in Reader /\ At("data", 0, w) \in Reader
  BY InReader
<1>4. Read(At("hex", w, w), CR) = At("lf", w, w) /\ Read(At("lf", w, w), LF) = At("data", w, w)
  BY DEF Read, At, CR, LF, IsData
<1>5. w > 0 => /\ Read(At("data", 0, w), CR) = At("next", 0, w)
               /\ Read(At("next", 0, w), LF) = Start
  BY DEF Read, At, CR, LF, IsData
<1> QED BY <1>1, <1>2, <1>3, <1>4, <1>5

\* A smaller number has no more digits.
LEMMA FewerDigits ==
  ASSUME NEW n \in Nat, NEW m \in Nat, n <= m
  PROVE  Len(Digits(n)) <= Len(Digits(m))
<1>1. PICK f, d : DigitsAre(n, f, d)
  BY DigitsIs
<1>2. PICK h, e : DigitsAre(m, h, e)
  BY DigitsIs
<1>3. \A k \in 0..(n + 1) : f[k] \in Nat /\ f[k] = IF k = 0 THEN n ELSE f[k - 1] \div Base
  BY <1>1, DividingSteps DEF DigitsAre
<1>4. \A k \in 0..(m + 1) : h[k] \in Nat /\ h[k] = IF k = 0 THEN m ELSE h[k - 1] \div Base
  BY <1>2, DividingSteps DEF DigitsAre
<1>5. /\ d \in 1..(n + 1) /\ \A k \in 1..(n + 1) : f[k] = 0 => d <= k
      /\ e \in 1..(m + 1) /\ h[e] = 0
      /\ Len(Digits(n)) = d /\ Len(Digits(m)) = e
  BY <1>1, <1>2 DEF DigitsAre
<1> DEFINE T == {k \in 0..(n + 1) : f[k] <= h[k]}
<1>6. 0 \in T
  <2>1. 0 \in 0..(n + 1) /\ 0 \in 0..(m + 1)
    OBVIOUS
  <2>2. f[0] = n /\ h[0] = m
    BY <1>3, <1>4, <2>1
  <2> QED BY <2>1, <2>2
<1>7. ASSUME NEW k \in 1..(n + 1), k - 1 \in T PROVE k \in T
  <2>1. k \in 0..(n + 1) /\ k \in 0..(m + 1) /\ k - 1 \in 0..(n + 1) /\ k - 1 \in 0..(m + 1) /\ k # 0
    OBVIOUS
  <2> DEFINE x == f[k - 1]
             y == h[k - 1]
  <2>2. x \in Nat /\ y \in Nat /\ x <= y
    BY <1>3, <1>4, <1>7, <2>1
  <2>3. f[k] = x \div Base /\ h[k] = y \div Base
    BY <1>3, <1>4, <2>1
  <2> HIDE DEF x, y
  <2>4. x \div Base <= y \div Base
    BY <2>2, SmallerQuotient
  <2> QED BY <2>1, <2>3, <2>4
<1>8. \A k \in 0..(n + 1) : k \in T
  <2> HIDE DEF T
  <2>1. n + 1 \in Nat
    OBVIOUS
  <2> QED BY <1>6, <1>7, <2>1, UpTo
<1>9. CASE e <= n + 1
  <2>1. e \in 0..(n + 1) /\ e \in 1..(n + 1)
    BY <1>5, <1>9
  <2>2. f[e] <= h[e]
    BY <1>8, <2>1
  <2>3. f[e] = 0
    BY <1>3, <1>5, <2>1, <2>2
  <2> QED BY <1>5, <2>1, <2>3
<1>10. CASE ~(e <= n + 1)
  BY <1>5, <1>10
<1> QED BY <1>9, <1>10

\* The text of a size that leaves room for its NUL, and what a decoder has
\* read then.
LEMMA SizeTextIs ==
  ASSUME NEW n \in Nat, NEW m \in Nat, n <= m, Len(SizeText(m)) < MaxChunkSizeLength
  PROVE  /\ SizeText(n) \in Seq(Byte) /\ SizeText(n) # <<>>
         /\ Len(SizeText(n)) < MaxChunkSizeLength
         /\ Led(Start, SizeText(n)) = At("data", n, n)
<1> DEFINE line == <<CR, LF>>
           s == Digits(n)
           t == Digits(m)
           u == s \o line
           v == t \o line
<1>1. s \in Seq(Byte) /\ Led(Start, s) = At("hex", n, n) /\ t \in Seq(Byte)
  BY LedNumber
<1>2. line \in Seq(Byte) /\ Led(At("hex", n, n), line) = At("data", n, n) /\ Len(line) = 2
  BY LedEnds
<1>3. Len(s) <= Len(t)
  BY FewerDigits
<1>4. /\ SizeText(n) = IF Len(u) = MaxChunkSizeLength THEN [u EXCEPT ![Len(u)] = NUL] ELSE u
      /\ SizeText(m) = IF Len(v) = MaxChunkSizeLength THEN [v EXCEPT ![Len(v)] = NUL] ELSE v
  BY DEF SizeText
<1> HIDE DEF s, t, line
<1>5. /\ u \in Seq(Byte) /\ Len(u) = Len(s) + 2 /\ v \in Seq(Byte) /\ Len(v) = Len(t) + 2
      /\ Len(s) \in Nat /\ Len(t) \in Nat
  <2>1. u \in Seq(Byte) /\ Len(u) = Len(s) + Len(line)
    BY <1>1, <1>2, ConcatProperties
  <2>2. v \in Seq(Byte) /\ Len(v) = Len(t) + Len(line)
    BY <1>1, <1>2, ConcatProperties
  <2>3. Len(s) \in Nat /\ Len(t) \in Nat
    BY <1>1
  <2> QED BY <1>2, <2>1, <2>2, <2>3
<1>6. Led(Start, u) = At("data", n, n)
  <2>1. Start \in Reader
    BY InReader DEF Start
  <2> QED BY <1>1, <1>2, <2>1, LedJoin
<1> HIDE DEF u, v
<1>7. Len(SizeText(m)) = Len(v)
  BY <1>4, <1>5
<1>8. Len(u) < MaxChunkSizeLength /\ u # <<>>
  BY <1>3, <1>5, <1>7, PipesAssumption
<1>9. SizeText(n) = u
  BY <1>4, <1>5, <1>8, PipesAssumption
<1> QED BY <1>5, <1>6, <1>8, <1>9

-----------------------------------------------------------------------------
(* The beginnings of the data                                               *)

OnlyData(s) == s \in Seq(Byte) /\ \A j \in 1..Len(s) : IsData(s[j])

LEMMA DataOfData ==
  ASSUME NEW s, OnlyData(s)
  PROVE  DataOf(s) = s
<1>1. s \in Seq(Byte) /\ \A j \in 1..Len(s) : IsData(s[j])
  BY DEF OnlyData
<1>2. PICK f : Filtering(s, f) /\ DataOf(s) = f[Len(s)]
  BY <1>1, DataOfIs
<1>3. f[0] = <<>> /\ \A j \in 1..Len(s) : f[j] = Append(f[j - 1], s[j])
  BY <1>1, <1>2, FilteringSteps
<1>4. \A j \in 0..Len(s) : f[j] \in Seq(Byte)
  BY <1>1, <1>2, FilteringType
<1>5. Len(s) \in Nat /\ \A j \in 1..Len(s) : s[j] \in Byte
  <2>1. s \in Seq(Byte)
    BY <1>1
  <2> QED BY <2>1
<1> DEFINE T == {j \in 0..Len(s) : Len(f[j]) = j /\ \A k \in 1..j : f[j][k] = s[k]}
<1>6. 0 \in T
  <2>1. Len(<<>>) = 0
    OBVIOUS
  <2> QED BY <1>3, <1>5, <2>1
<1>7. ASSUME NEW j \in 1..Len(s), j - 1 \in T PROVE j \in T
  <2> DEFINE t == f[j - 1]
             u == Append(t, s[j])
  <2>1. t \in Seq(Byte) /\ Len(t) = j - 1 /\ \A k \in 1..(j - 1) : t[k] = s[k]
    BY <1>4, <1>5, <1>7
  <2>2. s[j] \in Byte /\ j \in 0..Len(s)
    BY <1>5
  <2>3. f[j] = u
    BY <1>3
  <2> HIDE DEF t
  <2>4. Len(u) = Len(t) + 1 /\ (\A k \in 1..Len(t) : u[k] = t[k]) /\ u[Len(t) + 1] = s[j]
    BY <2>1, <2>2, AppendProperties
  <2> HIDE DEF u
  <2>5. Len(u) = j /\ u[j] = s[j] /\ \A k \in 1..(j - 1) : u[k] = s[k]
    BY <1>5, <2>1, <2>4
  <2>6. \A k \in 1..j : u[k] = s[k]
    <3> TAKE k \in 1..j
    <3>1. k = j \/ k \in 1..(j - 1)
      BY <1>5
    <3> QED BY <2>5, <3>1
  <2> QED BY <2>2, <2>3, <2>5, <2>6
<1>8. \A j \in 0..Len(s) : j \in T
  <2> HIDE DEF T
  <2> QED BY <1>5, <1>6, <1>7, UpTo
<1> DEFINE t == f[Len(s)]
<1>9. t \in Seq(Byte) /\ Len(t) = Len(s) /\ \A k \in 1..Len(s) : t[k] = s[k]
  BY <1>4, <1>5, <1>8
<1> HIDE DEF t
<1>10. t = s
  BY <1>1, <1>9, SeqEqual
<1> QED BY <1>2, <1>10 DEF t

LEMMA OnlyDataPart ==
  ASSUME NEW s \in Seq(Byte), NEW t \in Seq(Byte), OnlyData(s \o t)
  PROVE  OnlyData(s) /\ OnlyData(t)
<1> DEFINE st == s \o t
<1>1. Len(s) \in Nat /\ Len(t) \in Nat
  OBVIOUS
<1>2. /\ Len(st) = Len(s) + Len(t)
      /\ \A j \in 1..(Len(s) + Len(t)) : st[j] = IF j <= Len(s) THEN s[j] ELSE t[j - Len(s)]
  BY ConcatProperties
<1>3. \A j \in 1..Len(st) : IsData(st[j])
  BY DEF OnlyData
<1> HIDE DEF st
<1>4. \A j \in 1..Len(s) : IsData(s[j])
  <2> TAKE j \in 1..Len(s)
  <2>1. j \in 1..(Len(s) + Len(t)) /\ j <= Len(s)
    BY <1>1
  <2> QED BY <1>2, <1>3, <2>1
<1>5. \A j \in 1..Len(t) : IsData(t[j])
  <2> TAKE j \in 1..Len(t)
  <2> DEFINE k == Len(s) + j
  <2>1. k \in 1..(Len(s) + Len(t)) /\ ~(k <= Len(s)) /\ k - Len(s) = j
    BY <1>1
  <2> HIDE DEF k
  <2> QED BY <1>2, <1>3, <2>1
<1> QED BY <1>4, <1>5 DEF OnlyData

Begins(s, t) == \E u \in Seq(Byte) : t = s \o u

LEMMA BeginsSelf ==
  ASSUME NEW s \in Seq(Byte)
  PROVE  Begins(s, s)
<1>1. <<>> \in Seq(Byte) /\ s \o <<>> = s
  BY ConcatEmptySeq, EmptySeq
<1> DEFINE nothing == <<>>
<1>2. nothing \in Seq(Byte) /\ s = s \o nothing
  BY <1>1
<1> HIDE DEF nothing
<1> QED BY <1>2 DEF Begins

LEMMA BeginsNothing ==
  ASSUME NEW s \in Seq(Byte)
  PROVE  Begins(<<>>, s)
<1> DEFINE nothing == <<>>
<1>1. s = nothing \o s
  BY ConcatEmptySeq
<1> HIDE DEF nothing
<1>2. Begins(nothing, s)
  BY <1>1 DEF Begins
<1> QED BY <1>2 DEF nothing

LEMMA BeginsPart ==
  ASSUME NEW s \in Seq(Byte), NEW u \in Seq(Byte), NEW D \in Seq(Byte), Begins(s \o u, D)
  PROVE  Begins(s, D)
<1> DEFINE su == s \o u
<1>1. PICK v \in Seq(Byte) : D = su \o v
  BY DEF Begins
<1> DEFINE uv == u \o v
<1>2. uv \in Seq(Byte)
  BY ConcatProperties
<1>3. (s \o u) \o v = s \o (u \o v)
  BY ThreeJoin DEF Associates
<1>4. D = s \o uv
  BY <1>1, <1>3
<1> HIDE DEF uv
<1> QED BY <1>2, <1>4 DEF Begins

\* A beginning is data and no longer than the whole; one that is as long is
\* all of it.
LEMMA BeginsIs ==
  ASSUME NEW s \in Seq(Byte), NEW D, OnlyData(D), Begins(s, D)
  PROVE  /\ OnlyData(s) /\ Len(s) \in Nat /\ Len(D) \in Nat /\ Len(s) <= Len(D)
         /\ s = SubSeq(D, 1, Len(s))
         /\ Len(D) <= Len(s) => s = D
<1>1. PICK u \in Seq(Byte) : D = s \o u
  BY DEF Begins
<1>2. D \in Seq(Byte)
  BY DEF OnlyData
<1>3. OnlyData(s)
  BY <1>1, OnlyDataPart
<1>4. Len(s) \in Nat /\ Len(u) \in Nat /\ Len(D) = Len(s) + Len(u)
  BY <1>1, ConcatProperties
<1>5. ASSUME Len(D) <= Len(s) PROVE s = D
  <2>1. Len(u) = 0
    BY <1>4, <1>5
  <2>2. u = <<>>
    BY <2>1, EmptySeq
  <2>3. s \o <<>> = s
    BY ConcatEmptySeq
  <2> QED BY <1>1, <2>2, <2>3
<1>6. s = SubSeq(D, 1, Len(s))
  <2> DEFINE a == SubSeq(D, 1, Len(s))
             b == SubSeq(D, Len(s) + 1, Len(D))
  <2>1. Len(s) \in 0..Len(D)
    BY <1>4
  <2>2. a \in Seq(Byte) /\ Len(a) = Len(s) /\ b \in Seq(Byte) /\ D = a \o b
    BY <1>2, <2>1, Cut
  <2> HIDE DEF a, b
  <2>3. a = s
    <3>1. a \o b = s \o u
      BY <1>1, <2>2
    <3> QED BY <2>2, <3>1, SameCut
  <2> QED BY <2>3 DEF a
<1>7. Len(D) \in Nat
  BY <1>4
<1> QED BY <1>3, <1>4, <1>5, <1>6, <1>7

-----------------------------------------------------------------------------
(* Pipelines that are used as Usable says                                   *)

Is(p, i, k) == p.stages[i].kind = k
Final(p) == Len(p.stages)
Near(p, i) == Nearest(p.stages, i)

EncoderFits(p, i) ==
  /\ Is(p, 1, "null") /\ Near(p, i) = 1
  /\ p.stages[i].n > 0 /\ Len(SizeText(p.stages[i].n)) < MaxChunkSizeLength
  /\ Is(p, Final(p), "null") => p.stages[Final(p)].size >= Len(p.data)
DecoderFits(p, i) ==
  /\ \E j \in 1..(i - 1) : Is(p, j, "encode")
  /\ \A j \in 1..(i - 1) : ~Is(p, j, "decode")
  /\ i < Final(p) /\ p.stages[i + 1].size >= p.stages[i].size
  /\ p.stages[i + 1].kind # "socket_out"
Fits(p) ==
  /\ OnlyData(p.data) /\ Has(p, Final(p))
  /\ \A i \in 1..Final(p) :
       /\ Is(p, i, "encode") => EncoderFits(p, i)
       /\ p.stages[i].kind \in Decoding => DecoderFits(p, i)
       /\ Is(p, i, "limited") => \A j \in 1..(i - 1) : ~Is(p, j, "encode")
  /\ Is(p, Final(p), "null") /\ (\E i \in 1..Final(p) : Is(p, i, "copy")) =>
       \E i \in 1..Final(p) : Is(p, i, "decode")

\* What has a buffer: all but some that pass on what they are given.
LEMMA Buffered ==
  ASSUME NEW p \in Plans, NEW i \in 1..Final(p)
  PROVE  /\ p.stages[i].kind \in {"encode", "limited"} \cup Decoding => Has(p, i) /\ i > 1
         /\ p.stages[i].kind \in Reading => Has(p, i)
BY StageIs DEF Final, Has, Reading, Writing, Decoding

\* Stages with a buffer between a stage and the nearest one before it: none.
LEMMA NearIs ==
  ASSUME NEW p \in Plans, NEW i \in 1..Final(p)
  PROVE  /\ Final(p) \in Nat \ {0} /\ Near(p, i) \in 0..(i - 1) /\ Near(p, i) \in 0..Final(p)
         /\ Near(p, i) > 0 => Near(p, i) \in 1..Final(p) /\ Has(p, Near(p, i))
         /\ i > 1 => Near(p, i) > 0
         /\ \A j \in 1..(i - 1) : Has(p, j) => j <= Near(p, i)
<1>1. Final(p) \in Nat \ {0} /\ i \in 1..(Len(p.stages) + 1)
  BY PlanIs DEF Final
<1>2. /\ Near(p, i) \in 0..(i - 1)
      /\ Near(p, i) > 0 => Has(p, Near(p, i))
      /\ i > 1 => Near(p, i) >= 1
      /\ \A j \in 1..(i - 1) : Has(p, j) => j <= Near(p, i)
  BY <1>1, NearestIs DEF Near, Has
<1> QED BY <1>1, <1>2

\* There are no limits where there is an encoder, which is behind the data.
LEMMA EncoderAlone ==
  ASSUME NEW p \in Plans, Fits(p), NEW e \in 1..Final(p), Is(p, e, "encode")
  PROVE  /\ EncoderFits(p, e) /\ e > 1 /\ Has(p, e) /\ Is(p, 1, "null")
         /\ \A j \in 1..Final(p) : ~Is(p, j, "limited")
         /\ \A j \in 2..(e - 1) : ~Has(p, j)
<1>1. EncoderFits(p, e) /\ e > 1 /\ Has(p, e)
  BY Buffered DEF Fits, Is
<1>2. Is(p, 1, "null") /\ Near(p, e) = 1
  BY <1>1 DEF EncoderFits
<1>3. \A j \in 1..(e - 1) : Has(p, j) => j <= 1
  BY <1>2, NearIs
<1>4. \A j \in 2..(e - 1) : ~Has(p, j)
  BY <1>3
<1>5. ASSUME NEW j \in 1..Final(p), Is(p, j, "limited") PROVE FALSE
  <2>1. Has(p, j) /\ j > 1
    BY <1>5, Buffered DEF Is
  <2>2. \A k \in 1..(j - 1) : ~Is(p, k, "encode")
    BY <1>5 DEF Fits
  <2>3. ~(e < j)
    BY <2>2
  <2>4. j # e
    BY <1>5 DEF Is
  <2>5. j \in 2..(e - 1)
    BY <2>1, <2>3, <2>4
  <2> QED BY <1>4, <2>1, <2>5
<1> QED BY <1>1, <1>2, <1>4, <1>5

-----------------------------------------------------------------------------
(* What comes out of a stage                                                *)

\* What has come out of stage j is encoded.
Coded(p, j) ==
  /\ \E e \in 1..j : Is(p, e, "encode")
  /\ \A d \in 1..j : ~Is(p, d, "decode")

\* The beginning of the data in chunks, with their end at the end of the data.
Formed(p, s) ==
  /\ Led(Start, s) # Bad /\ Begins(DataOf(s), p.data)
  /\ Led(Start, s) = Ended => DataOf(s) = p.data

Within(p, j, s) == \A k \in 1..j : Is(p, k, "limited") => Len(s) <= p.stages[k].n
Reaches(p, j, s) == \E k \in 1..j : Is(p, k, "limited") /\ p.stages[k].n <= Len(s)

Good(p, j, s) ==
  /\ s \in Seq(Byte)
  /\ Coded(p, j) => Formed(p, s)
  /\ ~Coded(p, j) => Begins(s, p.data) /\ Within(p, j, s)

Complete(p, j, s) ==
  /\ Coded(p, j) => Led(Start, s) = Ended
  /\ ~Coded(p, j) => s = p.data \/ Reaches(p, j, s)

\* Where an encoder is, when a decoder of all that it has put would be at d
\* and r bytes of the data are still to come.
Puts(c, d, r) ==
  \/ c.state = "size" /\ d = Start
  \/ /\ c.state = "hex" /\ c.text # <<>> /\ c.left = c.wanted
     /\ c.left <= r /\ (c.left = 0 => r = 0)
     /\ Led(d, c.text) = At("data", c.left, c.left)
  \/ c.state = "data" /\ c.left > 0 /\ c.left <= r /\ d = At("data", c.left, c.wanted)
  \/ c.state = "cr" /\ c.text # <<>> /\ Led(d, c.text) = Start
  \/ c.state = "done" /\ d = Ended /\ r = 0

\* Stage i has made t of s, with the state c of a chunk stage and the count n
\* of a limited one.
Passes(p, i, s, t, c, n) ==
  /\ Is(p, i, "encode") => DataOf(t) = s /\ Puts(c, Led(Start, t), Len(p.data) - Len(s))
  /\ Is(p, i, "decode") => t = DataOf(s)
  /\ ~Is(p, i, "encode") /\ ~Is(p, i, "decode") => t = s
  /\ p.stages[i].kind \in Decoding => Led(Start, s) = c
  /\ Is(p, i, "limited") => n = Len(s)

LEMMA Decoders == Decoding = {"decode", "copy"}
BY DEF Decoding

\* Nothing between a stage and the nearest buffer before it changes what is
\* encoded.
LEMMA CodedNear ==
  ASSUME NEW p \in Plans, Fits(p), NEW i \in 1..Final(p), Has(p, i)
  PROVE  /\ Is(p, i, "encode") => ~Coded(p, Near(p, i)) /\ Coded(p, i)
         /\ Is(p, i, "decode") => Coded(p, Near(p, i)) /\ ~Coded(p, i)
         /\ ~Is(p, i, "encode") /\ ~Is(p, i, "decode") =>
              (Coded(p, i) <=> Coded(p, Near(p, i)))
         /\ p.stages[i].kind \in Decoding => Coded(p, Near(p, i))
         /\ \A k \in 1..i : Is(p, k, "limited") => k = i \/ k \in 1..Near(p, i)
<1> DEFINE m == Near(p, i)
<1>1. m \in 0..(i - 1) /\ \A j \in 1..(i - 1) : Has(p, j) => j <= m
  BY NearIs
<1> HIDE DEF m
<1>2. \A j \in 1..(i - 1) :
        Is(p, j, "encode") \/ Is(p, j, "decode") \/ Is(p, j, "limited") => j \in 1..m
  <2> TAKE j \in 1..(i - 1)
  <2> HAVE Is(p, j, "encode") \/ Is(p, j, "decode") \/ Is(p, j, "limited")
  <2>1. j \in 1..Final(p)
    BY NearIs
  <2>2. Has(p, j)
    BY <2>1, Buffered, Decoders DEF Is
  <2> QED BY <1>1, <2>2
<1>3. \A k \in 1..i : Is(p, k, "limited") => k = i \/ k \in 1..m
  <2> TAKE k \in 1..i
  <2>1. k = i \/ k \in 1..(i - 1)
    OBVIOUS
  <2> QED BY <1>2, <2>1
<1>4. \A j \in 1..m : j \in 1..(i - 1) /\ j \in 1..i
  BY <1>1
<1>5. ASSUME ~Is(p, i, "encode"), ~Is(p, i, "decode")
      PROVE  Coded(p, i) <=> Coded(p, m)
  <2>1. \A j \in 1..i : j = i \/ j \in 1..(i - 1)
    OBVIOUS
  <2>2. (\E e \in 1..i : Is(p, e, "encode")) <=> (\E e \in 1..m : Is(p, e, "encode"))
    BY <1>2, <1>4, <1>5, <2>1
  <2>3. (\A d \in 1..i : ~Is(p, d, "decode")) <=> (\A d \in 1..m : ~Is(p, d, "decode"))
    BY <1>2, <1>4, <1>5, <2>1
  <2> QED BY <2>2, <2>3 DEF Coded
<1>6. ASSUME p.stages[i].kind \in Decoding PROVE Coded(p, m)
  <2>1. DecoderFits(p, i)
    BY <1>6 DEF Fits
  <2>2. PICK e \in 1..(i - 1) : Is(p, e, "encode")
    BY <2>1 DEF DecoderFits
  <2>3. e \in 1..m /\ Is(p, e, "encode")
    BY <1>2, <2>2
  <2>4. \A d \in 1..m : ~Is(p, d, "decode")
    BY <1>4, <2>1 DEF DecoderFits
  <2> QED BY <2>3, <2>4 DEF Coded
<1>7. ASSUME Is(p, i, "decode") PROVE Coded(p, m) /\ ~Coded(p, i)
  <2>1. p.stages[i].kind \in Decoding
    BY <1>7, Decoders DEF Is
  <2>2. i \in 1..i
    OBVIOUS
  <2>3. ~Coded(p, i)
    BY <1>7, <2>2 DEF Coded
  <2> QED BY <1>6, <2>1, <2>3
<1>8. ASSUME Is(p, i, "encode") PROVE ~Coded(p, m) /\ Coded(p, i)
  <2>1. Is(p, 1, "null") /\ EncoderFits(p, i) /\ i > 1
    BY <1>8, EncoderAlone
  <2>2. m = 1
    BY <2>1 DEF EncoderFits, m
  <2>3. ~Coded(p, 1)
    BY <2>1 DEF Coded, Is
  <2>4. \A d \in 1..(i - 1) : ~Is(p, d, "decode")
    <3> SUFFICES ASSUME NEW d \in 1..(i - 1), Is(p, d, "decode") PROVE FALSE
      OBVIOUS
    <3>1. d \in 1..1
      BY <1>2, <2>2
    <3> QED BY <2>1, <3>1 DEF Is
  <2>5. \A d \in 1..i : ~Is(p, d, "decode")
    <3> TAKE d \in 1..i
    <3>1. d = i \/ d \in 1..(i - 1)
      OBVIOUS
    <3> QED BY <1>8, <2>4, <3>1 DEF Is
  <2>6. i \in 1..i
    OBVIOUS
  <2>7. Coded(p, i)
    BY <1>8, <2>5, <2>6 DEF Coded
  <2> QED BY <2>2, <2>3, <2>7
<1> QED BY <1>3, <1>5, <1>6, <1>7, <1>8 DEF m

LEMMA Differ ==
  /\ Start \in Reader /\ Ended \in Reader /\ Bad \in Reader
  /\ Start # Bad /\ Start # Ended /\ Ended # Bad
  /\ \A l, w : At("data", l, w) # Bad /\ (l # 0 => At("data", l, w) # Ended)
<1>1. Start \in Reader /\ Ended \in Reader /\ Bad \in Reader
  BY InReader DEF Start, Ended, Bad
<1>2. Start.state = "hex" /\ Ended.state = "data" /\ Bad.state = "bad" /\ Ended.left = 0
  BY AtIs DEF Start, Ended, Bad
<1>3. \A l, w : At("data", l, w).state = "data" /\ At("data", l, w).left = l
  BY AtIs
<1> QED BY <1>1, <1>2, <1>3

\* What an encoder has put is good, and has its end only with all of the data.
LEMMA PutsGood ==
  ASSUME NEW c \in Chunk, NEW d \in Reader, NEW r, Puts(c, d, r)
  PROVE  d # Bad /\ (d = Ended => r = 0)
<1>1. c.text \in Seq(Byte)
  BY DEF Chunk
<1>2. Led(Bad, c.text) = Bad /\ (c.text # <<>> => Led(Ended, c.text) = Bad)
  BY <1>1, LedBad
<1>3. CASE c.state = "hex"
  <2>1. c.text # <<>> /\ Led(d, c.text) = At("data", c.left, c.left)
    BY <1>3 DEF Puts
  <2>2. Led(d, c.text) # Bad
    BY <2>1, Differ
  <2> QED BY <1>2, <2>1, <2>2
<1>4. CASE c.state = "data"
  <2>1. d = At("data", c.left, c.wanted) /\ c.left > 0
    BY <1>4 DEF Puts
  <2>2. c.left # 0
    BY <2>1
  <2> QED BY <2>1, <2>2, Differ
<1>5. CASE c.state = "cr"
  <2>1. c.text # <<>> /\ Led(d, c.text) = Start
    BY <1>5 DEF Puts
  <2> QED BY <1>2, <2>1, Differ
<1>6. CASE c.state \notin {"hex", "data", "cr"}
  <2>1. d = Start \/ (d = Ended /\ r = 0)
    BY <1>6 DEF Puts
  <2> QED BY <2>1, Differ
<1> QED BY <1>3, <1>4, <1>5, <1>6

LEMMA FormedPart ==
  ASSUME NEW p \in Plans, NEW s \in Seq(Byte), NEW u \in Seq(Byte), Formed(p, s \o u)
  PROVE  Formed(p, s)
<1> DEFINE su == s \o u
<1>0. p.data \in Seq(Byte)
  BY PlanIs
<1>1. /\ Led(Start, su) # Bad /\ Begins(DataOf(su), p.data)
      /\ Led(Start, su) = Ended => DataOf(su) = p.data
  BY DEF Formed
<1>2. Led(Start, su) = Led(Led(Start, s), u)
  BY Differ, LedJoin
<1>3. DataOf(su) = DataOf(s) \o DataOf(u) /\ DataOf(s) \in Seq(Byte) /\ DataOf(u) \in Seq(Byte)
  BY DataOfJoin, DataOfType DEF DataJoins
<1>4. Begins(DataOf(s), p.data)
  <2>1. Begins(DataOf(s) \o DataOf(u), p.data)
    BY <1>1, <1>3
  <2> QED BY <1>0, <1>3, <2>1, BeginsPart
<1>5. Led(Start, s) # Bad
  BY <1>1, Differ, LedFirst
<1>6. ASSUME Led(Start, s) = Ended PROVE DataOf(s) = p.data
  <2>1. u = <<>>
    BY <1>1, <1>2, <1>6, LedBad
  <2>2. su = s
    BY <2>1, ConcatEmptySeq
  <2> QED BY <1>1, <1>6, <2>2
<1> QED BY <1>4, <1>5, <1>6 DEF Formed

LEMMA GoodPart ==
  ASSUME NEW p \in Plans, NEW j \in 0..Final(p), NEW s \in Seq(Byte), NEW u \in Seq(Byte),
         Good(p, j, s \o u)
  PROVE  Good(p, j, s)
<1>0. p.data \in Seq(Byte)
  BY PlanIs
<1>1. CASE Coded(p, j)
  BY <1>1, FormedPart DEF Good
<1>2. CASE ~Coded(p, j)
  <2>1. Begins(s \o u, p.data) /\ Within(p, j, s \o u)
    BY <1>2 DEF Good
  <2>2. Begins(s, p.data)
    BY <1>0, <2>1, BeginsPart
  <2>3. Len(s) \in Nat /\ Len(u) \in Nat /\ Len(s \o u) = Len(s) + Len(u)
    BY ConcatProperties
  <2>4. Within(p, j, s)
    <3> SUFFICES ASSUME NEW k \in 1..j, Is(p, k, "limited") PROVE Len(s) <= p.stages[k].n
      BY DEF Within
    <3>1. Len(s \o u) <= p.stages[k].n
      BY <2>1 DEF Within
    <3>2. k \in 1..Final(p)
      BY PlanIs DEF Final
    <3>3. p.stages[k].n \in Nat
      BY <3>2, StageIs DEF Final
    <3> QED BY <2>3, <3>1, <3>3
  <2> QED BY <1>2, <2>2, <2>4 DEF Good
<1> QED BY <1>1, <1>2

\* What a stage makes of a part of what is good is good.
LEMMA PassesGood ==
  ASSUME NEW p \in Plans, Fits(p), NEW i \in 1..Final(p), Has(p, i),
         NEW s \in Seq(Byte), Good(p, Near(p, i), s), NEW t \in Seq(Byte),
         NEW c \in Chunk, NEW n, Passes(p, i, s, t, c, n),
         Is(p, i, "limited") => n <= p.stages[i].n
  PROVE  Good(p, i, t)
<1> DEFINE m == Near(p, i)
<1>0. m \in 0..Final(p) /\ OnlyData(p.data) /\ p.data \in Seq(Byte)
  BY NearIs, PlanIs DEF Fits
<1>1. /\ Is(p, i, "encode") => ~Coded(p, m) /\ Coded(p, i)
      /\ Is(p, i, "decode") => Coded(p, m) /\ ~Coded(p, i)
      /\ ~Is(p, i, "encode") /\ ~Is(p, i, "decode") => (Coded(p, i) <=> Coded(p, m))
      /\ p.stages[i].kind \in Decoding => Coded(p, m)
      /\ \A k \in 1..i : Is(p, k, "limited") => k = i \/ k \in 1..m
  BY CodedNear
<1>2. Coded(p, m) => Formed(p, s)
  BY DEF Good
<1>3. ~Coded(p, m) => Begins(s, p.data) /\ Within(p, m, s)
  BY DEF Good
<1> HIDE DEF m
<1>4. CASE Is(p, i, "encode")
  <2> DEFINE r == Len(p.data) - Len(s)
  <2>1. DataOf(t) = s /\ Puts(c, Led(Start, t), r)
    BY <1>4 DEF Passes
  <2>2. Led(Start, t) \in Reader
    BY Differ, LedType
  <2>3. Led(Start, t) # Bad /\ (Led(Start, t) = Ended => r = 0)
    BY <2>1, <2>2, PutsGood
  <2>4. Begins(s, p.data)
    BY <1>1, <1>3, <1>4
  <2>5. r = 0 => s = p.data
    BY <1>0, <2>4, BeginsIs
  <2>6. Formed(p, t)
    BY <2>1, <2>3, <2>4, <2>5 DEF Formed
  <2> QED BY <1>1, <1>4, <2>6 DEF Good
<1>5. CASE Is(p, i, "decode")
  <2>1. t = DataOf(s)
    BY <1>5 DEF Passes
  <2>2. Begins(t, p.data)
    BY <1>1, <1>2, <1>5, <2>1 DEF Formed
  <2>3. \A k \in 1..i : ~Is(p, k, "limited")
    <3>1. p.stages[i].kind \in Decoding
      BY <1>5, Decoders DEF Is
    <3>2. DecoderFits(p, i)
      BY <3>1 DEF Fits
    <3>3. PICK e \in 1..(i - 1) : Is(p, e, "encode")
      BY <3>2 DEF DecoderFits
    <3>4. e \in 1..Final(p) /\ \A k \in 1..i : k \in 1..Final(p)
      BY PlanIs DEF Final
    <3> QED BY <3>3, <3>4, EncoderAlone
  <2> QED BY <1>1, <1>5, <2>2, <2>3 DEF Good, Within
<1>6. CASE ~Is(p, i, "encode") /\ ~Is(p, i, "decode")
  <2>1. t = s /\ (Is(p, i, "limited") => Len(s) <= p.stages[i].n)
    BY <1>6 DEF Passes
  <2>2. CASE Coded(p, i)
    BY <1>1, <1>2, <1>6, <2>1, <2>2 DEF Good
  <2>3. CASE ~Coded(p, i)
    <3>1. Begins(t, p.data) /\ Within(p, m, s)
      BY <1>1, <1>3, <1>6, <2>1, <2>3
    <3>2. Within(p, i, t)
      BY <1>1, <2>1, <3>1 DEF Within
    <3> QED BY <2>3, <3>1, <3>2 DEF Good
  <2> QED BY <2>2, <2>3
<1> QED BY <1>4, <1>5, <1>6

\* What a stage makes of all that it is to be given is complete, but for an
\* encoder, which puts the end behind it.
LEMMA PassesComplete ==
  ASSUME NEW p \in Plans, Fits(p), NEW i \in 1..Final(p), Has(p, i), ~Is(p, i, "encode"),
         NEW s, Good(p, Near(p, i), s), Complete(p, Near(p, i), s), NEW t,
         NEW c, NEW n, Passes(p, i, s, t, c, n)
  PROVE  Complete(p, i, t)
<1> DEFINE m == Near(p, i)
<1>0. m \in 0..(i - 1) /\ i \in Nat
  BY NearIs
<1>1. /\ Is(p, i, "decode") => Coded(p, m) /\ ~Coded(p, i)
      /\ ~Is(p, i, "encode") /\ ~Is(p, i, "decode") => (Coded(p, i) <=> Coded(p, m))
  BY CodedNear
<1>2. Coded(p, m) => Formed(p, s) /\ Led(Start, s) = Ended
  BY DEF Good, Complete
<1>3. ~Coded(p, m) => s = p.data \/ Reaches(p, m, s)
  BY DEF Complete
<1> HIDE DEF m
<1>4. CASE Is(p, i, "decode")
  <2>1. t = DataOf(s) /\ DataOf(s) = p.data
    BY <1>1, <1>2, <1>4 DEF Passes, Formed
  <2> QED BY <1>1, <1>4, <2>1 DEF Complete
<1>5. CASE ~Is(p, i, "decode")
  <2>1. t = s
    BY <1>5 DEF Passes
  <2>2. Reaches(p, m, s) => Reaches(p, i, s)
    BY <1>0 DEF Reaches
  <2> QED BY <1>1, <1>2, <1>3, <1>5, <2>1, <2>2 DEF Complete
<1> QED BY <1>4, <1>5

-----------------------------------------------------------------------------
(* What has gone through a pipeline                                         *)

\* g[j] has gone out of buffer j, which holds b[j], and g[0] out of the source,
\* which has b[0]: so much has come out of stage j.
Out(g, b, j) == g[j] \o b[j]

Flow(p, g, b, snk, tr, ch) ==
  /\ g \in [0..Final(p) -> Seq(Byte)] /\ b \in [0..Final(p) -> Seq(Byte)]
  /\ Out(g, b, 0) = p.data
  /\ p.stages[1].kind \notin Reading => b[0] = <<>>
  /\ g[Final(p)] = snk
  /\ \A i \in 1..Final(p) : Has(p, i) =>
       Passes(p, i, g[Near(p, i)], Out(g, b, i), ch[i], tr[i]) /\ Good(p, i, Out(g, b, i))

\* An empty stage is through with all of its data.  Only what decodes, and a
\* last stage that keeps its data, may still hold some of it.
Drained(p, j) == p.stages[j].kind \notin Decoding /\ ~(Is(p, j, "null") /\ j = Final(p))
Done(p, g, b, em) ==
  \A j \in em : Complete(p, j, Out(g, b, j)) /\ (Drained(p, j) => b[j] = <<>>)

\* x has gone out of the nearest buffer before stage i, and y into that of i.
Shifts(p, i, b, b2, x, y) ==
  /\ b2 \in [0..Final(p) -> Seq(Byte)] /\ x \in Seq(Byte) /\ y \in Seq(Byte)
  /\ b[Near(p, i)] = x \o b2[Near(p, i)] /\ b2[i] = b[i] \o y
  /\ \A j \in 0..Final(p) : j \notin {Near(p, i), i} => b2[j] = b[j]

\* Of the other stages the same has come out.
SameBut(p, i, g, b, h, b2) ==
  \A j \in 0..Final(p) : j # i => Out(h, b2, j) = Out(g, b, j)

LEMMA GoodSource ==
  ASSUME NEW p \in Plans, Fits(p)
  PROVE  Good(p, 0, p.data) /\ Complete(p, 0, p.data) /\ p.data \in Seq(Byte)
<1>1. p.data \in Seq(Byte)
  BY PlanIs
<1>2. Begins(p.data, p.data)
  BY <1>1, BeginsSelf
<1>3. ~Coded(p, 0) /\ Within(p, 0, p.data)
  BY DEF Coded, Within
<1> QED BY <1>1, <1>2, <1>3 DEF Good, Complete

LEMMA FlowGood ==
  ASSUME NEW p \in Plans, Fits(p), NEW g, NEW b, NEW snk, NEW tr, NEW ch,
         Flow(p, g, b, snk, tr, ch), NEW i \in 1..Final(p)
  PROVE  /\ Near(p, i) \in 0..Final(p) /\ Near(p, i) # i /\ i \in 0..Final(p)
         /\ g[Near(p, i)] \in Seq(Byte) /\ b[Near(p, i)] \in Seq(Byte)
         /\ Good(p, Near(p, i), Out(g, b, Near(p, i)))
<1>1. Near(p, i) \in 0..Final(p) /\ (Near(p, i) > 0 => Near(p, i) \in 1..Final(p) /\ Has(p, Near(p, i)))
      /\ Near(p, i) \in 0..(i - 1)
  BY NearIs
<1>2. g[Near(p, i)] \in Seq(Byte) /\ b[Near(p, i)] \in Seq(Byte)
  BY <1>1 DEF Flow
<1>3. Good(p, Near(p, i), Out(g, b, Near(p, i)))
  <2>1. CASE Near(p, i) = 0
    BY <2>1, GoodSource DEF Flow
  <2>2. CASE Near(p, i) > 0
    BY <1>1, <2>2 DEF Flow
  <2> QED BY <1>1, <2>1, <2>2
<1> QED BY <1>1, <1>2, <1>3

LEMMA Transfer ==
  ASSUME NEW p \in Plans, Fits(p), NEW g, NEW b, NEW snk, NEW tr, NEW ch,
         Flow(p, g, b, snk, tr, ch), NEW i \in 1..Final(p), Has(p, i),
         NEW b2, NEW x, NEW y, Shifts(p, i, b, b2, x, y),
         NEW tr2, NEW ch2, ch2[i] \in Chunk, Is(p, i, "limited") => tr2[i] <= p.stages[i].n,
         \A j \in 1..Final(p) : j # i => ch2[j] = ch[j] /\ tr2[j] = tr[j],
         Passes(p, i, g[Near(p, i)] \o x, Out(g, b, i) \o y, ch2[i], tr2[i])
  PROVE  \E h : /\ Flow(p, h, b2, snk, tr2, ch2)
                /\ SameBut(p, i, g, b, h, b2) /\ Out(h, b2, i) = Out(g, b, i) \o y
<1> DEFINE N == Final(p)
           m == Near(p, i)
           gx == g[m] \o x
           h == [g EXCEPT ![m] = gx]
<1>1. /\ N \in Nat \ {0} /\ m \in 0..(i - 1) /\ m \in 0..N /\ i \in 0..N /\ m # i /\ m # N
      /\ i \in 1..N
  BY NearIs
<1>2. /\ g \in [0..N -> Seq(Byte)] /\ b \in [0..N -> Seq(Byte)]
      /\ Out(g, b, 0) = p.data /\ (p.stages[1].kind \notin Reading => b[0] = <<>>)
      /\ g[N] = snk
  BY DEF Flow
<1>3. \A j \in 1..N : Has(p, j) =>
        Passes(p, j, g[Near(p, j)], Out(g, b, j), ch[j], tr[j]) /\ Good(p, j, Out(g, b, j))
  BY DEF Flow
<1>4. /\ b2 \in [0..N -> Seq(Byte)] /\ x \in Seq(Byte) /\ y \in Seq(Byte)
      /\ b[m] = x \o b2[m] /\ b2[i] = b[i] \o y
      /\ \A j \in 0..N : j \notin {m, i} => b2[j] = b[j]
  BY DEF Shifts
<1>5. Good(p, m, Out(g, b, m)) /\ g[m] \in Seq(Byte) /\ b2[m] \in Seq(Byte)
      /\ g[i] \in Seq(Byte) /\ b[i] \in Seq(Byte)
  BY <1>1, <1>2, <1>4, FlowGood
<1>6. gx \in Seq(Byte) /\ gx \o b2[m] = Out(g, b, m)
  <2>1. (g[m] \o x) \o b2[m] = g[m] \o (x \o b2[m])
    <3> DEFINE u == g[m]
               v == b2[m]
    <3>1. u \in Seq(Byte) /\ v \in Seq(Byte) /\ x \in Seq(Byte)
      BY <1>4, <1>5
    <3> HIDE DEF u, v, m
    <3>2. (u \o x) \o v = u \o (x \o v)
      BY <3>1, ThreeJoin DEF Associates
    <3> QED BY <3>2 DEF u, v
  <2>2. g[m] \o x \in Seq(Byte)
    BY <1>4, <1>5, ConcatProperties
  <2> QED BY <1>4, <2>1, <2>2 DEF Out
<1>7. Good(p, m, gx)
  <2>1. Good(p, m, gx \o b2[m])
    BY <1>5, <1>6
  <2> HIDE DEF gx, m
  <2> QED BY <1>1, <1>5, <1>6, <2>1, GoodPart
<1>8. Passes(p, i, gx, Out(g, b, i) \o y, ch2[i], tr2[i])
  OBVIOUS
<1> HIDE DEF gx, m
<1>9. h \in [0..N -> Seq(Byte)] /\ h[m] = gx /\ \A j \in 0..N : j # m => h[j] = g[j]
  BY <1>1, <1>2, <1>6
<1> HIDE DEF h
<1>10. Out(h, b2, m) = Out(g, b, m)
  BY <1>6, <1>9 DEF Out
<1>11. Out(h, b2, i) = Out(g, b, i) \o y /\ Out(h, b2, i) \in Seq(Byte)
  <2>1. (g[i] \o b[i]) \o y = g[i] \o (b[i] \o y)
    <3> DEFINE u == g[i]
               v == b[i]
    <3>1. u \in Seq(Byte) /\ v \in Seq(Byte) /\ y \in Seq(Byte)
      BY <1>4, <1>5
    <3> HIDE DEF u, v
    <3>2. (u \o v) \o y = u \o (v \o y)
      BY <3>1, ThreeJoin DEF Associates
    <3> QED BY <3>2 DEF u, v
  <2>4. b[i] \o y \in Seq(Byte)
    BY <1>4, <1>5, ConcatProperties
  <2>2. g[i] \o (b[i] \o y) \in Seq(Byte)
    BY <1>5, <2>4, ConcatProperties
  <2>3. h[i] = g[i]
    BY <1>1, <1>9
  <2> QED BY <1>4, <2>1, <2>2, <2>3 DEF Out
<1>12. \A j \in 0..N : j # i => Out(h, b2, j) = Out(g, b, j)
  <2> TAKE j \in 0..N
  <2> HAVE j # i
  <2>1. CASE j = m
    BY <1>10, <2>1
  <2>2. CASE j # m
    BY <1>4, <1>9, <2>2 DEF Out
  <2> QED BY <2>1, <2>2
<1>13. Out(h, b2, 0) = p.data
  BY <1>1, <1>2, <1>12
<1>14. p.stages[1].kind \notin Reading => b2[0] = <<>>
  <2> HAVE p.stages[1].kind \notin Reading
  <2>1. CASE m = 0
    <3>1. x \o b2[m] = <<>>
      BY <1>2, <1>4, <2>1
    <3>2. Len(x \o b2[m]) = Len(x) + Len(b2[m]) /\ Len(x) \in Nat /\ Len(b2[m]) \in Nat
      BY <1>4, <1>5, ConcatProperties
    <3>3. Len(b2[m]) = 0
      BY <3>1, <3>2
    <3> QED BY <1>5, <2>1, <3>3, EmptySeq
  <2>2. CASE m # 0
    <3>1. b2[0] = b[0]
      BY <1>1, <1>4, <2>2
    <3> QED BY <1>2, <3>1
  <2> QED BY <2>1, <2>2
<1>15. ASSUME NEW j \in 1..N, Has(p, j)
       PROVE  /\ Passes(p, j, h[Near(p, j)], Out(h, b2, j), ch2[j], tr2[j])
              /\ Good(p, j, Out(h, b2, j))
  <2>1. CASE j = i
    <3>1. Passes(p, i, gx, Out(h, b2, i), ch2[i], tr2[i])
      BY <1>8, <1>11
    <3>2. Good(p, i, Out(h, b2, i))
      BY <1>6, <1>7, <1>11, <3>1, PassesGood DEF m
    <3> QED BY <1>9, <2>1, <3>1, <3>2 DEF m
  <2>2. CASE j # i
    <3>1. Near(p, j) # m /\ Near(p, j) \in 0..N
      <4>0. i \in 1..(Len(p.stages) + 1) /\ j \in 1..(Len(p.stages) + 1)
            /\ i <= Len(p.stages) /\ j <= Len(p.stages)
        BY <1>1, PlanIs DEF Final
      <4>3. Near(p, j) \in 0..N
        BY NearIs
      <4>1. CASE i < j
        <5>1. Nearest(p.stages, i) # Nearest(p.stages, j)
          BY <4>0, <4>1, OneBehind
        <5> QED BY <4>3, <5>1 DEF Near, m
      <4>2. CASE j < i
        <5>1. Nearest(p.stages, j) # Nearest(p.stages, i)
          BY <1>15, <4>0, <4>2, OneBehind
        <5> QED BY <4>3, <5>1 DEF Near, m
      <4> QED BY <1>1, <2>2, <4>1, <4>2, <4>3
    <3>2. h[Near(p, j)] = g[Near(p, j)]
      BY <1>9, <3>1
    <3>3. Out(h, b2, j) = Out(g, b, j) /\ ch2[j] = ch[j] /\ tr2[j] = tr[j]
      BY <1>12, <2>2
    <3> QED BY <1>3, <1>15, <3>2, <3>3
  <2> QED BY <2>1, <2>2
<1>16. h[N] = snk
  BY <1>1, <1>2, <1>9
<1>17. Flow(p, h, b2, snk, tr2, ch2)
  BY <1>4, <1>9, <1>13, <1>14, <1>15, <1>16 DEF Flow
<1>18. SameBut(p, i, g, b, h, b2)
  BY <1>12 DEF SameBut
<1> QED BY <1>11, <1>17, <1>18

\* Of all stages the same has come out.
Same(p, g, b, h, b2) == \A j \in 0..Final(p) : Out(h, b2, j) = Out(g, b, j)

\* The last stage writes x.
LEMMA Deliver ==
  ASSUME NEW p \in Plans, NEW g, NEW b, NEW snk, NEW tr, NEW ch,
         Flow(p, g, b, snk, tr, ch), NEW b2 \in [0..Final(p) -> Seq(Byte)], NEW x \in Seq(Byte),
         b[Final(p)] = x \o b2[Final(p)],
         \A j \in 0..Final(p) : j # Final(p) => b2[j] = b[j]
  PROVE  \E h : Flow(p, h, b2, snk \o x, tr, ch) /\ Same(p, g, b, h, b2)
<1> DEFINE N == Final(p)
           gx == g[N] \o x
           h == [g EXCEPT ![N] = gx]
<1>1. N \in Nat \ {0} /\ N \in 0..N /\ 0 \in 0..N
  BY PlanIs DEF Final
<1> HIDE DEF N
<1>2. /\ g \in [0..N -> Seq(Byte)] /\ b \in [0..N -> Seq(Byte)]
      /\ Out(g, b, 0) = p.data /\ (p.stages[1].kind \notin Reading => b[0] = <<>>)
      /\ g[N] = snk
  BY DEF Flow, N
<1>3. \A j \in 1..N : Has(p, j) =>
        Passes(p, j, g[Near(p, j)], Out(g, b, j), ch[j], tr[j]) /\ Good(p, j, Out(g, b, j))
  BY DEF Flow, N
<1>4. /\ b2 \in [0..N -> Seq(Byte)] /\ b[N] = x \o b2[N]
      /\ \A j \in 0..N : j # N => b2[j] = b[j]
  BY DEF N
<1>5. g[N] \in Seq(Byte) /\ b2[N] \in Seq(Byte)
  BY <1>1, <1>2, <1>4
<1>6. gx \in Seq(Byte) /\ gx \o b2[N] = Out(g, b, N)
  <2> DEFINE u == g[N]
             v == b2[N]
  <2>1. u \in Seq(Byte) /\ v \in Seq(Byte)
    BY <1>5
  <2>2. b[N] = x \o v /\ gx = u \o x
    BY <1>4
  <2> HIDE DEF u, v, gx
  <2>3. (u \o x) \o v = u \o (x \o v)
    BY <2>1, ThreeJoin DEF Associates
  <2>4. u \o x \in Seq(Byte)
    BY <2>1, ConcatProperties
  <2> QED BY <2>2, <2>3, <2>4 DEF Out, u, v
<1> HIDE DEF gx
<1>7. h \in [0..N -> Seq(Byte)] /\ h[N] = gx /\ \A j \in 0..N : j # N => h[j] = g[j]
  BY <1>1, <1>2, <1>6
<1> HIDE DEF h
<1>8. \A j \in 0..N : Out(h, b2, j) = Out(g, b, j)
  <2> TAKE j \in 0..N
  <2>1. CASE j = N
    BY <1>6, <1>7, <2>1 DEF Out
  <2>2. CASE j # N
    BY <1>4, <1>7, <2>2 DEF Out
  <2> QED BY <2>1, <2>2
<1>9. \A j \in 1..N : Near(p, j) \in 0..N /\ Near(p, j) # N
  <2> TAKE j \in 1..N
  <2>1. Near(p, j) \in 0..(j - 1)
    BY NearIs DEF N
  <2> QED BY <1>1, <2>1
<1>10. \A j \in 1..N : h[Near(p, j)] = g[Near(p, j)]
  BY <1>7, <1>9
<1>11. ASSUME NEW j \in 1..N, Has(p, j)
       PROVE  /\ Passes(p, j, h[Near(p, j)], Out(h, b2, j), ch[j], tr[j])
              /\ Good(p, j, Out(h, b2, j))
  <2>1. j \in 0..N
    OBVIOUS
  <2>2. Out(h, b2, j) = Out(g, b, j)
    BY <1>8, <2>1
  <2> QED BY <1>3, <1>10, <1>11, <2>2
<1>12. h[N] = snk \o x
  BY <1>2, <1>7 DEF gx
<1>13. p.stages[1].kind \notin Reading => b2[0] = <<>>
  BY <1>1, <1>2, <1>4
<1>14. Out(h, b2, 0) = p.data
  BY <1>1, <1>2, <1>8
<1>15. Flow(p, h, b2, snk \o x, tr, ch)
  BY <1>4, <1>7, <1>11, <1>12, <1>13, <1>14 DEF Flow, N
<1> QED BY <1>8, <1>15 DEF N, Same

\* With nothing left before it, all that a stage makes has come out of it.
LEMMA FlowComplete ==
  ASSUME NEW p \in Plans, Fits(p), NEW g, NEW b, NEW snk, NEW tr, NEW ch,
         Flow(p, g, b, snk, tr, ch), NEW em, Done(p, g, b, em),
         NEW i \in 1..Final(p), Has(p, i), ~Is(p, i, "encode"),
         Near(p, i) \in {0} \cup em, b[Near(p, i)] = <<>>
  PROVE  Complete(p, i, Out(g, b, i))
<1> DEFINE m == Near(p, i)
<1>1. Good(p, m, Out(g, b, m)) /\ g[m] \in Seq(Byte)
  BY FlowGood
<1>2. Out(g, b, m) = g[m]
  BY <1>1, ConcatEmptySeq DEF Out
<1>3. Complete(p, m, Out(g, b, m))
  <2>1. CASE m = 0
    BY <2>1, GoodSource DEF Flow
  <2>2. CASE m \in em
    BY <2>2 DEF Done
  <2> QED BY <2>1, <2>2
<1>4. Passes(p, i, g[m], Out(g, b, i), ch[i], tr[i])
  BY DEF Flow
<1> HIDE DEF m
<1>5. Good(p, m, g[m]) /\ Complete(p, m, g[m])
  BY <1>1, <1>2, <1>3
<1> QED BY <1>4, <1>5, PassesComplete DEF m

\* The stages that are through keep what they have.
LEMMA DoneKeeps ==
  ASSUME NEW p \in Plans, NEW g, NEW b, NEW h, NEW i \in 1..Final(p), NEW b2, NEW x, NEW y,
         b \in [0..Final(p) -> Seq(Byte)],
         Shifts(p, i, b, b2, x, y), SameBut(p, i, g, b, h, b2),
         NEW em \in SUBSET (1..Final(p)), Done(p, g, b, em), \A j \in em : j < i
  PROVE  Done(p, h, b2, em)
<1> SUFFICES ASSUME NEW j \in em
             PROVE  Complete(p, j, Out(h, b2, j)) /\ (Drained(p, j) => b2[j] = <<>>)
  BY DEF Done
<1>1. j \in 0..Final(p) /\ j # i
  BY PlanIs DEF Final
<1>2. Complete(p, j, Out(h, b2, j))
  BY <1>1 DEF SameBut, Done
<1>3. ASSUME Drained(p, j) PROVE b2[j] = <<>>
  <2>1. b[j] = <<>>
    BY <1>3 DEF Done
  <2>2. CASE j = Near(p, i)
    <3> DEFINE r == b2[j]
    <3>1. x \o r = <<>> /\ x \in Seq(Byte) /\ r \in Seq(Byte)
      BY <1>1, <2>1, <2>2 DEF Shifts
    <3> HIDE DEF r
    <3>2. Len(x \o r) = Len(x) + Len(r) /\ Len(x) \in Nat /\ Len(r) \in Nat
      BY <3>1, ConcatProperties
    <3>3. Len(r) = 0
      BY <3>1, <3>2
    <3>4. r = <<>>
      BY <3>1, <3>3, EmptySeq
    <3> QED BY <3>4 DEF r
  <2>3. CASE j # Near(p, i)
    BY <1>1, <2>1, <2>3 DEF Shifts
  <2> QED BY <2>2, <2>3
<1> QED BY <1>2, <1>3

LEMMA DoneMore ==
  ASSUME NEW p, NEW h, NEW b, NEW em, NEW i, Done(p, h, b, em),
         Complete(p, i, Out(h, b, i)), Drained(p, i) => b[i] = <<>>
  PROVE  Done(p, h, b, em \cup {i})
BY DEF Done

\* Only a stage that decodes is empty with something in its buffer.
LEMMA NothingBefore ==
  ASSUME NEW p \in Plans, NEW g, NEW b, NEW snk, NEW tr, NEW ch,
         Flow(p, g, b, snk, tr, ch), NEW em, Done(p, g, b, em),
         NEW i \in 1..Final(p), Near(p, i) \in em, p.stages[Near(p, i)].kind \notin Decoding
  PROVE  b[Near(p, i)] = <<>>
<1>1. Near(p, i) \in 0..(i - 1) /\ Final(p) \in Nat
  BY NearIs
<1>2. Near(p, i) # Final(p)
  BY <1>1
<1> QED BY <1>2 DEF Done, Drained

\* The stage behind a decoder, which is there and has a buffer, is the next.
LEMMA BehindDecoder ==
  ASSUME NEW p \in Plans, Fits(p), NEW i \in 1..Final(p), Near(p, i) > 0,
         p.stages[Near(p, i)].kind \in Decoding
  PROVE  /\ i = Near(p, i) + 1 /\ p.stages[i].size >= p.stages[Near(p, i)].size
         /\ p.stages[i].kind # "socket_out" /\ Has(p, i)
         /\ DecoderFits(p, Near(p, i)) /\ Near(p, i) \in 1..Final(p)
<1> DEFINE m == Near(p, i)
<1>1. m \in 1..Final(p) /\ Has(p, m) /\ m \in 0..(i - 1) /\ Final(p) \in Nat
      /\ \A j \in 1..(i - 1) : Has(p, j) => j <= m
  BY NearIs
<1> HIDE DEF m
<1>2. DecoderFits(p, m)
  BY <1>1 DEF Fits, m
<1>3. /\ m < Final(p) /\ p.stages[m + 1].size >= p.stages[m].size
      /\ p.stages[m + 1].kind # "socket_out"
  BY <1>2 DEF DecoderFits
<1>4. p.stages[m].size \in Nat /\ p.stages[m + 1].size \in Nat /\ p.stages[m].size > 0
  <2>1. m + 1 \in 1..Final(p)
    BY <1>1, <1>3
  <2> QED BY <1>1, <2>1, StageIs DEF Final, Has
<1>5. Has(p, m + 1)
  BY <1>3, <1>4 DEF Has
<1>6. i = m + 1
  <2>1. ~(m + 1 \in 1..(i - 1))
    <3> SUFFICES ASSUME m + 1 \in 1..(i - 1) PROVE FALSE
      OBVIOUS
    <3>1. m + 1 <= m
      BY <1>1, <1>5
    <3> QED BY <1>1, <3>1
  <2> QED BY <1>1, <2>1
<1> QED BY <1>1, <1>2, <1>3, <1>5, <1>6 DEF m

-----------------------------------------------------------------------------
(* The second invariant                                                     *)

Held(p, buf, src) == [j \in 0..Final(p) |-> IF j = 0 THEN src ELSE buf[j].data]

Flowing(p, buf, src, snk, tr, ch, em) ==
  \E g : Flow(p, g, Held(p, buf, src), snk, tr, ch) /\ Done(p, g, Held(p, buf, src), em)

\* A last stage takes what a decoder leaves: a file has had all of its buffer,
\* and one that keeps its data has no gap before it.
LastRoom(p, buf) ==
  /\ Is(p, Final(p), "file_out") => buf[Final(p)] = Empty
  /\ Is(p, Final(p), "null") => buf[Final(p)].gap = 0

\* The stages that are through are before the one that is processed.
Passed(a, em) == a # 0 => \A j \in em : j < a

\* Only reading, writing and what passes on a failure fail; with an encoder,
\* only the last stage does.
Fallible == Reading \cup Writing \cup {"null"}
Errs(p, a, er, f) ==
  /\ \A i \in er : p.stages[i].kind \in Fallible
  /\ (\E e \in 1..Final(p) : Is(p, e, "encode")) =>
       /\ er = {} \/ (a = 0 /\ Final(p) \in er)
       /\ a # 0 => ~f

Smooth ==
  Fits(plan) =>
    /\ Errs(plan, at, error, failing)
    /\ error = {} =>
         /\ Passed(at, empty) /\ LastRoom(plan, buffer)
         /\ Flowing(plan, buffer, source, sink, transferred, chunk, empty)

LEMMA HeldIs ==
  ASSUME NEW p \in Plans, NEW buf, NEW src, NEW snk, Filled(p, buf, src, snk)
  PROVE  /\ Held(p, buf, src) \in [0..Final(p) -> Seq(Byte)]
         /\ Held(p, buf, src)[0] = src
         /\ \A j \in 1..Final(p) : Held(p, buf, src)[j] = buf[j].data
         /\ Final(p) \in Nat \ {0}
<1>1. Final(p) \in Nat \ {0}
  BY PlanIs DEF Final
<1>2. buf \in [1..Final(p) -> Buffer] /\ src \in Seq(Byte)
  BY DEF Filled, Final
<1>3. \A j \in 1..Final(p) : buf[j].data \in Seq(Byte)
  BY <1>2 DEF Buffer
<1> QED BY <1>1, <1>2, <1>3 DEF Held

\* What has an encoder does not fail before the end.
LEMMA ErrsAfter ==
  ASSUME Inv, NEW i \in Stages, at = i, plan' = plan, NEW fails, NEW declares,
         After(i, fails, declares), Errs(plan, at, error, failing),
         fails => /\ kind(i) \in Fallible
                  /\ (\E e \in 1..Final(plan) : Is(plan, e, "encode")) => i = End
  PROVE  Errs(plan', at', error', failing')
<1>1. Final(plan) = End /\ i \in Nat \ {0}
  BY Here DEF Final, Stages
<1>2. /\ error' = IF fails THEN error \cup {i} ELSE error
      /\ failing' = fails
      /\ (fails /\ i = End) => at' = 0
  BY DEF After
<1>3. \A j \in error' : plan.stages[j].kind \in Fallible
  BY <1>2 DEF Errs, kind
<1>4. ASSUME \E e \in 1..Final(plan) : Is(plan, e, "encode")
      PROVE  /\ error' = {} \/ (at' = 0 /\ Final(plan) \in error')
             /\ at' # 0 => ~failing'
  <2>1. error = {}
    BY <1>1, <1>4 DEF Errs
  <2>2. CASE fails
    BY <1>1, <1>2, <1>4, <2>1, <2>2
  <2>3. CASE ~fails
    BY <1>2, <2>1, <2>3
  <2> QED BY <2>2, <2>3
<1>5. Errs(plan, at', error', failing')
  BY <1>3, <1>4 DEF Errs
<1> QED BY <1>5

\* A stage that is through with its turn.
LEMMA SmoothAfter ==
  ASSUME Inv, Smooth, NEW i \in Stages, at = i, plan' = plan, NEW fails, NEW declares,
         After(i, fails, declares),
         Fits(plan) /\ fails =>
           /\ kind(i) \in Fallible
           /\ (\E e \in 1..Final(plan) : Is(plan, e, "encode")) => i = End,
         Fits(plan) /\ error = {} /\ ~fails =>
           /\ LastRoom(plan, buffer')
           /\ Flowing(plan, buffer', source', sink', transferred', chunk', empty')
  PROVE  Smooth'
<1> SUFFICES ASSUME Fits(plan)
             PROVE  /\ Errs(plan, at', error', failing')
                    /\ error' = {} =>
                         /\ Passed(at', empty') /\ LastRoom(plan, buffer')
                         /\ Flowing(plan, buffer', source', sink', transferred', chunk', empty')
  BY DEF Smooth
<1>1. Errs(plan', at', error', failing')
  BY ErrsAfter DEF Smooth
<1>2. ASSUME error' = {}
      PROVE  /\ Passed(at', empty') /\ LastRoom(plan, buffer')
             /\ Flowing(plan, buffer', source', sink', transferred', chunk', empty')
  <2>1. ~fails /\ error = {}
    BY <1>2 DEF After
  <2>2. Passed(at', empty')
    <3>1. at' = IF i = End THEN 0 ELSE i + 1
      BY <2>1 DEF After
    <3>2. empty' \subseteq empty \cup {i}
      BY <2>1 DEF After
    <3>3. empty \subseteq Nat /\ i \in Nat \ {0} /\ \A j \in empty : j < i
      <4>1. empty \subseteq 1..Len(plan.stages)
        BY DEF Inv, StatusOK
      <4>2. i \in Nat \ {0}
        BY DEF Stages
      <4>3. \A j \in empty : j < i
        BY <2>1, <4>2 DEF Smooth, Passed
      <4> QED BY <4>1, <4>2, <4>3
    <3> SUFFICES ASSUME at' # 0, NEW j \in empty' PROVE j < at'
      BY DEF Passed
    <3>4. at' = i + 1
      BY <3>1
    <3>5. j \in Nat /\ j <= i
      BY <3>2, <3>3
    <3> QED BY <3>3, <3>4, <3>5
  <2> QED BY <2>1, <2>2
<1> QED BY <1>1, <1>2

\* A stage that goes on.
LEMMA SmoothContinues ==
  ASSUME Inv, Smooth, NEW i \in Stages, at = i, plan' = plan, Continues(i),
         Fits(plan) /\ error = {} =>
           /\ LastRoom(plan, buffer')
           /\ Flowing(plan, buffer', source', sink', transferred', chunk', empty)
  PROVE  Smooth'
<1>1. at' = at /\ empty' = empty /\ error' = error /\ failing' = failing
  BY DEF Continues
<1> SUFFICES ASSUME Fits(plan)
             PROVE  /\ Errs(plan, at', error', failing')
                    /\ error' = {} =>
                         /\ Passed(at', empty') /\ LastRoom(plan, buffer')
                         /\ Flowing(plan, buffer', source', sink', transferred', chunk', empty')
  BY DEF Smooth
<1> QED BY <1>1 DEF Smooth

-----------------------------------------------------------------------------
(* A stage passes on what it is given                                       *)

LEMMA Places ==
  ASSUME Inv, NEW i \in Stages
  PROVE  /\ plan \in Plans /\ Final(plan) = End /\ End \in Nat \ {0} /\ Stages = 1..Final(plan)
         /\ i \in 1..Final(plan) /\ NearestIn(i) = Near(plan, i)
         /\ \A k : kind(i) = k <=> Is(plan, i, k)
         /\ kind(i) = plan.stages[i].kind /\ size(i) = plan.stages[i].size
         /\ HasBuffer(i) <=> Has(plan, i)
         /\ Filled(plan, buffer, source, sink)
         /\ chunk[i] \in Chunk /\ transferred[i] \in Nat
         /\ Is(plan, i, "limited") => transferred[i] <= plan.stages[i].n
<1>1. /\ plan \in Plans /\ Final(plan) = End /\ End \in Nat \ {0} /\ i \in 1..Final(plan)
      /\ NearestIn(i) = Near(plan, i) /\ kind(i) = plan.stages[i].kind
      /\ size(i) = plan.stages[i].size /\ (HasBuffer(i) <=> Has(plan, i))
  BY Here DEF Final, Near
<1>2. Stages = 1..Final(plan)
  BY DEF Stages, Final
<1>3. \A k : kind(i) = k <=> Is(plan, i, k)
  BY <1>1 DEF Is
<1>4. Filled(plan, buffer, source, sink)
  BY DEF Inv, BuffersOK
<1>5. chunk[i] \in Chunk
  BY <1>1 DEF Inv, ChunksOK, Final
<1>6. transferred[i] \in Nat /\ (Is(plan, i, "limited") => transferred[i] <= plan.stages[i].n)
  BY <1>1 DEF Inv, CountsOK, Final, Is
<1> QED BY <1>1, <1>2, <1>3, <1>4, <1>5, <1>6

LEMMA HeldShifts ==
  ASSUME NEW p \in Plans, NEW buf, NEW src, NEW snk, Filled(p, buf, src, snk),
         NEW buf2, NEW src2, NEW snk2, Filled(p, buf2, src2, snk2),
         NEW i \in 1..Final(p), NEW x \in Seq(Byte), NEW y \in Seq(Byte),
         Near(p, i) = 0 => src = x \o src2,
         Near(p, i) > 0 => src2 = src /\ buf[Near(p, i)].data = x \o buf2[Near(p, i)].data,
         buf2[i].data = buf[i].data \o y,
         \A j \in 1..Final(p) : j \notin {Near(p, i), i} => buf2[j].data = buf[j].data
  PROVE  Shifts(p, i, Held(p, buf, src), Held(p, buf2, src2), x, y)
<1> DEFINE b == Held(p, buf, src)
           b2 == Held(p, buf2, src2)
           m == Near(p, i)
<1>1. /\ b \in [0..Final(p) -> Seq(Byte)] /\ b[0] = src
      /\ \A j \in 1..Final(p) : b[j] = buf[j].data
      /\ Final(p) \in Nat \ {0}
  BY HeldIs
<1>2. /\ b2 \in [0..Final(p) -> Seq(Byte)] /\ b2[0] = src2
      /\ \A j \in 1..Final(p) : b2[j] = buf2[j].data
  BY HeldIs
<1>3. m \in 0..Final(p) /\ (m > 0 => m \in 1..Final(p))
  BY NearIs
<1> HIDE DEF b, b2
<1>4. b[m] = x \o b2[m]
  <2>1. CASE m = 0
    BY <1>1, <1>2, <2>1
  <2>2. CASE m > 0
    BY <1>1, <1>2, <1>3, <2>2
  <2> QED BY <1>3, <2>1, <2>2
<1>5. b2[i] = b[i] \o y
  BY <1>1, <1>2
<1>6. \A j \in 0..Final(p) : j \notin {m, i} => b2[j] = b[j]
  <2> TAKE j \in 0..Final(p)
  <2> HAVE j \notin {m, i}
  <2>1. CASE j = 0
    <3>1. m > 0
      BY <1>3, <2>1
    <3> QED BY <1>1, <1>2, <2>1, <3>1
  <2>2. CASE j # 0
    <3>1. j \in 1..Final(p)
      BY <1>1, <2>2
    <3> QED BY <1>1, <1>2, <3>1
  <2> QED BY <2>1, <2>2
<1> QED BY <1>2, <1>4, <1>5, <1>6 DEF Shifts, b, b2

\* The flow after a stage has put y of the x that it has taken, and is EMPTY
\* or not.
LEMMA StageFlows ==
  ASSUME Inv, Inv', Fits(plan), plan' = plan, NEW i \in Stages, Has(plan, i), sink' = sink,
         NEW g, Flow(plan, g, Held(plan, buffer, source), sink, transferred, chunk),
         Done(plan, g, Held(plan, buffer, source), empty), \A j \in empty : j < i,
         NEW x, NEW y,
         Shifts(plan, i, Held(plan, buffer, source), Held(plan, buffer', source'), x, y),
         \A j \in Stages : j # i => chunk'[j] = chunk[j] /\ transferred'[j] = transferred[j],
         Passes(plan, i, g[Near(plan, i)] \o x, Out(g, Held(plan, buffer, source), i) \o y,
                chunk'[i], transferred'[i]),
         NEW em, em = empty \/ em = empty \cup {i},
         i \in em /\ Drained(plan, i) => buffer'[i].data = <<>>,
         i \in em =>
           \/ Complete(plan, i, Out(g, Held(plan, buffer, source), i) \o y)
           \/ /\ ~Is(plan, i, "encode") /\ Near(plan, i) \in {0} \cup empty
              /\ Held(plan, buffer', source')[Near(plan, i)] = <<>>
  PROVE  Flowing(plan, buffer', source', sink', transferred', chunk', em)
<1> DEFINE b == Held(plan, buffer, source)
           b2 == Held(plan, buffer', source')
<1>1. /\ plan \in Plans /\ i \in 1..Final(plan) /\ Stages = 1..Final(plan)
      /\ empty \in SUBSET (1..Final(plan))
  BY Places DEF Inv, StatusOK, Final
<1>2. /\ Filled(plan, buffer', source', sink') /\ chunk'[i] \in Chunk
      /\ Is(plan, i, "limited") => transferred'[i] <= plan.stages[i].n
  <2>1. /\ BuffersOK(plan, buffer', source', sink') /\ ChunksOK(plan, chunk')
        /\ CountsOK(plan, transferred')
    BY DEF Inv
  <2>2. i \in 1..Len(plan.stages)
    BY <1>1 DEF Final
  <2> QED BY <2>1, <2>2 DEF BuffersOK, ChunksOK, CountsOK, Is
<1>3. b \in [0..Final(plan) -> Seq(Byte)] /\ b2[i] = buffer'[i].data
  <2>1. Filled(plan, buffer, source, sink)
    BY Places
  <2> QED BY <1>1, <1>2, <2>1, HeldIs
<1> HIDE DEF b, b2
<1>4. PICK h : /\ Flow(plan, h, b2, sink, transferred', chunk')
               /\ SameBut(plan, i, g, b, h, b2) /\ Out(h, b2, i) = Out(g, b, i) \o y
  BY <1>1, <1>2, Transfer DEF b, b2
<1>5. Done(plan, h, b2, empty)
  BY <1>1, <1>3, <1>4, DoneKeeps DEF b, b2
<1>6. ASSUME i \in em PROVE Complete(plan, i, Out(h, b2, i))
  <2>1. CASE Complete(plan, i, Out(g, b, i) \o y)
    BY <1>4, <2>1
  <2>2. CASE /\ ~Is(plan, i, "encode") /\ Near(plan, i) \in {0} \cup empty
             /\ b2[Near(plan, i)] = <<>>
    BY <1>1, <1>4, <1>5, <2>2, FlowComplete
  <2> QED BY <1>6, <2>1, <2>2 DEF b, b2
<1>7. ASSUME i \in em, Drained(plan, i) PROVE b2[i] = <<>>
  BY <1>3, <1>7
<1>8. Done(plan, h, b2, em)
  <2>1. CASE i \in em
    <3>1. em = empty \cup {i}
      BY <2>1
    <3>2. Done(plan, h, b2, empty \cup {i})
      BY <1>5, <1>6, <1>7, <2>1, DoneMore
    <3> QED BY <3>1, <3>2
  <2>2. CASE i \notin em
    BY <1>5, <2>2
  <2> QED BY <2>1, <2>2
<1>9. Flow(plan, h, b2, sink', transferred', chunk')
  BY <1>4
<1> QED BY <1>8, <1>9 DEF Flowing, b2

\* The flow before a stage.
LEMMA Flows ==
  ASSUME Inv, Smooth, Fits(plan), error = {}, NEW i \in Stages, at = i
  PROVE  /\ LastRoom(plan, buffer) /\ \A j \in empty : j < i
         /\ \E g : /\ Flow(plan, g, Held(plan, buffer, source), sink, transferred, chunk)
                   /\ Done(plan, g, Held(plan, buffer, source), empty)
<1>1. i # 0
  BY Places
<1> QED BY <1>1 DEF Smooth, Passed, Flowing

LEMMA RoomKeeps ==
  ASSUME Inv, NEW i \in Stages, LastRoom(plan, buffer), plan' = plan,
         i = End => kind(i) \notin {"null", "file_out"},
         \A j \in Stages : j \notin {i, NearestIn(i)} => buffer'[j] = buffer[j]
  PROVE  LastRoom(plan, buffer')
<1>1. /\ Final(plan) = End /\ End \in Stages /\ NearestIn(i) # End
      /\ i = End => \A k : kind(i) = k <=> Is(plan, End, k)
  <2>1. /\ plan \in Plans /\ Final(plan) = End /\ End \in Nat \ {0} /\ Stages = 1..Final(plan)
        /\ i \in 1..Final(plan) /\ NearestIn(i) = Near(plan, i)
        /\ \A k : kind(i) = k <=> Is(plan, i, k)
    BY Places
  <2>2. Near(plan, i) \in 0..(i - 1)
    BY <2>1, NearIs
  <2> QED BY <2>1, <2>2
<1>2. CASE i = End
  BY <1>1, <1>2 DEF LastRoom
<1>3. CASE i # End
  <2>1. buffer'[End] = buffer[End]
    BY <1>1, <1>3
  <2> QED BY <1>1, <2>1 DEF LastRoom
<1> QED BY <1>2, <1>3

-----------------------------------------------------------------------------
(* What moves                                                               *)

LEMMA MovedLeast ==
  ASSUME Inv, NEW i \in Stages, NEW j \in Stages, NEW max \in Nat
  PROVE  \/ Moved(buffer[j], i, max) = Len(buffer[j].data)
         \/ Moved(buffer[j], i, max) = room(buffer[i], size(i))
         \/ Moved(buffer[j], i, max) = max
<1>1. Len(buffer[j].data) \in Nat /\ room(buffer[i], size(i)) \in Nat
  BY Here
<1> DEFINE T == {Len(buffer[j].data), room(buffer[i], size(i)), max}
<1>2. T \subseteq Nat /\ T # {}
  BY <1>1
<1>3. Min(T) \in T
  <2> HIDE DEF T
  <2> QED BY <1>2, MinIs
<1>4. Moved(buffer[j], i, max) = Min(T)
  BY DEF Moved
<1> DEFINE m == Min(T)
<1>5. m = Len(buffer[j].data) \/ m = room(buffer[i], size(i)) \/ m = max
  BY <1>3
<1> HIDE DEF m
<1>6. Moved(buffer[j], i, max) = m
  BY <1>4 DEF m
<1> QED BY <1>5, <1>6

LEMMA EmptyIs == Empty \in Buffer /\ Empty.data = <<>> /\ Empty.gap = 0
<1>1. <<>> \in Seq(Byte)
  BY EmptySeq
<1> QED BY <1>1 DEF Empty, Buffer

LEMMA PutGap ==
  ASSUME NEW b \in Buffer, NEW s
  PROVE  Put(b, s).gap = b.gap
<1> DEFINE d == b.data \o s
<1>1. Put(b, s) = [b EXCEPT !.data = d]
  BY DEF Put
<1> HIDE DEF d
<1>2. b = [gap |-> b.gap, data |-> b.data]
  BY DEF Buffer
<1> QED BY <1>1, <1>2

\* A buffer that is empty after a stage has put s was empty before, and s too.
LEMMA PutEmpty ==
  ASSUME NEW b \in Buffer, NEW s \in Seq(Byte), Put(b, s) = Empty
  PROVE  b.gap = 0 /\ Len(b.data) = 0 /\ Len(s) = 0
<1>1. b.data \in Seq(Byte) /\ b.gap \in Nat
  BY DEF Buffer
<1>2. Put(b, s).data = b.data \o s
  BY PutIs
<1>3. Put(b, s).gap = b.gap
  BY PutGap
<1>4. Len(b.data \o s) = 0
  <2>1. b.data \o s = <<>>
    BY <1>2, EmptyIs
  <2> QED BY <2>1
<1>5. Len(b.data \o s) = Len(b.data) + Len(s) /\ Len(b.data) \in Nat /\ Len(s) \in Nat
  BY <1>1, ConcatProperties
<1> QED BY <1>3, <1>4, <1>5, EmptyIs

\* n bytes have moved to stage i, x, and buf are the buffers then.
Moving(i, n, x, buf) ==
  /\ x \in Seq(Byte) /\ Len(x) = n /\ NearestIn(i) \in Stages
  /\ Filled(plan, buf, source, sink)
  /\ buf[i] = Put(buffer[i], x) /\ buf[i].data = buffer[i].data \o x
  /\ buf[NearestIn(i)] = Drop(buffer[NearestIn(i)], n)
  /\ buffer[NearestIn(i)].data = x \o buf[NearestIn(i)].data
  /\ \A j \in Stages : j \notin {NearestIn(i), i} => buf[j] = buffer[j]
  /\ Shifts(plan, i, Held(plan, buffer, source), Held(plan, buf, source), x, x)

LEMMA MoveOn ==
  ASSUME Inv, NEW i \in Stages, i > 1, HasBuffer(i),
         NEW n \in 0..Len(buffer[NearestIn(i)].data), n <= room(buffer[i], size(i)),
         NEW x, x = SubSeq(buffer[NearestIn(i)].data, 1, n),
         NEW buf, buf = Move(NearestIn(i), i, n)
  PROVE  Moving(i, n, x, buf)
<1> DEFINE m == NearestIn(i)
<1>1. /\ plan \in Plans /\ m \in Stages /\ m # i /\ m > 0 /\ m = Near(plan, i)
      /\ Stages = 1..Final(plan) /\ i \in 1..Final(plan)
      /\ Filled(plan, buffer, source, sink)
  BY Before, Places
<1>2. /\ buffer \in [Stages -> Buffer] /\ buffer[m] \in Buffer /\ buffer[i] \in Buffer
      /\ buffer[m].data \in Seq(Byte) /\ buffer[i].data \in Seq(Byte)
      /\ source \in Seq(Byte) /\ sink \in Seq(Byte)
  <2>1. buffer \in [Stages -> Buffer] /\ source \in Seq(Byte) /\ sink \in Seq(Byte)
    BY <1>1 DEF Filled, Final
  <2>2. buffer[m] \in Buffer /\ buffer[i] \in Buffer
    BY <1>1, <2>1
  <2> QED BY <2>1, <2>2 DEF Buffer
<1>3. n \in 0..Len(buffer[m].data) /\ x = SubSeq(buffer[m].data, 1, n) /\ buf = Move(m, i, n)
  OBVIOUS
<1> HIDE DEF m
<1> DEFINE r == SubSeq(buffer[m].data, n + 1, Len(buffer[m].data))
<1>4. x \in Seq(Byte) /\ Len(x) = n /\ buffer[m].data = x \o r
  <2> DEFINE d == buffer[m].data
  <2>1. d \in Seq(Byte) /\ n \in 0..Len(d) /\ x = SubSeq(d, 1, n) /\ r = SubSeq(d, n + 1, Len(d))
    BY <1>2, <1>3
  <2> HIDE DEF d, r
  <2>2. x \in Seq(Byte) /\ Len(x) = n
    BY <2>1, Cut
  <2>3. d = x \o r
    BY <2>1, Cut
  <2> QED BY <2>2, <2>3 DEF d
<1>5. /\ Drop(buffer[m], n) \in Buffer /\ Drop(buffer[m], n).data = r
      /\ Put(buffer[i], x) \in Buffer /\ Put(buffer[i], x).data = buffer[i].data \o x
  BY <1>2, <1>3, <1>4, DropIs, PutIs
<1> HIDE DEF r
<1>6. buf = [buffer EXCEPT ![m] = Drop(@, n), ![i] = Put(@, x)]
  BY <1>3 DEF Move
<1>7. /\ buf \in [Stages -> Buffer] /\ buf[i] = Put(buffer[i], x)
      /\ buf[m] = Drop(buffer[m], n)
      /\ \A j \in Stages : j \notin {m, i} => buf[j] = buffer[j]
  BY <1>1, <1>2, <1>5, <1>6
<1>8. Filled(plan, buf, source, sink)
  BY <1>1, <1>2, <1>7 DEF Filled, Final
<1>9. buf[i].data = buffer[i].data \o x /\ buffer[m].data = x \o buf[m].data
  BY <1>4, <1>5, <1>7
<1>10. Shifts(plan, i, Held(plan, buffer, source), Held(plan, buf, source), x, x)
  <2>1. \A j \in 1..Final(plan) : j \notin {Near(plan, i), i} => buf[j].data = buffer[j].data
    BY <1>1, <1>7
  <2>2. /\ Near(plan, i) # 0
        /\ buffer[Near(plan, i)].data = x \o buf[Near(plan, i)].data
    BY <1>1, <1>9
  <2> QED BY <1>1, <1>4, <1>8, <1>9, <2>1, <2>2, HeldShifts
<1> QED BY <1>1, <1>4, <1>7, <1>8, <1>9, <1>10 DEF m, Moving

\* All of a buffer has gone out of it.
LEMMA DropAll ==
  ASSUME NEW b \in Buffer, NEW n, n = Len(b.data)
  PROVE  Drop(b, n) = Empty
BY DEF Drop

\* A move that leaves nothing behind a stage has left nothing before it, if
\* there was room for something and no limit.
LEMMA MovesAll ==
  ASSUME Inv, NEW i \in Stages, NEW j \in Stages, HasBuffer(i), NEW max \in Nat,
         NEW n, n = Moved(buffer[j], i, max),
         Put(buffer[i], SubSeq(buffer[j].data, 1, n)) = Empty
  PROVE  n = Len(buffer[j].data) \/ n = max
<1>1. /\ buffer[i] \in Buffer /\ buffer[i].data \in Seq(Byte)
      /\ buffer[j].data \in Seq(Byte) /\ n \in 0..Len(buffer[j].data)
  BY Here, MovedIs
<1> DEFINE x == SubSeq(buffer[j].data, 1, n)
<1>2. x \in Seq(Byte) /\ Len(x) = n
  BY <1>1, Cut
<1>3. Put(buffer[i], x) = Empty
  OBVIOUS
<1> HIDE DEF x
<1>4. buffer[i].gap = 0 /\ Len(buffer[i].data) = 0 /\ n = 0
  BY <1>1, <1>2, <1>3, PutEmpty
<1>5. room(buffer[i], size(i)) > 0
  <2>1. size(i) \in Nat
    BY Here, StageIs
  <2> QED BY <1>4, <2>1 DEF room, HasBuffer
<1>6. n # room(buffer[i], size(i))
  BY <1>4, <1>5
<1> QED BY <1>6, MovedLeast

-----------------------------------------------------------------------------
(* The stages of pipe.c keep the second invariant                           *)

\* A stage that does not move anything.
LEMMA StillFlows ==
  ASSUME Inv, Inv', Fits(plan), plan' = plan, NEW i \in Stages, Has(plan, i),
         buffer' = buffer, source' = source, sink' = sink, transferred' = transferred,
         NEW g, Flow(plan, g, Held(plan, buffer, source), sink, transferred, chunk),
         Done(plan, g, Held(plan, buffer, source), empty), \A j \in empty : j < i,
         \A j \in Stages : j # i => chunk'[j] = chunk[j],
         Passes(plan, i, g[Near(plan, i)], Out(g, Held(plan, buffer, source), i),
                chunk'[i], transferred[i]),
         NEW em, em = empty \/ em = empty \cup {i},
         i \in em /\ Drained(plan, i) => buffer[i].data = <<>>,
         i \in em =>
           \/ Complete(plan, i, Out(g, Held(plan, buffer, source), i))
           \/ /\ ~Is(plan, i, "encode") /\ Near(plan, i) \in {0} \cup empty
              /\ Held(plan, buffer, source)[Near(plan, i)] = <<>>
  PROVE  Flowing(plan, buffer', source', sink', transferred', chunk', em)
<1> DEFINE nothing == <<>>
           b == Held(plan, buffer, source)
           m == Near(plan, i)
<1>1. /\ plan \in Plans /\ i \in 1..Final(plan) /\ Filled(plan, buffer, source, sink)
      /\ b \in [0..Final(plan) -> Seq(Byte)] /\ b' = b
  BY Places, HeldIs
<1>2. m \in 0..Final(plan) /\ g[m] \in Seq(Byte) /\ b[m] \in Seq(Byte) /\ i \in 0..Final(plan)
  BY <1>1, FlowGood
<1>3. g[i] \in Seq(Byte) /\ b[i] \in Seq(Byte)
  BY <1>1, <1>2 DEF Flow
<1>4. nothing \in Seq(Byte) /\ b[m] = nothing \o b[m] /\ b[i] = b[i] \o nothing
      /\ g[m] \o nothing = g[m]
  BY <1>2, <1>3, ConcatEmptySeq, EmptySeq
<1>5. Out(g, b, i) \o nothing = Out(g, b, i)
  <2> DEFINE o == g[i] \o b[i]
  <2>1. o \in Seq(Byte)
    BY <1>3, ConcatProperties
  <2>2. Out(g, b, i) = o
    BY DEF Out
  <2> HIDE DEF o, b
  <2> QED BY <2>1, <2>2, ConcatEmptySeq
<1> HIDE DEF nothing, b, m
<1>6. Shifts(plan, i, b, b, nothing, nothing)
  BY <1>1, <1>4 DEF Shifts, m
<1>7. Held(plan, buffer', source') = b
  BY DEF b
<1>8. Passes(plan, i, g[m] \o nothing, Out(g, b, i) \o nothing, chunk'[i], transferred'[i])
  BY <1>4, <1>5 DEF b, m
<1>9. Shifts(plan, i, b, Held(plan, buffer', source'), nothing, nothing)
  BY <1>6, <1>7
<1>10. i \in em =>
         \/ Complete(plan, i, Out(g, b, i) \o nothing)
         \/ /\ ~Is(plan, i, "encode") /\ m \in {0} \cup empty
            /\ Held(plan, buffer', source')[m] = <<>>
  BY <1>5, <1>7 DEF b, m
<1>11. i \in em /\ Drained(plan, i) => buffer'[i].data = <<>>
  OBVIOUS
<1>12. \A j \in Stages : j # i => chunk'[j] = chunk[j] /\ transferred'[j] = transferred[j]
  OBVIOUS
<1> QED BY <1>8, <1>9, <1>10, <1>11, <1>12, StageFlows DEF b, m

LEMMA NoEncoder ==
  ASSUME Inv, Fits(plan), NEW i \in Stages, kind(i) \in Reading
  PROVE  ~\E e \in 1..Final(plan) : Is(plan, e, "encode")
<1>1. plan \in Plans /\ kind(i) = plan.stages[i].kind /\ i \in 1..Len(plan.stages)
  BY Here
<1>2. i = 1
  BY <1>1, StageIs
<1> SUFFICES ASSUME NEW e \in 1..Final(plan), Is(plan, e, "encode") PROVE FALSE
  OBVIOUS
<1>3. Is(plan, 1, "null")
  BY <1>1, EncoderAlone
<1> QED BY <1>1, <1>2, <1>3 DEF Is, Reading

LEMMA SmoothInFails ==
  ASSUME Inv, Smooth, NEW i \in Stages, InFails(i)
  PROVE  Smooth'
<1>1. at = i /\ kind(i) \in Reading /\ plan' = plan /\ After(i, TRUE, FALSE)
  BY DEF InFails, Turn
<1>2. Fits(plan) => kind(i) \in Fallible /\ ~\E e \in 1..Final(plan) : Is(plan, e, "encode")
  BY <1>1, NoEncoder DEF Fallible
<1> QED BY <1>1, <1>2, SmoothAfter

LEMMA SmoothOutFails ==
  ASSUME Inv, Smooth, NEW i \in Stages, OutFails(i)
  PROVE  Smooth'
<1>1. at = i /\ kind(i) \in Writing /\ plan' = plan /\ After(i, TRUE, FALSE)
  BY DEF OutFails, Turn
<1>2. i = End
  BY <1>1, Here, StageIs
<1>3. kind(i) \in Fallible
  BY <1>1 DEF Fallible
<1> QED BY <1>1, <1>2, <1>3, SmoothAfter

\* What reads puts into the first buffer what it takes out of the source.
LEMMA InFlows ==
  ASSUME Inv, Inv', Smooth, Fits(plan), error = {}, NEW i \in Stages, at = i,
         kind(i) \in Reading, UNCHANGED <<plan, sink, transferred, chunk>>,
         NEW n \in 0..Len(source), n <= room(buffer[i], size(i)),
         n = 0 => room(buffer[i], size(i)) = 0 \/ Len(source) = 0,
         buffer' = [buffer EXCEPT ![i] = Put(@, SubSeq(source, 1, n))],
         source' = SubSeq(source, n + 1, Len(source)),
         After(i, FALSE, FALSE)
  PROVE  /\ LastRoom(plan, buffer')
         /\ Flowing(plan, buffer', source', sink', transferred', chunk', empty')
<1> DEFINE x == SubSeq(source, 1, n)
           b == Held(plan, buffer, source)
<1>1. /\ plan \in Plans /\ Final(plan) = End /\ Stages = 1..Final(plan) /\ i \in 1..Final(plan)
      /\ NearestIn(i) = Near(plan, i) /\ kind(i) = plan.stages[i].kind
      /\ (HasBuffer(i) <=> Has(plan, i)) /\ Filled(plan, buffer, source, sink)
      /\ \A k : kind(i) = k <=> Is(plan, i, k)
  BY Places
<1>2. i = 1 /\ Has(plan, i)
  BY <1>1, StageIs, Buffered DEF Final
<1>3. Near(plan, i) = 0
  BY <1>1, <1>2, NearIs
<1>4. buffer \in [Stages -> Buffer] /\ source \in Seq(Byte) /\ buffer[i] \in Buffer
  BY <1>1 DEF Filled, Final
<1>5. x \in Seq(Byte) /\ Len(x) = n /\ source = x \o source'
  BY <1>4, Cut
<1> HIDE DEF x
<1>6. buffer'[i] = Put(buffer[i], x) /\ \A j \in Stages : j # i => buffer'[j] = buffer[j]
  BY <1>4 DEF x
<1>7. buffer'[i].data = buffer[i].data \o x
  BY <1>4, <1>5, <1>6, PutIs
<1>8. Filled(plan, buffer', source', sink')
  BY DEF Inv, BuffersOK
<1>9. Shifts(plan, i, b, Held(plan, buffer', source'), x, x)
  <2>1. \A j \in 1..Final(plan) : j \notin {Near(plan, i), i} => buffer'[j].data = buffer[j].data
    BY <1>1, <1>6
  <2>2. ~(Near(plan, i) > 0)
    BY <1>3
  <2> QED BY <1>1, <1>5, <1>7, <1>8, <2>1, <2>2, HeldShifts
<1>10. LastRoom(plan, buffer) /\ \A j \in empty : j < i
  BY Flows
<1>11. PICK g : Flow(plan, g, b, sink, transferred, chunk) /\ Done(plan, g, b, empty)
  BY Flows
<1> HIDE DEF b
<1>12. /\ ~Is(plan, i, "encode") /\ ~Is(plan, i, "decode") /\ ~Is(plan, i, "limited")
       /\ plan.stages[i].kind \notin Decoding /\ kind(i) \notin {"null", "file_out"}
  BY <1>1 DEF Reading, Decoding
<1>13. Passes(plan, i, g[0] \o x, Out(g, b, i) \o x, chunk'[i], transferred'[i])
  <2>1. Passes(plan, i, g[0], Out(g, b, i), chunk[i], transferred[i])
    BY <1>1, <1>2, <1>3, <1>11 DEF Flow
  <2>2. Out(g, b, i) = g[0]
    BY <1>12, <2>1 DEF Passes
  <2> QED BY <1>12, <2>2 DEF Passes
<1>14. LastRoom(plan, buffer')
  BY <1>6, <1>10, <1>12, RoomKeeps
<1>15. /\ empty' = empty \/ empty' = empty \cup {i}
       /\ i \in empty' => buffer'[i] = Empty
  BY <1>1, <1>10, <1>12 DEF After
<1>16. i \in empty' => Held(plan, buffer', source')[0] = <<>>
  <2> HAVE i \in empty'
  <2>1. buffer[i].gap = 0 /\ Len(buffer[i].data) = 0 /\ n = 0
    BY <1>4, <1>5, <1>6, <1>15, PutEmpty
  <2>2. room(buffer[i], size(i)) > 0
    <3>1. size(i) \in Nat /\ size(i) > 0
      BY <1>1, <1>2, Here, StageIs DEF HasBuffer
    <3> QED BY <2>1, <3>1 DEF room
  <2>3. Len(source) = 0
    BY <2>1, <2>2
  <2>4. source' \in Seq(Byte) /\ Len(source') = 0
    <3>1. source' \in Seq(Byte)
      BY <1>8 DEF Filled
    <3>2. Len(source) = Len(x) + Len(source')
      BY <1>5, <3>1, ConcatProperties
    <3> QED BY <1>5, <2>1, <2>3, <3>1, <3>2
  <2>5. source' = <<>>
    BY <2>4, EmptySeq
  <2>6. Held(plan, buffer', source')[0] = source'
    <3>1. 0 \in 0..Final(plan)
      BY <1>1, PlanIs DEF Final
    <3> QED BY <3>1 DEF Held
  <2> QED BY <2>5, <2>6
<1>17. i \in empty' => buffer'[i].data = <<>>
  BY <1>15, EmptyIs
<1>18. Flowing(plan, buffer', source', sink', transferred', chunk', empty')
  BY <1>2, <1>3, <1>9, <1>10, <1>11, <1>12, <1>13, <1>15, <1>16, <1>17, StageFlows DEF b
<1> QED BY <1>14, <1>18

LEMMA SmoothIn ==
  ASSUME Inv, Smooth, NEW i \in Stages, InStage(i)
  PROVE  Smooth'
<1> DEFINE r == room(buffer[i], size(i))
           most == Min({r, Len(source)})
           fails(n) == n = 0 /\ kind(i) = "ssl_in" /\ room(buffer[i], size(i)) > 0
<1>1. at = i /\ kind(i) \in Reading /\ UNCHANGED <<plan, sink, transferred, chunk>>
  BY DEF InStage, Turn
<1>2. PICK n \in (IF kind(i) = "file_in" THEN {most} ELSE 0..most) :
        /\ n = 0 => most = 0
        /\ buffer' = [buffer EXCEPT ![i] = Put(@, SubSeq(source, 1, n))]
        /\ source' = SubSeq(source, n + 1, Len(source))
        /\ After(i, fails(n), FALSE)
  BY DEF InStage
<1>3. source \in Seq(Byte) /\ Len(source) \in Nat /\ r \in Nat
  <2>1. source \in Seq(Byte)
    BY DEF Inv, BuffersOK, Filled
  <2> QED BY <2>1, Here
<1>4. /\ most \in Nat /\ most <= r /\ most <= Len(source)
      /\ most = r \/ most = Len(source)
  <2> HIDE DEF r
  <2> DEFINE T == {r, Len(source)}
  <2>1. T \subseteq Nat /\ T # {}
    BY <1>3
  <2>2. Min(T) \in T /\ \A y \in T : Min(T) <= y
    <3> HIDE DEF T
    <3> QED BY <2>1, MinIs
  <2>3. r \in T /\ Len(source) \in T /\ most = Min(T)
    OBVIOUS
  <2> DEFINE q == Min(T)
  <2>4. q \in T /\ q <= r /\ q <= Len(source)
    BY <2>2, <2>3
  <2>5. q = r \/ q = Len(source)
    BY <2>4
  <2> HIDE DEF q
  <2>6. most = q
    BY DEF q
  <2> HIDE DEF T, most
  <2> QED BY <1>3, <2>4, <2>5, <2>6
<1> HIDE DEF most
<1>5. n \in 0..Len(source) /\ n <= r /\ (n = 0 => r = 0 \/ Len(source) = 0)
  <2>1. n = most \/ n \in 0..most
    BY <1>2
  <2> QED BY <1>2, <1>3, <1>4, <2>1
<1>6. Inv'
  BY KeepsIn
<1>7. Fits(plan) => kind(i) \in Fallible /\ ~\E e \in 1..Final(plan) : Is(plan, e, "encode")
  BY <1>1, NoEncoder DEF Fallible
<1>8. ASSUME Fits(plan), error = {}, ~fails(n)
      PROVE  /\ LastRoom(plan, buffer')
             /\ Flowing(plan, buffer', source', sink', transferred', chunk', empty')
  <2>1. After(i, FALSE, FALSE)
    BY <1>2, <1>8 DEF After
  <2> HIDE DEF fails
  <2> QED BY <1>1, <1>2, <1>5, <1>6, <1>8, <2>1, InFlows DEF r
<1>9. fails(n) \in BOOLEAN /\ plan' = plan
  BY <1>1
<1> HIDE DEF fails
<1> QED BY <1>1, <1>2, <1>7, <1>8, <1>9, SmoothAfter

\* A decoder in front of a last stage that keeps its data has no more for it
\* than there is room for.
LEMMA RoomForAll ==
  ASSUME Inv, Fits(plan), LastRoom(plan, buffer), NEW i \in Stages, i = End, kind(i) = "null",
         Near(plan, i) > 0, plan.stages[Near(plan, i)].kind \in Decoding, Has(plan, i),
         NEW g, Flow(plan, g, Held(plan, buffer, source), sink, transferred, chunk)
  PROVE  Len(buffer[Near(plan, i)].data) <= room(buffer[i], size(i))
<1> DEFINE b == Held(plan, buffer, source)
           m == Near(plan, i)
           D == plan.data
<1>1. /\ plan \in Plans /\ Final(plan) = End /\ Stages = 1..Final(plan) /\ i \in 1..Final(plan)
      /\ kind(i) = plan.stages[i].kind /\ size(i) = plan.stages[i].size
      /\ Filled(plan, buffer, source, sink)
      /\ \A k : kind(i) = k <=> Is(plan, i, k)
  BY Places
<1>2. DecoderFits(plan, m) /\ m \in 1..Final(plan) /\ i = m + 1 /\ Has(plan, m)
  BY <1>1, BehindDecoder, NearIs
<1>3. Is(plan, i, "null")
  BY <1>1
<1>4. Is(plan, m, "decode")
  <2> SUFFICES ASSUME ~Is(plan, m, "decode") PROVE FALSE
    OBVIOUS
  <2>1. Is(plan, m, "copy")
    BY Decoders DEF Is
  <2>2. PICK d \in 1..Final(plan) : Is(plan, d, "decode")
    BY <1>1, <1>2, <1>3, <2>1 DEF Fits
  <2>3. \A j \in 1..(m - 1) : ~Is(plan, j, "decode")
    BY <1>2 DEF DecoderFits
  <2>4. d = i
    BY <1>1, <1>2, <2>2, <2>3
  <2> QED BY <1>3, <2>2, <2>4 DEF Is
<1>5. PICK e \in 1..(m - 1) : Is(plan, e, "encode")
  BY <1>2 DEF DecoderFits
<1>6. plan.stages[i].size >= Len(D)
  <2>1. e \in 1..Final(plan)
    BY <1>2, PlanIs DEF Final
  <2>2. EncoderFits(plan, e)
    BY <1>1, <1>5, <2>1, EncoderAlone
  <2> QED BY <1>1, <1>3, <2>2 DEF EncoderFits
<1>7. b \in [0..Final(plan) -> Seq(Byte)] /\ b[m] = buffer[m].data /\ b[i] = buffer[i].data
  <2> DEFINE k == m
  <2>1. b \in [0..Final(plan) -> Seq(Byte)] /\ \A j \in 1..Final(plan) : b[j] = buffer[j].data
    BY <1>1, HeldIs
  <2>2. k \in 1..Final(plan)
    BY <1>2
  <2> HIDE DEF k, b
  <2>3. b[k] = buffer[k].data /\ b[i] = buffer[i].data
    BY <1>1, <2>1, <2>2
  <2> QED BY <2>1, <2>3 DEF k
<1> HIDE DEF b
<1>8. /\ Good(plan, m, Out(g, b, m)) /\ g \in [0..Final(plan) -> Seq(Byte)]
      /\ Passes(plan, i, g[m], Out(g, b, i), chunk[i], transferred[i])
  BY <1>1, <1>2 DEF Flow, b
<1>9. Begins(Out(g, b, m), D)
  <2>1. ~Coded(plan, m)
    BY <1>1, <1>2, <1>4, CodedNear
  <2> QED BY <1>8, <2>1 DEF Good
<1>10. g[m] \in Seq(Byte) /\ g[i] \in Seq(Byte) /\ b[m] \in Seq(Byte) /\ b[i] \in Seq(Byte)
  <2>1. m \in 0..Final(plan) /\ i \in 0..Final(plan)
    BY <1>1, <1>2
  <2> QED BY <1>7, <1>8, <2>1
<1>11. /\ Len(Out(g, b, m)) = Len(g[m]) + Len(b[m]) /\ Out(g, b, m) \in Seq(Byte)
       /\ Len(Out(g, b, i)) = Len(g[i]) + Len(b[i])
       /\ Len(g[m]) \in Nat /\ Len(g[i]) \in Nat /\ Len(b[m]) \in Nat /\ Len(b[i]) \in Nat
  <2>1. Len(Out(g, b, m)) = Len(g[m]) + Len(b[m]) /\ Out(g, b, m) \in Seq(Byte)
    BY <1>10, ConcatProperties DEF Out
  <2>2. Len(Out(g, b, i)) = Len(g[i]) + Len(b[i])
    BY <1>10, ConcatProperties DEF Out
  <2> QED BY <1>10, <2>1, <2>2
<1>12. Out(g, b, i) = g[m]
  BY <1>3, <1>8 DEF Passes, Is
<1>13. Len(Out(g, b, m)) <= Len(D) /\ Len(D) \in Nat
  BY <1>9, <1>11, BeginsIs DEF Fits
<1>14. buffer[i].gap = 0
  BY <1>1, <1>3 DEF LastRoom
<1>15. plan.stages[i].size \in Nat
  BY <1>1, StageIs DEF Final
<1>16. Len(b[i]) + Len(b[m]) <= plan.stages[i].size
  <2> DEFINE gi == Len(g[i])
             gm == Len(g[m])
             bi == Len(b[i])
             bm == Len(b[m])
             dd == Len(D)
             sz == plan.stages[i].size
  <2>1. gm = gi + bi /\ gm + bm <= dd /\ dd <= sz
    BY <1>6, <1>11, <1>12, <1>13
  <2>2. gm \in Nat /\ gi \in Nat /\ bi \in Nat /\ bm \in Nat /\ dd \in Nat /\ sz \in Nat
    BY <1>11, <1>13, <1>15
  <2> HIDE DEF gi, gm, bi, bm, dd, sz
  <2>3. bi + bm <= sz
    BY <2>1, <2>2
  <2> QED BY <2>3 DEF bi, bm, sz
<1>17. Len(b[m]) <= room(buffer[i], size(i))
  <2> DEFINE bi == Len(b[i])
             bm == Len(b[m])
             sz == plan.stages[i].size
  <2>1. room(buffer[i], size(i)) = sz - 0 - bi
    BY <1>1, <1>7, <1>14 DEF room
  <2>2. bi \in Nat /\ bm \in Nat /\ sz \in Nat /\ bi + bm <= sz
    BY <1>11, <1>15, <1>16
  <2> HIDE DEF bi, bm, sz
  <2>3. bm <= sz - 0 - bi
    BY <2>2
  <2> QED BY <2>1, <2>3 DEF bm
<1> QED BY <1>7, <1>17

LEMMA NullFlows ==
  ASSUME Inv, Inv', Smooth, Fits(plan), error = {}, NEW i \in Stages, at = i,
         kind(i) = "null", buffer' = Copied(i), After(i, FALSE, FALSE),
         UNCHANGED <<plan, source, sink, transferred, chunk>>
  PROVE  /\ LastRoom(plan, buffer')
         /\ Flowing(plan, buffer', source', sink', transferred', chunk', empty')
<1> DEFINE b == Held(plan, buffer, source)
           m == Near(plan, i)
<1>1. /\ plan \in Plans /\ Final(plan) = End /\ Stages = 1..Final(plan) /\ i \in 1..Final(plan)
      /\ NearestIn(i) = m /\ kind(i) = plan.stages[i].kind
      /\ (HasBuffer(i) <=> Has(plan, i)) /\ Filled(plan, buffer, source, sink)
      /\ \A k : kind(i) = k <=> Is(plan, i, k)
  BY Places
<1>2. LastRoom(plan, buffer) /\ \A j \in empty : j < i
  BY Flows
<1>3. PICK g : Flow(plan, g, b, sink, transferred, chunk) /\ Done(plan, g, b, empty)
  BY Flows
<1>4. /\ Is(plan, i, "null") /\ ~Is(plan, i, "encode") /\ ~Is(plan, i, "decode")
      /\ ~Is(plan, i, "limited") /\ plan.stages[i].kind \notin Decoding
  BY <1>1 DEF Is, Decoding
<1>5. /\ empty' = empty \/ empty' = empty \cup {i}
      /\ i \in empty' => /\ m \in {0} \cup empty
                         /\ (HasBuffer(i) /\ buffer'[i] = Empty) \/ i = End
  BY <1>1, <1>2 DEF After, InEmpty
<1>6. \A o : Is(plan, i, "null") =>
        (Passes(plan, i, o, Out(g, b, i), chunk[i], transferred[i]) <=> Out(g, b, i) = o)
  BY <1>4 DEF Passes
<1>7. CASE ~Has(plan, i)
  <2>1. buffer' = buffer
    BY <1>1, <1>7 DEF Copied
  <2>2. i # End
    BY <1>1, <1>7 DEF Fits
  <2>3. empty' = empty
    BY <1>1, <1>5, <1>7, <2>2
  <2>4. LastRoom(plan, buffer')
    BY <1>2, <2>1
  <2>5. Flowing(plan, buffer', source', sink', transferred', chunk', empty')
    BY <1>3, <2>1, <2>3 DEF Flowing
  <2> QED BY <2>4, <2>5
<1>8. CASE Has(plan, i) /\ m = 0
  <2>1. buffer' = buffer
    BY <1>1, <1>8 DEF Copied
  <2>2. i = 1
    BY <1>1, <1>8, NearIs
  <2>3. Passes(plan, i, g[m], Out(g, b, i), chunk[i], transferred[i])
    BY <1>1, <1>3, <1>8 DEF Flow
  <2>4. b[m] = <<>>
    <3>1. plan.stages[1].kind \notin Reading
      BY <1>4, <2>2 DEF Is, Reading
    <3> QED BY <1>3, <1>8, <3>1 DEF Flow
  <2>5. i \in empty' /\ Drained(plan, i) => buffer[i].data = <<>>
    BY <1>1, <1>4, <1>5, <2>1, EmptyIs DEF Drained
  <2>6. Flowing(plan, buffer', source', sink', transferred', chunk', empty')
    BY <1>2, <1>3, <1>4, <1>5, <1>8, <2>1, <2>3, <2>4, <2>5, StillFlows
  <2> QED BY <1>2, <2>1, <2>6
<1>9. CASE Has(plan, i) /\ m # 0
  <2> DEFINE len == Len(buffer[m].data)
             n == Moved(buffer[m], i, len)
             x == SubSeq(buffer[m].data, 1, n)
  <2>1. m \in 1..Final(plan) /\ Has(plan, m) /\ m \in 0..(i - 1) /\ m > 0 /\ i > 1 /\ m \in Stages
    BY <1>1, <1>9, NearIs
  <2>2. buffer' = Move(m, i, n)
    BY <1>1, <1>9, <2>1 DEF Copied
  <2>3. len \in Nat /\ n \in 0..len /\ n <= room(buffer[i], size(i)) /\ n <= len
        /\ buffer[m] \in Buffer /\ buffer[i] \in Buffer
    BY <2>1, MovedIs, Here
  <2> HIDE DEF n, m
  <2>4. /\ x \in Seq(Byte) /\ Len(x) = n
        /\ buffer'[i] = Put(buffer[i], x) /\ buffer'[i].data = buffer[i].data \o x
        /\ buffer'[m] = Drop(buffer[m], n)
        /\ \A j \in Stages : j \notin {m, i} => buffer'[j] = buffer[j]
        /\ Shifts(plan, i, Held(plan, buffer, source), Held(plan, buffer', source), x, x)
    <3>1. NearestIn(i) = m /\ source' = source
      BY <1>1
    <3>2. /\ n \in 0..Len(buffer[NearestIn(i)].data) /\ HasBuffer(i)
          /\ x = SubSeq(buffer[NearestIn(i)].data, 1, n)
          /\ buffer' = Move(NearestIn(i), i, n)
      BY <1>1, <1>9, <2>2, <2>3, <3>1
    <3> HIDE DEF x
    <3>3. Moving(i, n, x, buffer')
      BY <2>1, <2>3, <3>2, MoveOn
    <3> QED BY <3>1, <3>3 DEF Moving
  <2>5. LastRoom(plan, buffer')
    <3>1. CASE i = End
      <4>1. buffer'[i].gap = 0
        BY <1>1, <1>2, <1>4, <2>3, <2>4, <3>1, PutGap DEF LastRoom
      <4> QED BY <1>1, <1>4, <3>1, <4>1 DEF LastRoom, Is
    <3>2. CASE i # End
      BY <1>1, <1>2, <2>4, <3>2, RoomKeeps
    <3> QED BY <3>1, <3>2
  <2>6. Passes(plan, i, g[m] \o x, Out(g, b, i) \o x, chunk'[i], transferred'[i])
    <3>1. Passes(plan, i, g[m], Out(g, b, i), chunk[i], transferred[i])
      BY <1>1, <1>3, <1>9 DEF Flow, m
    <3>2. Out(g, b, i) = g[m]
      BY <1>4, <3>1 DEF Passes
    <3> QED BY <1>4, <3>2 DEF Passes
  <2>7. i \in empty' => n = len
    <3> HAVE i \in empty'
    <3>0. m \in empty
      BY <1>5, <2>1
    <3>1. CASE plan.stages[m].kind \notin Decoding
      <4>1. b[m] = <<>>
        BY <1>1, <1>3, <3>0, <3>1, NothingBefore DEF m
      <4>2. b[m] = buffer[m].data
        BY <1>1, <2>1, HeldIs
      <4> QED BY <2>3, <4>1, <4>2
    <3>2. CASE plan.stages[m].kind \in Decoding /\ i = End
      <4>1. len <= room(buffer[i], size(i))
        BY <1>1, <1>2, <1>3, <1>9, <2>1, <3>2, RoomForAll DEF m
      <4>2. n = len \/ n = room(buffer[i], size(i))
        BY <2>1, <2>3, MovedLeast DEF n
      <4>3. room(buffer[i], size(i)) \in Nat
        BY Here
      <4> QED BY <2>3, <4>1, <4>2, <4>3
    <3>3. CASE i # End
      <4>1. Put(buffer[i], SubSeq(buffer[m].data, 1, n)) = Empty
        BY <1>5, <2>4, <3>3
      <4>2. HasBuffer(i)
        BY <1>1, <1>9
      <4> QED BY <2>1, <2>3, <4>1, <4>2, MovesAll DEF n
    <3> QED BY <3>1, <3>2, <3>3
  <2>8. i \in empty' => Held(plan, buffer', source')[m] = <<>>
    <3> HAVE i \in empty'
    <3>1. buffer'[m].data = <<>>
      BY <2>3, <2>4, <2>7, DropAll, EmptyIs
    <3>2. m \in 0..Final(plan) /\ m # 0
      BY <2>1, <1>1
    <3> QED BY <3>1, <3>2 DEF Held
  <2>9. i \in empty' /\ Drained(plan, i) => buffer'[i].data = <<>>
    BY <1>1, <1>4, <1>5, EmptyIs DEF Drained
  <2>10. Shifts(plan, i, b, Held(plan, buffer', source'), x, x)
    BY <2>4
  <2> HIDE DEF x
  <2>11. Flowing(plan, buffer', source', sink', transferred', chunk', empty')
    BY <1>2, <1>3, <1>4, <1>5, <1>9, <2>6, <2>8, <2>9, <2>10, StageFlows DEF m
  <2> QED BY <2>5, <2>11
<1> QED BY <1>7, <1>8, <1>9

LEMMA SmoothNull ==
  ASSUME Inv, Smooth, NEW i \in Stages, NullStage(i)
  PROVE  Smooth'
<1>1. /\ at = i /\ kind(i) = "null" /\ buffer' = Copied(i) /\ After(i, failing, FALSE)
      /\ UNCHANGED <<plan, source, sink, transferred, chunk>>
  BY DEF NullStage, Turn
<1>2. Inv'
  BY KeepsNull
<1>3. ASSUME Fits(plan), error = {}, ~failing
      PROVE  /\ LastRoom(plan, buffer')
             /\ Flowing(plan, buffer', source', sink', transferred', chunk', empty')
  <2>1. After(i, FALSE, FALSE)
    BY <1>1, <1>3 DEF After
  <2> QED BY <1>1, <1>2, <1>3, <2>1, NullFlows
<1>4. Fits(plan) /\ failing =>
        /\ kind(i) \in Fallible
        /\ (\E e \in 1..Final(plan) : Is(plan, e, "encode")) => i = End
  <2> HAVE Fits(plan) /\ failing
  <2>1. kind(i) \in Fallible
    BY <1>1 DEF Fallible
  <2>2. i # 0
    BY Places
  <2> QED BY <1>1, <2>1, <2>2 DEF Smooth, Errs
<1> QED BY <1>1, <1>3, <1>4, SmoothAfter

\* What a last stage that writes has taken: all, when all before it are empty.
LEMMA TakesAll ==
  ASSUME Inv, Fits(plan), LastRoom(plan, buffer), NEW i \in Stages, i = End, kind(i) \in Writing,
         NEW g, Flow(plan, g, Held(plan, buffer, source), sink, transferred, chunk),
         Done(plan, g, Held(plan, buffer, source), empty),
         NEW m, m = NearestIn(i), m \in empty, m \in Stages,
         NEW n, n = Moved(buffer[m], i, Len(buffer[m].data))
  PROVE  n = Len(buffer[m].data)
<1>1. /\ plan \in Plans /\ Final(plan) = End /\ Stages = 1..Final(plan) /\ i \in 1..Final(plan)
      /\ m = Near(plan, i) /\ m \in 1..Final(plan) /\ Filled(plan, buffer, source, sink)
      /\ kind(i) = plan.stages[i].kind /\ size(i) = plan.stages[i].size
  BY Places
<1>2. /\ Len(buffer[m].data) \in Nat /\ n \in 0..Len(buffer[m].data)
      /\ n = Len(buffer[m].data) \/ n = room(buffer[i], size(i))
      /\ room(buffer[i], size(i)) \in Nat
  BY Here, MovedIs, MovedLeast
<1>3. CASE plan.stages[m].kind \notin Decoding
  <2>1. Held(plan, buffer, source)[m] = <<>>
    BY <1>1, <1>3, NothingBefore
  <2>2. Held(plan, buffer, source)[m] = buffer[m].data
    BY <1>1, HeldIs
  <2> QED BY <1>2, <2>1, <2>2
<1>4. CASE plan.stages[m].kind \in Decoding
  <2>1. /\ plan.stages[i].size >= plan.stages[m].size /\ plan.stages[i].kind # "socket_out"
    BY <1>1, <1>4, BehindDecoder
  <2>2. buffer[i] = Empty
    BY <1>1, <2>1 DEF LastRoom, Is, Writing
  <2>3. buffer[i].gap = 0 /\ Len(buffer[i].data) = 0
    BY <2>2, EmptyIs
  <2>4. /\ plan.stages[i].size \in Nat /\ plan.stages[m].size \in Nat
        /\ buffer[m].gap \in Nat
        /\ buffer[m].gap + Len(buffer[m].data) <= plan.stages[m].size
    <3>1. i \in 1..Len(plan.stages) /\ m \in 1..Len(plan.stages)
      BY <1>1 DEF Final
    <3>2. BufferOK(buffer[m], plan.stages[m].size)
      BY <3>1 DEF Inv, BuffersOK
    <3>3. buffer[m] \in Buffer
      BY Here
    <3> QED BY <1>1, <3>1, <3>2, <3>3, StageIs DEF BufferOK, Buffer
  <2>5. room(buffer[i], size(i)) = plan.stages[i].size
    BY <1>1, <2>3, <2>4 DEF room
  <2> DEFINE l == Len(buffer[m].data)
             z == plan.stages[i].size
             y == plan.stages[m].size
             q == buffer[m].gap
  <2>6. l \in Nat /\ z \in Nat /\ y \in Nat /\ q \in Nat /\ q + l <= y /\ y <= z
        /\ n \in 0..l /\ (n = l \/ n = z)
    BY <1>2, <2>1, <2>4, <2>5
  <2> HIDE DEF l, z, y, q
  <2>7. n = l
    BY <2>6
  <2> QED BY <2>7 DEF l
<1> QED BY <1>3, <1>4

LEMMA OutFlows ==
  ASSUME Inv, Inv', Smooth, Fits(plan), error = {}, NEW i \in Stages, at = i,
         kind(i) \in Writing, UNCHANGED <<plan, source, transferred, chunk>>,
         NEW n \in 0..Len(Copied(i)[i].data),
         kind(i) = "file_out" => n = Len(Copied(i)[i].data),
         buffer' = [Copied(i) EXCEPT ![i] = Drop(@, n)],
         sink' = sink \o SubSeq(Copied(i)[i].data, 1, n),
         After(i, FALSE, FALSE)
  PROVE  /\ LastRoom(plan, buffer')
         /\ Flowing(plan, buffer', source', sink', transferred', chunk', empty')
<1> DEFINE b == Held(plan, buffer, source)
           C == Copied(i)
           b2 == Held(plan, C, source)
           b3 == Held(plan, buffer', source')
           m == NearestIn(i)
           len == Len(buffer[m].data)
           k == Moved(buffer[m], i, len)
           x == SubSeq(buffer[m].data, 1, k)
           y == SubSeq(C[i].data, 1, n)
<1>1. /\ plan \in Plans /\ Final(plan) = End /\ Stages = 1..Final(plan) /\ i \in 1..Final(plan)
      /\ m = Near(plan, i) /\ kind(i) = plan.stages[i].kind
      /\ (HasBuffer(i) <=> Has(plan, i)) /\ Filled(plan, buffer, source, sink)
      /\ \A t : kind(i) = t <=> Is(plan, i, t)
      /\ chunk[i] \in Chunk
  BY Places
<1>2. i = End /\ i > 1
  BY <1>1, StageIs DEF Final, Writing, Reading
<1>3. Has(plan, i) /\ HasBuffer(i)
  BY <1>1, <1>2 DEF Fits
<1>4. m \in Stages /\ m # i /\ m > 0
  BY <1>2, Before
<1>5. len \in Nat /\ k \in 0..len /\ k <= room(buffer[i], size(i)) /\ buffer[m] \in Buffer
  BY <1>4, MovedIs, Here
<1>6. C = Move(m, i, k)
  BY <1>3, <1>4 DEF Copied
<1> HIDE DEF k, m
<1>7. Moving(i, k, x, C)
  <2>1. /\ k \in 0..Len(buffer[NearestIn(i)].data)
        /\ x = SubSeq(buffer[NearestIn(i)].data, 1, k)
        /\ C = Move(NearestIn(i), i, k)
    BY <1>5, <1>6 DEF m
  <2> HIDE DEF x, C
  <2> QED BY <1>2, <1>3, <1>5, <2>1, MoveOn
<1> HIDE DEF x, C
<1>8. /\ x \in Seq(Byte) /\ Filled(plan, C, source, sink)
      /\ C[m] = Drop(buffer[m], k)
      /\ \A j \in Stages : j \notin {m, i} => C[j] = buffer[j]
      /\ Shifts(plan, i, b, b2, x, x)
  BY <1>7 DEF Moving, m
<1>9. C \in [Stages -> Buffer] /\ C[i] \in Buffer /\ C[i].data \in Seq(Byte)
  <2>1. C \in [Stages -> Buffer]
    BY <1>1, <1>8 DEF Filled, Final
  <2> QED BY <2>1 DEF Buffer
<1>10. y \in Seq(Byte) /\ C[i].data = y \o SubSeq(C[i].data, n + 1, Len(C[i].data))
  BY <1>9, Cut DEF C
<1>11. /\ buffer'[i] = Drop(C[i], n) /\ buffer'[i].data = SubSeq(C[i].data, n + 1, Len(C[i].data))
       /\ \A j \in Stages : j # i => buffer'[j] = C[j]
  <2>1. buffer' = [C EXCEPT ![i] = Drop(C[i], n)] /\ n \in 0..Len(C[i].data)
    BY DEF C
  <2>2. Drop(C[i], n).data = SubSeq(C[i].data, n + 1, Len(C[i].data))
    BY <1>9, <2>1, DropIs
  <2> QED BY <1>9, <2>1, <2>2
<1>12. C[i].data = y \o buffer'[i].data /\ sink' = sink \o y
  BY <1>10, <1>11 DEF C
<1> HIDE DEF y
<1>13. LastRoom(plan, buffer) /\ \A j \in empty : j < i
  BY Flows
<1>14. PICK g : Flow(plan, g, b, sink, transferred, chunk) /\ Done(plan, g, b, empty)
  BY Flows
<1>15. /\ ~Is(plan, i, "encode") /\ ~Is(plan, i, "decode") /\ ~Is(plan, i, "limited")
       /\ plan.stages[i].kind \notin Decoding /\ ~Is(plan, i, "null")
  BY <1>1 DEF Writing, Decoding
<1>16. Passes(plan, i, g[Near(plan, i)] \o x, Out(g, b, i) \o x, chunk[i], transferred[i])
  <2>1. Passes(plan, i, g[Near(plan, i)], Out(g, b, i), chunk[i], transferred[i])
    BY <1>1, <1>3, <1>14 DEF Flow
  <2>2. Out(g, b, i) = g[Near(plan, i)]
    BY <1>15, <2>1 DEF Passes
  <2> QED BY <1>15, <2>2 DEF Passes
<1>17. PICK h : /\ Flow(plan, h, b2, sink, transferred, chunk)
                /\ SameBut(plan, i, g, b, h, b2) /\ Out(h, b2, i) = Out(g, b, i) \o x
  <2> HIDE DEF b, b2, b3, len
  <2>1. /\ chunk[i] \in Chunk /\ (Is(plan, i, "limited") => transferred[i] <= plan.stages[i].n)
        /\ \A j \in 1..Final(plan) : j # i =>
             chunk[j] = chunk[j] /\ transferred[j] = transferred[j]
    BY <1>1, <1>15
  <2>2. Shifts(plan, i, b, b2, x, x)
    BY <1>8
  <2>3. Flow(plan, g, b, sink, transferred, chunk) /\ Has(plan, i) /\ plan \in Plans
        /\ i \in 1..Final(plan) /\ Fits(plan)
    BY <1>1, <1>3, <1>14
  <2> QED BY ONLY <1>16, <2>1, <2>2, <2>3, Transfer, SMTT(20)
<1>18. Done(plan, h, b2, empty)
  <2>1. empty \in SUBSET (1..Final(plan))
    BY DEF Inv, StatusOK, Final
  <2>2. b \in [0..Final(plan) -> Seq(Byte)]
    BY <1>1, HeldIs
  <2> HIDE DEF b, b2
  <2> QED BY <1>1, <1>8, <1>13, <1>14, <1>17, <2>1, <2>2, DoneKeeps
<1>19. Filled(plan, buffer', source', sink')
  BY DEF Inv, BuffersOK
<1>20. /\ b3 \in [0..Final(plan) -> Seq(Byte)] /\ b3[i] = buffer'[i].data
       /\ b2[i] = y \o b3[i] /\ \A j \in 0..Final(plan) : j # i => b3[j] = b2[j]
  <2>1. /\ b3 \in [0..Final(plan) -> Seq(Byte)] /\ b3[0] = source'
        /\ \A j \in 1..Final(plan) : b3[j] = buffer'[j].data
        /\ Final(plan) \in Nat \ {0}
    <3> DEFINE bf == buffer'
               sr == source'
    <3>1. Filled(plan, bf, sr, sink')
      BY <1>19
    <3>2. b3 = Held(plan, bf, sr)
      BY <1>1
    <3> HIDE DEF b3, bf, sr
    <3>3. /\ Held(plan, bf, sr) \in [0..Final(plan) -> Seq(Byte)]
          /\ Held(plan, bf, sr)[0] = sr
          /\ \A j \in 1..Final(plan) : Held(plan, bf, sr)[j] = bf[j].data
          /\ Final(plan) \in Nat \ {0}
      BY <1>1, <3>1, HeldIs
    <3> QED BY <3>2, <3>3 DEF bf, sr
  <2>2. b2[0] = source /\ \A j \in 1..Final(plan) : b2[j] = C[j].data
    BY <1>1, <1>8, HeldIs
  <2> HIDE DEF b2, b3
  <2>3. b2[i] = y \o b3[i] /\ b3[i] = buffer'[i].data
    BY <1>1, <1>12, <2>1, <2>2
  <2>4. ASSUME NEW j \in 0..Final(plan), j # i PROVE b3[j] = b2[j]
    <3>1. CASE j = 0
      BY <2>1, <2>2, <3>1
    <3>2. CASE j # 0
      <4>1. j \in 1..Final(plan) /\ j \in Stages
        BY <1>1, <2>1, <3>2
      <4> QED BY <1>11, <2>1, <2>2, <2>4, <4>1
    <3> QED BY <3>1, <3>2
  <2> QED BY <2>1, <2>3, <2>4
<1>21. PICK f : Flow(plan, f, b3, sink \o y, transferred, chunk) /\ Same(plan, h, b2, f, b3)
  <2>1. b2[Final(plan)] = y \o b3[Final(plan)]
        /\ \A j \in 0..Final(plan) : j # Final(plan) => b3[j] = b2[j]
    BY <1>1, <1>2, <1>20
  <2>2. y \in Seq(Byte)
    BY <1>10
  <2> HIDE DEF b2, b3
  <2>3. plan \in Plans /\ Flow(plan, h, b2, sink, transferred, chunk)
        /\ b3 \in [0..Final(plan) -> Seq(Byte)]
    BY <1>1, <1>17, <1>20
  <2> QED BY ONLY <2>1, <2>2, <2>3, Deliver
<1>22. Done(plan, f, b3, empty)
  <2> HIDE DEF b2, b3
  <2> SUFFICES ASSUME NEW j \in empty
               PROVE  Complete(plan, j, Out(f, b3, j)) /\ (Drained(plan, j) => b3[j] = <<>>)
    BY DEF Done
  <2>1. j \in 0..Final(plan) /\ j # i
    <3>1. j \in 1..Final(plan) /\ Final(plan) \in Nat
      BY <1>1, PlanIs DEF Inv, StatusOK, Final
    <3> QED BY <1>13, <3>1
  <2>2. Out(f, b3, j) = Out(h, b2, j) /\ b3[j] = b2[j]
    BY <1>20, <1>21, <2>1 DEF Same
  <2> QED BY <1>18, <2>2 DEF Done
<1>23. /\ empty' = empty \/ empty' = empty \cup {i}
       /\ i \in empty' => m \in empty /\ buffer'[i] = Empty
  <2>1. i \notin empty /\ m # 0
    <3>1. i \in Nat /\ m # 0
      BY <1>1, <1>4 DEF m
    <3>2. ~(i < i)
      BY <3>1
    <3> QED BY <1>13, <3>1, <3>2
  <2>2. kind(i) # "null"
    BY <1>1, <1>15
  <2> QED BY <2>1, <2>2 DEF After, InEmpty, m
<1>24. ASSUME i \in empty'
       PROVE  Complete(plan, i, Out(f, b3, i)) /\ b3[i] = <<>>
  <2>1. k = len
    <3>1. k = Moved(buffer[m], i, Len(buffer[m].data))
      BY DEF k
    <3> QED BY <1>2, <1>4, <1>13, <1>14, <1>23, <1>24, <3>1, TakesAll DEF m
  <2>2. C[m].data = <<>>
    BY <1>5, <1>8, <2>1, DropAll, EmptyIs
  <2>3. b2[m] = <<>>
    <3>1. b2[m] = C[m].data
      BY <1>1, <1>4, <1>8, HeldIs
    <3> QED BY <2>2, <3>1
  <2>4. Complete(plan, i, Out(h, b2, i))
    <3> HIDE DEF b2
    <3>1. Near(plan, i) \in {0} \cup empty /\ b2[Near(plan, i)] = <<>>
      BY <1>1, <1>23, <1>24, <2>3
    <3> QED BY <1>1, <1>3, <1>15, <1>17, <1>18, <3>1, FlowComplete
  <2>5. Out(f, b3, i) = Out(h, b2, i)
    <3>1. i \in 0..Final(plan)
      BY <1>1
    <3> QED BY <1>21, <3>1 DEF Same
  <2>6. b3[i] = <<>>
    BY <1>20, <1>23, <1>24, EmptyIs
  <2> QED BY <2>4, <2>5, <2>6
<1>25. Done(plan, f, b3, empty')
  <2> HIDE DEF b3
  <2>1. CASE i \in empty'
    <3>1. empty' = empty \cup {i}
      BY <1>13, <1>23, <2>1
    <3>2. Done(plan, f, b3, empty \cup {i})
      BY <1>22, <1>24, <2>1, DoneMore
    <3> QED BY <3>1, <3>2
  <2>2. CASE i \notin empty'
    BY <1>22, <1>23, <2>2
  <2> QED BY <2>1, <2>2
<1>26. Flow(plan, f, b3, sink', transferred', chunk')
  <2>1. sink' = sink \o y /\ transferred' = transferred /\ chunk' = chunk
    BY <1>12
  <2> HIDE DEF b3
  <2> QED BY <1>21, <2>1
<1>27. Flowing(plan, buffer', source', sink', transferred', chunk', empty')
  BY <1>25, <1>26 DEF Flowing
<1>28. LastRoom(plan, buffer')
  <2>1. Is(plan, Final(plan), "file_out") => buffer'[i] = Empty
    <3> HAVE Is(plan, Final(plan), "file_out")
    <3>1. kind(i) = "file_out"
      BY <1>1, <1>2
    <3>2. n = Len(C[i].data)
      BY <3>1 DEF C
    <3> QED BY <1>9, <1>11, <3>2, DropAll
  <2> QED BY <1>1, <1>2, <1>15, <2>1 DEF LastRoom
<1> QED BY <1>27, <1>28

LEMMA SmoothOut ==
  ASSUME Inv, Smooth, NEW i \in Stages, OutStage(i)
  PROVE  Smooth'
<1>1. at = i /\ kind(i) \in Writing /\ UNCHANGED <<plan, source, transferred, chunk>>
  BY DEF OutStage, Turn
<1>2. After(i, FALSE, FALSE)
  BY DEF OutStage
<1>3. Inv'
  BY KeepsOut
<1>4. ASSUME Fits(plan), error = {}
      PROVE  /\ LastRoom(plan, buffer')
             /\ Flowing(plan, buffer', source', sink', transferred', chunk', empty')
  <2>1. HasBuffer(i)
    <3>1. /\ plan \in Plans /\ Final(plan) = End /\ i \in 1..Final(plan)
          /\ kind(i) = plan.stages[i].kind /\ (HasBuffer(i) <=> Has(plan, i))
      BY Places
    <3>2. i = End
      BY <1>1, <3>1, StageIs DEF Final
    <3> QED BY <1>4, <3>1, <3>2 DEF Fits
  <2> DEFINE all == Len(Copied(i)[i].data)
  <2>2. PICK n \in (IF kind(i) = "file_out" \/ all = 0 THEN {all} ELSE 1..all) :
          /\ buffer' = [Copied(i) EXCEPT ![i] = Drop(@, n)]
          /\ sink' = sink \o SubSeq(Copied(i)[i].data, 1, n)
    BY <2>1 DEF OutStage
  <2>3. all \in Nat
    <3>1. BuffersOK(plan, Copied(i), source, sink)
      BY <1>1, CopiedIs DEF Writing
    <3>2. Copied(i)[i] \in Buffer
      BY <3>1, Here DEF BuffersOK, Filled
    <3> QED BY <3>2 DEF Buffer
  <2>4. n \in 0..all /\ (kind(i) = "file_out" => n = all)
    <3> HIDE DEF all
    <3> QED BY <2>2, <2>3
  <2> QED BY <1>1, <1>2, <1>3, <1>4, <2>2, <2>4, OutFlows
<1> QED BY <1>1, <1>2, <1>4, SmoothAfter

\* Where there is a limit nothing is encoded.
LEMMA LimitedAlone ==
  ASSUME NEW p \in Plans, Fits(p), NEW i \in 1..Final(p), Is(p, i, "limited")
  PROVE  /\ ~Coded(p, i) /\ Has(p, i) /\ i > 1 /\ Near(p, i) \in 1..Final(p)
         /\ p.stages[Near(p, i)].kind \notin Decoding
<1>1. \A e \in 1..Final(p) : ~Is(p, e, "encode")
  BY EncoderAlone
<1>2. Final(p) \in Nat \ {0} /\ \A e \in 1..i : e \in 1..Final(p)
  BY PlanIs DEF Final
<1>3. Has(p, i) /\ i > 1
  BY Buffered DEF Is
<1>4. Near(p, i) \in 1..Final(p)
  BY <1>3, NearIs
<1>5. ASSUME p.stages[Near(p, i)].kind \in Decoding PROVE FALSE
  <2> DEFINE m == Near(p, i)
  <2>1. m \in 1..Final(p) /\ p.stages[m].kind \in Decoding
    BY <1>4, <1>5
  <2> HIDE DEF m
  <2>2. PICK e \in 1..(m - 1) : Is(p, e, "encode")
    BY <2>1 DEF Fits, DecoderFits
  <2>3. e \in 1..Final(p)
    BY <1>2, <2>1
  <2> QED BY <1>1, <2>2, <2>3
<1> QED BY <1>1, <1>2, <1>3, <1>4, <1>5 DEF Coded

LEMMA LimitedFlows ==
  ASSUME Inv, Inv', Smooth, Fits(plan), error = {}, NEW i \in Stages, at = i,
         kind(i) = "limited", UNCHANGED <<plan, source, sink, chunk>>,
         NEW n, n = Moved(buffer[NearestIn(i)], i, plan.stages[i].n - transferred[i]),
         buffer' = Move(NearestIn(i), i, n),
         transferred' = [transferred EXCEPT ![i] = @ + n],
         After(i, FALSE, buffer'[i] = Empty /\ transferred'[i] >= plan.stages[i].n)
  PROVE  /\ LastRoom(plan, buffer')
         /\ Flowing(plan, buffer', source', sink', transferred', chunk', empty')
<1> DEFINE b == Held(plan, buffer, source)
           m == NearestIn(i)
           x == SubSeq(buffer[m].data, 1, n)
           t == plan.stages[i].n
<1>1. /\ plan \in Plans /\ Final(plan) = End /\ Stages = 1..Final(plan) /\ i \in 1..Final(plan)
      /\ m = Near(plan, i) /\ kind(i) = plan.stages[i].kind
      /\ (HasBuffer(i) <=> Has(plan, i)) /\ Filled(plan, buffer, source, sink)
      /\ \A k : kind(i) = k <=> Is(plan, i, k)
      /\ transferred[i] \in Nat
  BY Places
<1>2. Is(plan, i, "limited") /\ plan.stages[i].kind \notin Decoding /\ ~Is(plan, i, "null")
      /\ ~Is(plan, i, "encode") /\ ~Is(plan, i, "decode")
  BY <1>1 DEF Is, Decoding
<1>3. /\ ~Coded(plan, i) /\ Has(plan, i) /\ HasBuffer(i) /\ i > 1 /\ m \in Stages /\ m > 0
      /\ plan.stages[m].kind \notin Decoding
  BY <1>1, <1>2, LimitedAlone
<1>4. t \in Nat /\ transferred[i] <= t /\ t - transferred[i] \in Nat
  <2>1. t \in Nat /\ transferred[i] <= t
    BY <1>1, <1>2, Places, StageIs DEF Final
  <2> HIDE DEF t
  <2> QED BY <1>1, <2>1
<1>5. /\ n \in 0..Len(buffer[m].data) /\ n <= room(buffer[i], size(i)) /\ n \in Nat
      /\ buffer[m] \in Buffer
  <2>1. n = Moved(buffer[m], i, t - transferred[i])
    OBVIOUS
  <2> HIDE DEF m, t
  <2>2. n \in 0..Len(buffer[m].data) /\ n <= room(buffer[i], size(i))
    BY <1>3, <1>4, <2>1, MovedIs
  <2> QED BY <1>3, <2>2, Here
<1>6. Moving(i, n, x, buffer')
  <2>1. x = SubSeq(buffer[NearestIn(i)].data, 1, n) /\ n \in 0..Len(buffer[NearestIn(i)].data)
    BY <1>5
  <2> HIDE DEF x
  <2> QED BY <1>3, <1>5, <2>1, MoveOn
<1> HIDE DEF x, m
<1>7. /\ x \in Seq(Byte) /\ Len(x) = n
      /\ buffer'[m] = Drop(buffer[m], n)
      /\ \A j \in Stages : j \notin {m, i} => buffer'[j] = buffer[j]
      /\ Shifts(plan, i, b, Held(plan, buffer', source'), x, x)
  <2>1. source' = source
    OBVIOUS
  <2> QED BY <1>6, <2>1 DEF Moving, m
<1> HIDE DEF b
<1>8. LastRoom(plan, buffer) /\ \A j \in empty : j < i
  BY Flows
<1>9. PICK g : Flow(plan, g, b, sink, transferred, chunk) /\ Done(plan, g, b, empty)
  BY Flows DEF b
<1>10. /\ transferred'[i] = transferred[i] + n
       /\ \A j \in Stages : j # i => transferred'[j] = transferred[j] /\ chunk'[j] = chunk[j]
  <2>1. transferred \in [Stages -> Nat]
    BY <1>1 DEF Inv, CountsOK, Final
  <2> QED BY <2>1
<1>11. /\ Passes(plan, i, g[m] \o x, Out(g, b, i) \o x, chunk'[i], transferred'[i])
       /\ Out(g, b, i) = g[m] /\ transferred'[i] = Len(g[m] \o x)
  <2>1. Passes(plan, i, g[m], Out(g, b, i), chunk[i], transferred[i])
    BY <1>1, <1>3, <1>9 DEF Flow
  <2>2. Out(g, b, i) = g[m] /\ transferred[i] = Len(g[m])
    BY <1>2, <2>1 DEF Passes
  <2>3. g[m] \in Seq(Byte)
    BY <1>1, <1>9, FlowGood
  <2>4. transferred'[i] = Len(g[m] \o x)
    <3> DEFINE u == g[m]
    <3>1. u \in Seq(Byte) /\ transferred'[i] = Len(u) + Len(x)
      BY <1>7, <1>10, <2>2, <2>3
    <3> HIDE DEF u
    <3>2. Len(u \o x) = Len(u) + Len(x)
      BY <1>7, <3>1, ConcatProperties
    <3> QED BY <3>1, <3>2 DEF u
  <2> QED BY <1>2, <2>2, <2>4 DEF Passes
<1>12. LastRoom(plan, buffer')
  BY <1>1, <1>2, <1>7, <1>8, RoomKeeps DEF m
<1>13. empty' = empty \/ empty' = empty \cup {i}
  BY DEF After
<1>14. ASSUME i \in empty'
       PROVE  /\ buffer'[i] = Empty
              /\ m \in empty \/ transferred'[i] >= t
  <2>1. i \notin empty /\ m # 0
    <3>1. i \in Nat /\ m # 0
      BY <1>1, <1>3
    <3>2. ~(i < i)
      BY <3>1
    <3> QED BY <1>8, <3>1, <3>2
  <2>2. empty' = IF \/ buffer'[i] = Empty /\ transferred'[i] >= t
                    \/ HasBuffer(i) /\ buffer'[i] = Empty /\ InEmpty(i)
                    \/ kind(i) = "null" /\ i = End /\ InEmpty(i)
                 THEN empty \cup {i} ELSE empty
    BY DEF After
  <2> QED BY <1>14, <2>1, <2>2 DEF InEmpty, m
<1>15. i \in empty' /\ Drained(plan, i) => buffer'[i].data = <<>>
  BY <1>14, EmptyIs
<1>16. i \in empty' =>
         \/ Complete(plan, i, Out(g, b, i) \o x)
         \/ /\ ~Is(plan, i, "encode") /\ Near(plan, i) \in {0} \cup empty
            /\ Held(plan, buffer', source')[Near(plan, i)] = <<>>
  <2> HAVE i \in empty'
  <2>1. CASE transferred'[i] >= t
    <3>1. plan.stages[i].n <= Len(Out(g, b, i) \o x)
      <4> DEFINE o == Len(g[m] \o x)
      <4>1. t <= o
        BY <1>11, <2>1
      <4> QED BY <1>11, <4>1
    <3>2. i \in 1..i
      BY <1>1
    <3>3. Reaches(plan, i, Out(g, b, i) \o x)
      BY <1>2, <3>1, <3>2 DEF Reaches
    <3> QED BY <1>3, <3>3 DEF Complete
  <2>2. CASE m \in empty
    <3>1. b[m] = <<>>
      BY <1>1, <1>3, <1>9, <2>2, NothingBefore
    <3>2. b[m] = buffer[m].data
      BY <1>1, <1>3, HeldIs DEF b
    <3>3. n = Len(buffer[m].data)
      BY <1>5, <3>1, <3>2
    <3>4. buffer'[m].data = <<>>
      BY <1>5, <1>7, <3>3, DropAll, EmptyIs
    <3>5. Held(plan, buffer', source')[m] = <<>>
      <4>1. m \in 0..Final(plan) /\ m # 0
        BY <1>1, <1>3
      <4> QED BY <3>4, <4>1 DEF Held
    <3> QED BY <1>1, <1>2, <2>2, <3>5
  <2> QED BY <1>14, <2>1, <2>2
<1>17. Flowing(plan, buffer', source', sink', transferred', chunk', empty')
  <2>1. Passes(plan, i, g[Near(plan, i)] \o x, Out(g, b, i) \o x, chunk'[i], transferred'[i])
    BY <1>1, <1>11
  <2> QED BY <1>3, <1>7, <1>8, <1>9, <1>10, <1>13, <1>15, <1>16, <2>1, StageFlows DEF b
<1> QED BY <1>12, <1>17

LEMMA SmoothLimited ==
  ASSUME Inv, Smooth, NEW i \in Stages, LimitedStage(i)
  PROVE  Smooth'
<1> DEFINE n == Moved(buffer[NearestIn(i)], i, plan.stages[i].n - transferred[i])
           declares == buffer'[i] = Empty /\ transferred'[i] >= plan.stages[i].n
<1>1. /\ at = i /\ kind(i) = "limited" /\ UNCHANGED <<plan, source, sink, chunk>>
      /\ buffer' = Move(NearestIn(i), i, n) /\ transferred' = [transferred EXCEPT ![i] = @ + n]
      /\ After(i, FALSE, declares)
  BY DEF LimitedStage, Turn
<1>2. Inv'
  BY KeepsLimited
<1>3. ASSUME Fits(plan), error = {}
      PROVE  /\ LastRoom(plan, buffer')
             /\ Flowing(plan, buffer', source', sink', transferred', chunk', empty')
  BY <1>1, <1>2, <1>3, LimitedFlows
<1> HIDE DEF declares
<1> QED BY <1>1, <1>3, SmoothAfter

\* With an encoder, nothing fails before the last stage has had its turn.
LEMMA NoErrors ==
  ASSUME Inv, Smooth, Fits(plan), NEW i \in Stages, at = i,
         \E e \in 1..Final(plan) : Is(plan, e, "encode")
  PROVE  error = {}
<1>1. i # 0
  BY Places
<1> QED BY <1>1 DEF Smooth, Errs

\* An encoder: a decoder of what it has put would be in the state d, and r
\* bytes of the data are still before it.
EncoderAt(i, g, d, r) ==
  /\ NearestIn(i) = 1 /\ Near(plan, i) = 1 /\ 1 \in Stages /\ i > 1
  /\ HasBuffer(i) /\ Has(plan, i) /\ Is(plan, i, "encode")
  /\ plan.stages[i].n > 0 /\ Len(SizeText(plan.stages[i].n)) < MaxChunkSizeLength
  /\ LastRoom(plan, buffer) /\ \A j \in empty : j < i
  /\ Flow(plan, g, Held(plan, buffer, source), sink, transferred, chunk)
  /\ Done(plan, g, Held(plan, buffer, source), empty)
  /\ g[1] \in Seq(Byte) /\ Out(g, Held(plan, buffer, source), i) \in Seq(Byte)
  /\ DataOf(Out(g, Held(plan, buffer, source), i)) = g[1]
  /\ d = Led(Start, Out(g, Held(plan, buffer, source), i)) /\ d \in Reader
  /\ r = Len(buffer[1].data) /\ r \in Nat /\ Len(plan.data) - Len(g[1]) = r
  /\ Puts(chunk[i], d, r) /\ OnlyData(buffer[1].data)
  /\ 1 \in empty => r = 0

LEMMA EncoderHere ==
  ASSUME Inv, Smooth, Fits(plan), error = {}, NEW i \in Stages, at = i, kind(i) = "encode"
  PROVE  \E g, d, r : EncoderAt(i, g, d, r)
<1> DEFINE b == Held(plan, buffer, source)
           D == plan.data
<1>1. /\ plan \in Plans /\ Stages = 1..Final(plan) /\ i \in 1..Final(plan)
      /\ NearestIn(i) = Near(plan, i) /\ (HasBuffer(i) <=> Has(plan, i))
      /\ Filled(plan, buffer, source, sink) /\ Is(plan, i, "encode")
  BY Places
<1>2. EncoderFits(plan, i) /\ i > 1 /\ Has(plan, i) /\ Is(plan, 1, "null")
  BY <1>1, EncoderAlone
<1>3. /\ Near(plan, i) = 1 /\ plan.stages[i].n > 0
      /\ Len(SizeText(plan.stages[i].n)) < MaxChunkSizeLength
  BY <1>2 DEF EncoderFits
<1>4. LastRoom(plan, buffer) /\ \A j \in empty : j < i
  BY Flows
<1>5. PICK g : Flow(plan, g, b, sink, transferred, chunk) /\ Done(plan, g, b, empty)
  BY Flows
<1>6. 1 \in 1..Final(plan) /\ Has(plan, 1) /\ Near(plan, 1) = 0 /\ 1 # Final(plan)
      /\ 0 \in 0..Final(plan) /\ 1 \in 0..Final(plan) /\ i \in 0..Final(plan)
  <2>1. Final(plan) \in Nat \ {0} /\ Has(plan, 1)
    BY <1>1, PlanIs DEF Final
  <2>2. 1 \in 1..Final(plan)
    BY <2>1
  <2>3. Near(plan, 1) \in 0..(1 - 1)
    BY <1>1, <2>2, NearIs
  <2> QED BY <1>1, <1>2, <2>1, <2>2, <2>3
<1>7. b[1] = buffer[1].data
  BY <1>1, <1>6, HeldIs
<1> HIDE DEF b
<1>8. g \in [0..Final(plan) -> Seq(Byte)] /\ b \in [0..Final(plan) -> Seq(Byte)]
      /\ Out(g, b, 0) = D /\ b[0] = <<>>
  BY <1>2, <1>5 DEF Flow, Is, Reading
<1>9. Passes(plan, 1, g[0], Out(g, b, 1), chunk[1], transferred[1])
  BY <1>5, <1>6 DEF Flow
<1>10. g[0] \in Seq(Byte) /\ g[1] \in Seq(Byte) /\ b[1] \in Seq(Byte)
       /\ g[i] \in Seq(Byte) /\ b[i] \in Seq(Byte)
  BY <1>6, <1>8
<1>11. g[1] \o b[1] = D
  <2>1. Out(g, b, 1) = g[0]
    BY <1>2, <1>9 DEF Passes, Is
  <2>2. Out(g, b, 0) = g[0]
    BY <1>8, <1>10, ConcatEmptySeq DEF Out
  <2> QED BY <1>8, <2>1, <2>2 DEF Out
<1> DEFINE u == g[1]
           v == b[1]
           r == Len(v)
<1>12. OnlyData(v) /\ Len(D) - Len(u) = r /\ r \in Nat
  <2>1. u \in Seq(Byte) /\ v \in Seq(Byte) /\ OnlyData(u \o v) /\ D = u \o v
    BY <1>10, <1>11 DEF Fits
  <2> HIDE DEF u, v, D
  <2>2. Len(D) = Len(u) + Len(v) /\ Len(u) \in Nat /\ Len(v) \in Nat
    BY <2>1, ConcatProperties
  <2>3. OnlyData(v)
    BY <2>1, OnlyDataPart
  <2> DEFINE lu == Len(u)
             ld == Len(D)
  <2>4. ld = lu + r /\ lu \in Nat /\ r \in Nat
    BY <2>2
  <2> HIDE DEF lu, ld, r
  <2>5. ld - lu = r
    BY <2>4
  <2> QED BY <2>3, <2>4, <2>5 DEF lu, ld
<1>13. /\ DataOf(Out(g, b, i)) = u /\ Puts(chunk[i], Led(Start, Out(g, b, i)), Len(D) - Len(u))
  <2>1. Passes(plan, i, g[Near(plan, i)], Out(g, b, i), chunk[i], transferred[i])
    BY <1>1, <1>2, <1>5 DEF Flow
  <2> QED BY <1>1, <1>3, <2>1 DEF Passes
<1>14. Out(g, b, i) \in Seq(Byte)
  BY <1>10, ConcatProperties DEF Out
<1>15. Led(Start, Out(g, b, i)) \in Reader
  BY <1>14, Differ, LedType
<1>16. 1 \in empty => r = 0
  <2> HAVE 1 \in empty
  <2>1. Drained(plan, 1)
    BY <1>2, <1>6 DEF Drained, Is, Decoding
  <2>2. v = <<>>
    BY <1>5, <2>1 DEF Done
  <2> QED BY <2>2
<1> DEFINE d == Led(Start, Out(g, b, i))
<1>17. r = Len(buffer[1].data) /\ OnlyData(buffer[1].data)
  BY <1>7, <1>12
<1>18. Puts(chunk[i], d, r)
  BY <1>12, <1>13
<1> HIDE DEF r
<1>19. EncoderAt(i, g, d, r)
  BY <1>1, <1>2, <1>3, <1>4, <1>5, <1>6, <1>10, <1>12, <1>13, <1>14, <1>15, <1>16, <1>17, <1>18
     DEF EncoderAt, b
<1> QED BY <1>19

\* An encoder takes x, and puts y for it.
LEMMA EncoderFlows ==
  ASSUME Inv, Inv', Fits(plan), NEW i \in Stages, NEW g, NEW d, NEW r, EncoderAt(i, g, d, r),
         UNCHANGED <<plan, source, sink, transferred>>,
         NEW x, NEW y,
         Shifts(plan, i, Held(plan, buffer, source), Held(plan, buffer', source'), x, y),
         \A j \in Stages : j \notin {NearestIn(i), i} => buffer'[j] = buffer[j],
         \A j \in Stages : j # i => chunk'[j] = chunk[j],
         DataOf(y) = x, Puts(chunk'[i], Led(d, y), r - Len(x))
  PROVE  /\ LastRoom(plan, buffer')
         /\ Flowing(plan, buffer', source', sink', transferred', chunk', empty)
<1> DEFINE b == Held(plan, buffer, source)
           o == Out(g, b, i)
           u == g[1]
<1>1. /\ Flow(plan, g, b, sink, transferred, chunk) /\ Done(plan, g, b, empty)
      /\ LastRoom(plan, buffer) /\ \A j \in empty : j < i
  BY DEF EncoderAt
<1>2. /\ u \in Seq(Byte) /\ o \in Seq(Byte) /\ DataOf(o) = u /\ d = Led(Start, o)
      /\ r \in Nat /\ Len(plan.data) - Len(u) = r
  BY DEF EncoderAt
<1>3. Near(plan, i) = 1 /\ Has(plan, i) /\ Is(plan, i, "encode")
  BY DEF EncoderAt
<1>4. x \in Seq(Byte) /\ y \in Seq(Byte)
  BY DEF Shifts
<1>5. Len(plan.data) \in Nat
  BY PlanIs DEF Inv
<1> DEFINE ux == u \o x
           oy == o \o y
           ld == Len(plan.data)
<1> HIDE DEF o, u, b
<1>6. DataOf(oy) = ux
  BY <1>2, <1>4, DataOfJoin DEF DataJoins
<1>7. Led(Start, oy) = Led(d, y)
  BY <1>2, <1>4, Differ, LedJoin
<1>8. ld - Len(ux) = r - Len(x)
  <2> DEFINE lu == Len(u)
             lx == Len(x)
  <2>1. Len(ux) = lu + lx /\ lu \in Nat /\ lx \in Nat
    BY <1>2, <1>4, ConcatProperties
  <2>2. ld - lu = r /\ ld \in Nat /\ r \in Nat
    BY <1>2, <1>5
  <2> HIDE DEF lu, lx, ld, ux
  <2>3. ld - (lu + lx) = r - lx
    BY <2>1, <2>2
  <2> QED BY <2>1, <2>3 DEF lx
<1> HIDE DEF ux, oy
<1>9. Passes(plan, i, ux, oy, chunk'[i], transferred'[i])
  <2>1. ~Is(plan, i, "decode") /\ ~Is(plan, i, "limited") /\ plan.stages[i].kind \notin Decoding
    BY <1>3 DEF Is, Decoding
  <2>2. Puts(chunk'[i], Led(Start, oy), Len(plan.data) - Len(ux))
    BY <1>7, <1>8
  <2> QED BY <1>3, <1>6, <2>1, <2>2 DEF Passes
<1>10. Passes(plan, i, g[Near(plan, i)] \o x, Out(g, b, i) \o y, chunk'[i], transferred'[i])
  BY <1>3, <1>9 DEF u, o, ux, oy
<1>11. LastRoom(plan, buffer')
  <2>1. kind(i) = "encode"
    BY <1>3 DEF Is, kind
  <2> QED BY <1>1, <2>1, RoomKeeps
<1>12. i \notin empty
  <2>1. i \in Nat
    BY Here
  <2>2. ~(i < i)
    BY <2>1
  <2> QED BY <1>1, <2>2
<1>13. Shifts(plan, i, b, Held(plan, buffer', source'), x, y)
  BY DEF b
<1>14. /\ plan' = plan /\ sink' = sink
       /\ \A j \in Stages : j # i => chunk'[j] = chunk[j] /\ transferred'[j] = transferred[j]
  OBVIOUS
<1>15. Flowing(plan, buffer', source', sink', transferred', chunk', empty)
  BY <1>1, <1>3, <1>10, <1>12, <1>13, <1>14, StageFlows DEF b
<1> QED BY <1>11, <1>15

-----------------------------------------------------------------------------
(* An encoder keeps the second invariant                                    *)

LEMMA OnlyFits ==
  ASSUME plan' = plan, Fits(plan) => Smooth'
  PROVE  Smooth'
BY DEF Smooth

\* A stage that goes on with its chunk changed.
LEMMA ChunkIsNow ==
  ASSUME Inv, NEW i \in Stages, NEW c, chunk' = [chunk EXCEPT ![i] = c]
  PROVE  chunk'[i] = c /\ \A j \in Stages : j # i => chunk'[j] = chunk[j]
<1>1. chunk \in [Stages -> Chunk]
  BY DEF Inv, ChunksOK, Stages, End
<1> QED BY <1>1

LEMMA EncoderWorks ==
  ASSUME Inv, Smooth, NEW i \in Stages, at = i, kind(i) = "encode", Fits(plan)
  PROVE  error = {} /\ \E g, d, r : EncoderAt(i, g, d, r)
<1>1. i \in 1..Final(plan) /\ Is(plan, i, "encode")
  BY Places
<1>2. error = {}
  BY <1>1, NoErrors
<1> QED BY <1>2, EncoderHere

LEMMA SmoothEncodeSize ==
  ASSUME Inv, Smooth, NEW i \in Stages, EncodeSize(i)
  PROVE  Smooth'
<1> DEFINE n == Min({Len(buffer[NearestIn(i)].data), plan.stages[i].n})
           t == SizeText(n)
           c == [state |-> "hex", text |-> t, left |-> n, wanted |-> n]
<1>1. /\ at = i /\ kind(i) = "encode" /\ chunk[i].state = "size"
      /\ UNCHANGED Encoding /\ buffer' = buffer
      /\ IF Len(t) > MaxChunkSizeLength
         THEN After(i, TRUE, FALSE) /\ UNCHANGED chunk
         ELSE chunk' = [chunk EXCEPT ![i] = c] /\ Continues(i)
  BY DEF EncodeSize, Encodes, Turn
<1>2. UNCHANGED <<plan, source, sink, transferred>>
  BY <1>1 DEF Encoding
<1>3. Inv'
  BY KeepsEncodeSize
<1> SUFFICES ASSUME Fits(plan) PROVE Smooth'
  BY <1>2, OnlyFits
<1>4. error = {} /\ \E g, d, r : EncoderAt(i, g, d, r)
  BY <1>1, EncoderWorks
<1>5. PICK g, d, r : EncoderAt(i, g, d, r)
  BY <1>4
<1> DEFINE m == plan.stages[i].n
<1>6. /\ NearestIn(i) = 1 /\ Near(plan, i) = 1 /\ Has(plan, i) /\ m > 0 /\ r = Len(buffer[1].data)
      /\ r \in Nat /\ Len(SizeText(m)) < MaxChunkSizeLength /\ Puts(chunk[i], d, r)
      /\ Is(plan, i, "encode")
  BY <1>5 DEF EncoderAt
<1>7. m \in Nat
  <2>1. plan \in Plans /\ i \in 1..Len(plan.stages)
    BY Here
  <2> QED BY <2>1, StageIs
<1>8. n = Min({r, m})
  BY <1>6
<1>9. n \in Nat /\ n <= m /\ n <= r /\ (n = 0 => r = 0)
  <2> HIDE DEF m, n
  <2>1. Min({r, m}) \in {r, m} /\ Min({r, m}) \in Nat /\ Min({r, m}) <= r /\ Min({r, m}) <= m
    BY <1>6, <1>7, LeastOfTwo, MinIs
  <2>2. n = r \/ n = m
    BY <1>8, <2>1
  <2> QED BY <1>6, <1>8, <2>1, <2>2
<1> HIDE DEF n
<1>10. /\ t \in Seq(Byte) /\ t # <<>> /\ Len(t) < MaxChunkSizeLength
       /\ Led(Start, t) = At("data", n, n)
  <2> HIDE DEF m
  <2> QED BY <1>6, <1>7, <1>9, SizeTextIs
<1> HIDE DEF t
<1>11. Len(t) \in Nat /\ MaxChunkSizeLength \in Nat
  BY <1>10, PipesAssumption
<1>12. chunk' = [chunk EXCEPT ![i] = c] /\ Continues(i)
  <2>1. ~(Len(t) > MaxChunkSizeLength)
    BY <1>10, <1>11
  <2> QED BY <1>1, <2>1
<1>13. d = Start
  BY <1>1, <1>6 DEF Puts
<1>14. c.state = "hex" /\ c.text = t /\ c.left = n /\ c.wanted = n
  OBVIOUS
<1> HIDE DEF c
<1>15. chunk'[i] = c /\ \A j \in Stages : j # i => chunk'[j] = chunk[j]
  BY <1>12, ChunkIsNow
<1>16. Puts(c, d, r)
  BY <1>9, <1>10, <1>13, <1>14 DEF Puts
<1> DEFINE b == Held(plan, buffer, source)
<1>17. Passes(plan, i, g[Near(plan, i)], Out(g, b, i), chunk'[i], transferred[i])
  <2>1. /\ DataOf(Out(g, b, i)) = g[1] /\ d = Led(Start, Out(g, b, i))
        /\ Len(plan.data) - Len(g[1]) = r
    BY <1>5 DEF EncoderAt
  <2>2. ~Is(plan, i, "decode") /\ ~Is(plan, i, "limited") /\ plan.stages[i].kind \notin Decoding
    BY <1>6 DEF Is, Decoding
  <2> HIDE DEF b
  <2> QED BY <1>6, <1>15, <1>16, <2>1, <2>2 DEF Passes
<1>18. /\ LastRoom(plan, buffer) /\ Flow(plan, g, b, sink, transferred, chunk)
       /\ Done(plan, g, b, empty) /\ \A j \in empty : j < i
  BY <1>5 DEF EncoderAt
<1>19. i \notin empty
  <2>1. i \in Nat
    BY Here
  <2>2. ~(i < i)
    BY <2>1
  <2> QED BY <1>18, <2>2
<1>20. Flowing(plan, buffer', source', sink', transferred', chunk', empty)
  BY <1>1, <1>2, <1>3, <1>6, <1>15, <1>17, <1>18, <1>19, StillFlows
<1>21. LastRoom(plan, buffer')
  BY <1>1, <1>18
<1> QED BY <1>1, <1>2, <1>12, <1>20, <1>21, SmoothContinues

\* A text goes out, and then the state is that of a decoder that has read it.
LEMMA SmoothText ==
  ASSUME Inv, Inv', Smooth, NEW i \in Stages, at = i, kind(i) = "encode", UNCHANGED Encoding,
         NEW then, PutsText(i, then), chunk[i].state \in {"hex", "cr"},
         \A d, r, c : /\ Puts(chunk[i], d, r)
                      /\ c.state = then /\ c.left = chunk[i].left /\ c.wanted = chunk[i].wanted
                      => Puts(c, Led(d, chunk[i].text), r)
  PROVE  Smooth'
<1> DEFINE t == chunk[i].text
           n == Min({Len(t), room(buffer[i], size(i))})
           out == n = Len(t)
           first == SubSeq(t, 1, n)
           rest == SubSeq(t, n + 1, Len(t))
           s == IF out THEN then ELSE chunk[i].state
           c == [chunk[i] EXCEPT !.text = rest, !.state = s]
<1>1. /\ buffer' = [buffer EXCEPT ![i] = Put(@, first)]
      /\ chunk' = [chunk EXCEPT ![i].text = SubSeq(@, n + 1, Len(@)),
                                ![i].state = IF out THEN then ELSE @]
      /\ IF out THEN Continues(i) ELSE After(i, FALSE, FALSE)
  BY DEF PutsText
<1>2. UNCHANGED <<plan, source, sink, transferred>>
  BY DEF Encoding
<1> SUFFICES ASSUME Fits(plan) PROVE Smooth'
  BY <1>2, OnlyFits
<1>3. error = {} /\ \E g, d, r : EncoderAt(i, g, d, r)
  BY EncoderWorks
<1>4. PICK g, d, r : EncoderAt(i, g, d, r)
  BY <1>3
<1>5. /\ t \in Seq(Byte) /\ DataOf(t) = <<>> /\ chunk[i] \in Chunk
  BY ChunkIs
<1>6. /\ plan \in Plans /\ room(buffer[i], size(i)) \in Nat /\ buffer[i] \in Buffer
      /\ Stages = 1..Final(plan) /\ i \in 1..Final(plan) /\ NearestIn(i) = Near(plan, i)
      /\ Filled(plan, buffer, source, sink) /\ Filled(plan, buffer', source', sink')
  <2>1. Filled(plan, buffer', source', sink')
    BY <1>2 DEF Inv, BuffersOK
  <2>2. room(buffer[i], size(i)) \in Nat /\ buffer[i] \in Buffer
    BY Here
  <2> QED BY <2>1, <2>2, Places
<1>7. n \in 0..Len(t) /\ n \in {Len(t), room(buffer[i], size(i))} /\ Len(t) \in Nat
  <2>1. Len(t) \in Nat
    BY <1>5
  <2>2. n \in Nat /\ n <= Len(t) /\ n <= room(buffer[i], size(i))
    BY <1>6, <2>1, LeastOfTwo
  <2>3. n \in {Len(t), room(buffer[i], size(i))}
    BY <1>6, <2>1, MinIs
  <2> QED BY <2>1, <2>2, <2>3
<1> HIDE DEF n
<1>8. /\ first \in Seq(Byte) /\ Len(first) = n /\ rest \in Seq(Byte) /\ Len(rest) = Len(t) - n
      /\ DataOf(first) = <<>> /\ t = first \o rest
  BY <1>5, <1>7, Cut, FramingCut
<1>9. chunk' = [chunk EXCEPT ![i] = c]
  <2>1. chunk \in [Stages -> Chunk]
    BY DEF Inv, ChunksOK, Stages, End
  <2> QED BY <1>1, <2>1
<1>10. /\ c.text = rest /\ c.state = s /\ c.left = chunk[i].left /\ c.wanted = chunk[i].wanted
  <2> HIDE DEF rest, s
  <2> QED BY <1>5 DEF Chunk
<1> HIDE DEF c, first, rest
<1>11. chunk'[i] = c /\ \A j \in Stages : j # i => chunk'[j] = chunk[j]
  BY <1>9, ChunkIsNow
<1>12. /\ Puts(chunk[i], d, r) /\ d \in Reader /\ NearestIn(i) = 1 /\ i > 1 /\ r \in Nat
       /\ HasBuffer(i)
  BY <1>4 DEF EncoderAt
<1>13. Puts(c, Led(d, first), r)
  <2>1. CASE out
    <3>1. rest = <<>>
      <4>1. Len(rest) = 0
        BY <1>7, <1>8, <2>1
      <4> QED BY <1>8, <4>1, EmptySeq
    <3>2. first = t
      BY <1>8, <3>1, ConcatEmptySeq
    <3>3. c.state = then
      BY <1>10, <2>1
    <3> QED BY <1>10, <1>12, <3>2, <3>3
  <2>2. CASE ~out
    <3>1. rest # <<>>
      <4>1. Len(rest) # 0
        BY <1>7, <1>8, <2>2
      <4> QED BY <4>1
    <3>2. Led(Led(d, first), rest) = Led(d, t)
      BY <1>8, <1>12, LedJoin
    <3>3. c.state = chunk[i].state
      BY <1>10, <2>2
    <3> QED BY <1>10, <1>12, <3>1, <3>2, <3>3 DEF Puts
  <2> QED BY <2>1, <2>2
<1> DEFINE nothing == <<>>
<1>14. nothing \in Seq(Byte) /\ Len(nothing) = 0
  BY EmptySeq
<1>15. /\ buffer'[i] = Put(buffer[i], first) /\ buffer'[i].data = buffer[i].data \o first
       /\ \A j \in Stages : j # i => buffer'[j] = buffer[j]
  <2>1. buffer \in [Stages -> Buffer]
    BY <1>6 DEF Filled, Final
  <2>2. /\ buffer'[i] = Put(buffer[i], first)
        /\ \A j \in Stages : j # i => buffer'[j] = buffer[j]
    BY <1>1, <2>1 DEF first
  <2> QED BY <1>6, <1>8, <2>2, PutIs
<1>16. buffer[1].data \in Seq(Byte) /\ buffer[1].data = nothing \o buffer[1].data
       /\ buffer'[1] = buffer[1]
  <2>1. 1 \in Stages /\ 1 # i
    BY <1>4, <1>12 DEF EncoderAt
  <2>2. buffer[1].data \in Seq(Byte)
    BY <2>1, Here
  <2> QED BY <1>15, <2>1, <2>2, ConcatEmptySeq
<1> HIDE DEF nothing
<1>17. Shifts(plan, i, Held(plan, buffer, source), Held(plan, buffer', source'), nothing, first)
  <2>1. Near(plan, i) = 1
    BY <1>6, <1>12
  <2>2. \A j \in 1..Final(plan) : j \notin {Near(plan, i), i} => buffer'[j].data = buffer[j].data
    BY <1>6, <1>15
  <2>3. source' = source /\ buffer[Near(plan, i)].data = nothing \o buffer'[Near(plan, i)].data
    BY <1>2, <1>16, <2>1
  <2>4. ~(Near(plan, i) = 0)
    BY <2>1
  <2> QED BY <1>6, <1>8, <1>14, <1>15, <2>2, <2>3, <2>4, HeldShifts
<1>18. DataOf(first) = nothing /\ Puts(chunk'[i], Led(d, first), r - Len(nothing))
  <2>1. r - Len(nothing) = r
    BY <1>12, <1>14
  <2> QED BY <1>8, <1>11, <1>13, <2>1 DEF nothing
<1>19. /\ LastRoom(plan, buffer')
       /\ Flowing(plan, buffer', source', sink', transferred', chunk', empty)
  <2>1. \A j \in Stages : j \notin {NearestIn(i), i} => buffer'[j] = buffer[j]
    BY <1>15
  <2> QED BY <1>2, <1>4, <1>11, <1>17, <1>18, <2>1, EncoderFlows
<1>20. CASE out
  <2>1. Continues(i)
    BY <1>1, <1>20
  <2> QED BY <1>2, <1>19, <2>1, SmoothContinues
<1>21. CASE ~out
  <2>1. After(i, FALSE, FALSE)
    BY <1>1, <1>21
  <2>2. buffer'[i] # Empty
    <3> SUFFICES ASSUME buffer'[i] = Empty PROVE FALSE
      OBVIOUS
    <3>1. buffer[i].gap = 0 /\ Len(buffer[i].data) = 0 /\ Len(first) = 0
      BY <1>6, <1>8, <1>15, PutEmpty
    <3>2. size(i) \in Nat /\ size(i) > 0
      BY <1>6, <1>12, Here, StageIs DEF HasBuffer
    <3>3. room(buffer[i], size(i)) # 0
      BY <3>1, <3>2 DEF room
    <3> QED BY <1>7, <1>8, <1>21, <3>1, <3>3
  <2>3. empty' = empty
    BY <2>1, <2>2 DEF After
  <2> QED BY <1>2, <1>19, <2>1, <2>3, SmoothAfter
<1> QED BY <1>20, <1>21

LEMMA SmoothEncodeHex ==
  ASSUME Inv, Smooth, NEW i \in Stages, EncodeHex(i)
  PROVE  Smooth'
<1> DEFINE then == IF chunk[i].wanted = 0 THEN "done" ELSE "data"
<1>1. /\ at = i /\ kind(i) = "encode" /\ chunk[i].state = "hex"
      /\ PutsText(i, then) /\ UNCHANGED Encoding
  BY DEF EncodeHex, Encodes, Turn
<1>2. Inv'
  BY KeepsEncodeHex
<1>3. chunk[i].wanted \in Nat
  BY ChunkIs
<1>4. ASSUME NEW d, NEW r, NEW c, Puts(chunk[i], d, r),
             c.state = then, c.left = chunk[i].left, c.wanted = chunk[i].wanted
      PROVE  Puts(c, Led(d, chunk[i].text), r)
  <2> DEFINE l == chunk[i].left
             e == Led(d, chunk[i].text)
  <2>1. /\ l = chunk[i].wanted /\ l <= r /\ (l = 0 => r = 0) /\ e = At("data", l, l)
    BY <1>1, <1>4 DEF Puts
  <2> HIDE DEF e
  <2>2. CASE chunk[i].wanted = 0
    <3>1. c.state = "done" /\ e = Ended /\ r = 0
      BY <1>4, <2>1, <2>2 DEF Ended
    <3>2. Puts(c, e, r)
      BY <3>1 DEF Puts
    <3> QED BY <3>2 DEF e
  <2>3. CASE chunk[i].wanted # 0
    <3>1. c.state = "data" /\ c.left > 0 /\ c.left <= r /\ e = At("data", c.left, c.wanted)
      BY <1>3, <1>4, <2>1, <2>3
    <3>2. Puts(c, e, r)
      BY <3>1 DEF Puts
    <3> QED BY <3>2 DEF e
  <2> QED BY <2>2, <2>3
<1> HIDE DEF then
<1> QED BY <1>1, <1>2, <1>4, SmoothText

LEMMA SmoothEncodeCR ==
  ASSUME Inv, Smooth, NEW i \in Stages, EncodeCR(i)
  PROVE  Smooth'
<1>1. /\ at = i /\ kind(i) = "encode" /\ chunk[i].state = "cr"
      /\ PutsText(i, "size") /\ UNCHANGED Encoding
  BY DEF EncodeCR, Encodes, Turn
<1>2. Inv'
  BY KeepsEncodeCR
<1>3. ASSUME NEW d, NEW r, NEW c, Puts(chunk[i], d, r), c.state = "size"
      PROVE  Puts(c, Led(d, chunk[i].text), r)
  <2>1. Led(d, chunk[i].text) = Start
    BY <1>1, <1>3 DEF Puts
  <2> QED BY <1>3, <2>1 DEF Puts
<1> QED BY <1>1, <1>2, <1>3, SmoothText

LEMMA SmoothEncodeData ==
  ASSUME Inv, Smooth, NEW i \in Stages, EncodeData(i)
  PROVE  Smooth'
<1> DEFINE l == chunk[i].left
           n == Moved(buffer[NearestIn(i)], i, l)
           line == <<CR, LF>>
           part == [chunk[i] EXCEPT !.left = l - n]
           whole == [chunk[i] EXCEPT !.left = 0, !.text = line, !.state = "cr"]
<1>1. /\ at = i /\ kind(i) = "encode" /\ chunk[i].state = "data" /\ UNCHANGED Encoding
      /\ IF InEmpty(i) THEN UNCHANGED <<buffer, chunk>> /\ After(i, TRUE, FALSE)
         ELSE /\ buffer' = Move(NearestIn(i), i, n)
              /\ IF n < l
                 THEN /\ chunk' = [chunk EXCEPT ![i].left = @ - n]
                      /\ After(i, FALSE, FALSE)
                 ELSE /\ chunk' = [chunk EXCEPT ![i].left = 0, ![i].text = <<CR, LF>>,
                                                ![i].state = "cr"]
                      /\ Continues(i)
  BY DEF EncodeData, Encodes, Turn
<1>2. UNCHANGED <<plan, source, sink, transferred>>
  BY <1>1 DEF Encoding
<1>3. Inv'
  BY KeepsEncodeData
<1> SUFFICES ASSUME Fits(plan) PROVE Smooth'
  BY <1>2, OnlyFits
<1>4. \E g, d, r : EncoderAt(i, g, d, r)
  BY <1>1, EncoderWorks
<1>5. PICK g, d, r : EncoderAt(i, g, d, r)
  BY <1>4
<1>6. /\ NearestIn(i) = 1 /\ i > 1 /\ HasBuffer(i) /\ 1 \in Stages /\ r \in Nat
      /\ r = Len(buffer[1].data) /\ OnlyData(buffer[1].data) /\ (1 \in empty => r = 0)
      /\ d \in Reader /\ Puts(chunk[i], d, r)
  BY <1>5 DEF EncoderAt
<1>7. /\ l > 0 /\ l <= r /\ d = At("data", l, chunk[i].wanted)
  BY <1>1, <1>6 DEF Puts
<1>8. /\ chunk[i] \in Chunk /\ l \in Nat /\ chunk[i].wanted \in Nat /\ l <= chunk[i].wanted
  BY ChunkIs
<1>9. ~InEmpty(i)
  BY <1>6, <1>7, <1>8 DEF InEmpty
<1>10. n \in 0..Len(buffer[1].data) /\ n <= room(buffer[i], size(i)) /\ n <= l /\ n \in Nat
  <2> HIDE DEF l
  <2>1. n \in 0..Len(buffer[1].data) /\ n <= room(buffer[i], size(i)) /\ n <= l
    BY <1>6, <1>8, MovedIs
  <2> QED BY <1>6, <2>1
<1> HIDE DEF n, l
<1> DEFINE x == SubSeq(buffer[NearestIn(i)].data, 1, n)
<1>11. Moving(i, n, x, buffer')
  <2>1. n \in 0..Len(buffer[NearestIn(i)].data) /\ x = SubSeq(buffer[NearestIn(i)].data, 1, n)
        /\ buffer' = Move(NearestIn(i), i, n)
    BY <1>1, <1>6, <1>9, <1>10
  <2> HIDE DEF x
  <2> QED BY <1>6, <1>10, <2>1, MoveOn
<1> HIDE DEF x
<1>12. /\ x \in Seq(Byte) /\ Len(x) = n
       /\ buffer[1].data = x \o buffer'[1].data
       /\ \A j \in Stages : j \notin {NearestIn(i), i} => buffer'[j] = buffer[j]
       /\ Shifts(plan, i, Held(plan, buffer, source), Held(plan, buffer', source'), x, x)
  <2>1. source' = source
    BY <1>2
  <2> QED BY <1>6, <1>11, <2>1 DEF Moving
<1>13. OnlyData(x) /\ DataOf(x) = x
  <2> DEFINE v == buffer'[1].data
  <2>1. v \in Seq(Byte)
    <3>1. BuffersOK(plan, buffer', source', sink') /\ 1 \in 1..Len(plan.stages)
      BY <1>2, <1>3, <1>6 DEF Inv, Stages, End
    <3> QED BY <3>1 DEF BuffersOK, Filled, Buffer
  <2>2. OnlyData(x \o v)
    BY <1>6, <1>12
  <2> HIDE DEF v
  <2> QED BY <1>12, <2>1, <2>2, OnlyDataPart, DataOfData
<1>14. Led(d, x) = At("data", l - n, chunk[i].wanted)
  <2> DEFINE w == chunk[i].wanted
  <2>1. w \in Nat /\ l \in Nat /\ Len(x) <= l /\ \A j \in 1..Len(x) : IsData(x[j])
    BY <1>8, <1>10, <1>12, <1>13 DEF OnlyData
  <2> HIDE DEF w
  <2>2. Led(At("data", l, w), x) = At("data", l - Len(x), w)
    BY <1>12, <2>1, LedData
  <2> QED BY <1>7, <1>12, <2>2 DEF w
<1>15. chunk \in [Stages -> Chunk]
  BY DEF Inv, ChunksOK, Stages, End
<1>16. CASE n < l
  <2>1. After(i, FALSE, FALSE) /\ chunk' = [chunk EXCEPT ![i] = part]
    BY <1>1, <1>9, <1>15, <1>16 DEF l
  <2> DEFINE k == l - n
  <2>2. k \in Nat /\ k > 0 /\ k <= r - n
    BY <1>6, <1>7, <1>8, <1>10, <1>16
  <2>3. part = [chunk[i] EXCEPT !.left = k]
    OBVIOUS
  <2> HIDE DEF k, part
  <2>4. part.state = "data" /\ part.left = k /\ part.wanted = chunk[i].wanted
    BY <1>1, <1>8, <2>3 DEF Chunk
  <2>5. chunk'[i] = part /\ \A j \in Stages : j # i => chunk'[j] = chunk[j]
    BY <2>1, ChunkIsNow
  <2>6. Puts(part, Led(d, x), r - Len(x))
    <3> DEFINE e == Led(d, x)
               q == r - Len(x)
    <3>1. e = At("data", part.left, part.wanted) /\ part.left > 0 /\ part.left <= q
      BY <1>12, <1>14, <2>2, <2>4 DEF k
    <3> HIDE DEF e, q
    <3>2. Puts(part, e, q)
      BY <2>4, <3>1 DEF Puts
    <3> QED BY <3>2 DEF e, q
  <2>7. Puts(chunk'[i], Led(d, x), r - Len(x))
    BY <2>5, <2>6
  <2>8. /\ LastRoom(plan, buffer')
        /\ Flowing(plan, buffer', source', sink', transferred', chunk', empty)
    BY <1>2, <1>3, <1>5, <1>12, <1>13, <2>5, <2>7, EncoderFlows
  <2>9. empty' = empty
    BY <1>1, <1>9, <2>1 DEF After
  <2> QED BY <1>1, <1>2, <2>1, <2>8, <2>9, SmoothAfter
<1>17. CASE ~(n < l)
  <2>1. Continues(i) /\ chunk' = [chunk EXCEPT ![i] = whole]
    BY <1>1, <1>9, <1>15, <1>17 DEF l
  <2>2. n = l /\ l - n = 0 /\ chunk[i].wanted > 0
    BY <1>7, <1>8, <1>10, <1>17
  <2>3. line \in Seq(Byte) /\ Led(At("data", 0, chunk[i].wanted), line) = Start
        /\ line # <<>>
    <3> DEFINE w == chunk[i].wanted
    <3>1. w \in Nat /\ w > 0
      BY <1>8, <2>2
    <3> HIDE DEF w
    <3>2. line \in Seq(Byte) /\ Led(At("data", 0, w), line) = Start
      BY <3>1, LedEnds
    <3> QED BY <3>2 DEF w
  <2> HIDE DEF line
  <2>4. whole.state = "cr" /\ whole.text = line
    BY <1>8, <2>3 DEF Chunk
  <2> HIDE DEF whole
  <2>5. chunk'[i] = whole /\ \A j \in Stages : j # i => chunk'[j] = chunk[j]
    BY <2>1, ChunkIsNow
  <2>6. Puts(whole, Led(d, x), r - Len(x))
    <3> DEFINE e == Led(d, x)
    <3>1. e = At("data", 0, chunk[i].wanted)
      BY <1>14, <2>2
    <3> HIDE DEF e
    <3>2. Led(e, whole.text) = Start /\ whole.text # <<>>
      BY <2>3, <2>4, <3>1
    <3>3. Puts(whole, e, r - Len(x))
      BY <2>4, <3>2 DEF Puts
    <3> QED BY <3>3 DEF e
  <2>7. Puts(chunk'[i], Led(d, x), r - Len(x))
    BY <2>5, <2>6
  <2>8. /\ LastRoom(plan, buffer')
        /\ Flowing(plan, buffer', source', sink', transferred', chunk', empty)
    BY <1>2, <1>3, <1>5, <1>12, <1>13, <2>5, <2>7, EncoderFlows
  <2> QED BY <1>1, <1>2, <2>1, <2>8, SmoothContinues
<1> QED BY <1>16, <1>17

LEMMA SmoothEncodeDone ==
  ASSUME Inv, Smooth, NEW i \in Stages, EncodeDone(i)
  PROVE  Smooth'
<1> DEFINE b == Held(plan, buffer, source)
<1>1. /\ at = i /\ kind(i) = "encode" /\ chunk[i].state = "done"
      /\ UNCHANGED Encoding /\ buffer' = buffer /\ chunk' = chunk /\ After(i, FALSE, FALSE)
  BY DEF EncodeDone, Encodes, Turn
<1>2. UNCHANGED <<plan, source, sink, transferred>>
  BY <1>1 DEF Encoding
<1>3. Inv'
  BY KeepsEncodeDone
<1> SUFFICES ASSUME Fits(plan) PROVE Smooth'
  BY <1>2, OnlyFits
<1>4. \E g, d, r : EncoderAt(i, g, d, r)
  BY <1>1, EncoderWorks
<1>5. PICK g, d, r : EncoderAt(i, g, d, r)
  BY <1>4
<1>6. /\ LastRoom(plan, buffer) /\ Flow(plan, g, b, sink, transferred, chunk)
      /\ Done(plan, g, b, empty) /\ (\A j \in empty : j < i) /\ Has(plan, i)
      /\ Is(plan, i, "encode") /\ Puts(chunk[i], d, r) /\ d = Led(Start, Out(g, b, i))
  BY <1>5 DEF EncoderAt
<1>7. plan \in Plans /\ i \in 1..Final(plan)
  BY Places
<1>8. Passes(plan, i, g[Near(plan, i)], Out(g, b, i), chunk'[i], transferred[i])
  BY <1>1, <1>6, <1>7 DEF Flow
<1>9. Complete(plan, i, Out(g, b, i))
  <2>1. Coded(plan, i)
    BY <1>6, <1>7, CodedNear
  <2>2. d = Ended
    BY <1>1, <1>6 DEF Puts
  <2> QED BY <1>6, <2>1, <2>2 DEF Complete
<1>10. /\ empty' = empty \/ empty' = empty \cup {i}
       /\ i \in empty' => buffer'[i] = Empty
  <2>1. i \notin empty
    <3>1. i \in Nat
      BY <1>7
    <3>2. ~(i < i)
      BY <3>1
    <3> QED BY <1>6, <3>2
  <2> QED BY <1>1, <2>1 DEF After
<1>11. i \in empty' /\ Drained(plan, i) => buffer[i].data = <<>>
  BY <1>1, <1>10, EmptyIs
<1>12. \A j \in Stages : j # i => chunk'[j] = chunk[j]
  BY <1>1
<1> HIDE DEF b
<1>13. Flowing(plan, buffer', source', sink', transferred', chunk', empty')
  BY <1>1, <1>2, <1>3, <1>6, <1>8, <1>9, <1>10, <1>11, <1>12, StillFlows DEF b
<1>14. LastRoom(plan, buffer')
  BY <1>1, <1>6
<1> QED BY <1>1, <1>2, <1>13, <1>14, SmoothAfter

-----------------------------------------------------------------------------
(* A decoder keeps the second invariant                                     *)

\* What a decoder makes of x, which it has taken.
Makes(i, x) == IF Copies(i) THEN x ELSE DataOf(x)

\* A decoder: it is where a reader of all that it has taken is, and that has
\* nothing to refuse in what it is still to take.
DecoderAt(i, g) ==
  /\ NearestIn(i) = Near(plan, i) /\ NearestIn(i) \in Stages /\ NearestIn(i) > 0 /\ i > 1
  /\ HasBuffer(i) /\ Has(plan, i) /\ kind(i) \in Decoding /\ plan.stages[i].kind \in Decoding
  /\ LastRoom(plan, buffer) /\ \A j \in empty : j < i
  /\ Flow(plan, g, Held(plan, buffer, source), sink, transferred, chunk)
  /\ Done(plan, g, Held(plan, buffer, source), empty)
  /\ g[NearestIn(i)] \in Seq(Byte) /\ Input(i) \in Seq(Byte)
  /\ Held(plan, buffer, source)[NearestIn(i)] = Input(i)
  /\ Led(Start, g[NearestIn(i)]) = chunk[i] /\ chunk[i] \in Reader
  /\ Led(chunk[i], Input(i)) # Bad
  /\ Out(g, Held(plan, buffer, source), i) = Makes(i, g[NearestIn(i)])

LEMMA DecoderHere ==
  ASSUME Inv, Smooth, Fits(plan), NEW i \in Stages, at = i, kind(i) \in Decoding
  PROVE  error = {} /\ \E g : DecoderAt(i, g)
<1> DEFINE b == Held(plan, buffer, source)
           m == NearestIn(i)
<1>1. /\ plan \in Plans /\ Stages = 1..Final(plan) /\ i \in 1..Final(plan)
      /\ m = Near(plan, i) /\ (HasBuffer(i) <=> Has(plan, i))
      /\ Filled(plan, buffer, source, sink) /\ kind(i) = plan.stages[i].kind
      /\ \A k : kind(i) = k <=> Is(plan, i, k)
  BY Places
<1>2. i > 1 /\ HasBuffer(i) /\ m \in Stages /\ Input(i) = buffer[m].data /\ Input(i) \in Seq(Byte)
  BY DecoderIs
<1>3. m > 0 /\ m \in 1..Final(plan)
  BY <1>1, <1>2
<1>4. DecoderFits(plan, i)
  BY <1>1 DEF Fits
<1>5. error = {}
  <2>1. PICK e \in 1..(i - 1) : Is(plan, e, "encode")
    BY <1>4 DEF DecoderFits
  <2>2. e \in 1..Final(plan)
    BY <1>1, PlanIs DEF Final
  <2> QED BY <2>1, <2>2, NoErrors
<1>6. LastRoom(plan, buffer) /\ \A j \in empty : j < i
  BY <1>5, Flows
<1>7. PICK g : Flow(plan, g, b, sink, transferred, chunk) /\ Done(plan, g, b, empty)
  BY <1>5, Flows
<1>8. b[m] = Input(i)
  <2> DEFINE k == m
  <2>1. \A j \in 1..Final(plan) : b[j] = buffer[j].data
    BY <1>1, HeldIs
  <2>2. k \in 1..Final(plan) /\ Input(i) = buffer[k].data
    BY <1>2, <1>3
  <2> HIDE DEF k, b
  <2>3. b[k] = Input(i)
    BY <2>1, <2>2
  <2> QED BY <2>3 DEF k
<1> HIDE DEF b, m
<1>9. g[m] \in Seq(Byte) /\ Good(plan, m, Out(g, b, m))
  BY <1>1, <1>7, FlowGood
<1>10. Passes(plan, i, g[m], Out(g, b, i), chunk[i], transferred[i])
  BY <1>1, <1>2, <1>7 DEF Flow
<1>11. Led(Start, g[m]) = chunk[i]
  BY <1>1, <1>10 DEF Passes
<1>12. Out(g, b, i) = Makes(i, g[m])
  <2>1. ~Is(plan, i, "encode") /\ (Copies(i) <=> ~Is(plan, i, "decode"))
    BY <1>1, Decoders DEF Copies, Is
  <2> QED BY <1>10, <2>1 DEF Passes, Makes
<1> DEFINE u == g[m]
           v == Input(i)
<1>13. Led(Start, u \o v) # Bad
  <2>1. Coded(plan, m)
    BY <1>1, <1>2, CodedNear
  <2>2. Formed(plan, Out(g, b, m))
    BY <1>9, <2>1 DEF Good
  <2>3. Out(g, b, m) = u \o v
    BY <1>8 DEF Out
  <2> QED BY <2>2, <2>3 DEF Formed
<1>14. u \in Seq(Byte) /\ v \in Seq(Byte)
  BY <1>2, <1>9
<1>15. Led(Start, u) \in Reader /\ Led(Led(Start, u), v) # Bad
  <2> HIDE DEF u, v
  <2> QED BY <1>13, <1>14, Differ, LedType, LedJoin
<1>16. DecoderAt(i, g)
  BY <1>1, <1>2, <1>3, <1>6, <1>7, <1>8, <1>9, <1>11, <1>12, <1>15 DEF DecoderAt, b, m
<1> QED BY <1>5, <1>16

LEMMA DecoderFlows ==
  ASSUME Inv, Inv', Fits(plan), NEW i \in Stages, NEW g, DecoderAt(i, g),
         UNCHANGED <<plan, source, sink, transferred>>,
         NEW x,
         Shifts(plan, i, Held(plan, buffer, source), Held(plan, buffer', source'),
                x, Makes(i, x)),
         \A j \in Stages : j \notin {NearestIn(i), i} => buffer'[j] = buffer[j],
         \A j \in Stages : j # i => chunk'[j] = chunk[j],
         chunk'[i] = Led(chunk[i], x),
         NEW em, em = empty \/ em = empty \cup {i}, i \in em => chunk'[i] = Ended
  PROVE  /\ LastRoom(plan, buffer')
         /\ Flowing(plan, buffer', source', sink', transferred', chunk', em)
<1> DEFINE b == Held(plan, buffer, source)
           b2 == Held(plan, buffer', source')
           m == NearestIn(i)
           y == Makes(i, x)
           u == g[m]
           o == Out(g, b, i)
           ux == u \o x
           oy == o \o y
<1>1. /\ m = Near(plan, i) /\ m \in Stages /\ m > 0 /\ Has(plan, i)
      /\ kind(i) \in Decoding /\ plan.stages[i].kind \in Decoding
      /\ LastRoom(plan, buffer) /\ \A j \in empty : j < i
      /\ Flow(plan, g, b, sink, transferred, chunk) /\ Done(plan, g, b, empty)
      /\ u \in Seq(Byte) /\ Led(Start, u) = chunk[i] /\ o = Makes(i, u)
  BY DEF DecoderAt
<1>2. /\ x \in Seq(Byte) /\ y \in Seq(Byte) /\ b[m] = x \o b2[m] /\ b2[m] \in Seq(Byte)
  <2>1. /\ x \in Seq(Byte) /\ y \in Seq(Byte) /\ b[Near(plan, i)] = x \o b2[Near(plan, i)]
        /\ b2 \in [0..Final(plan) -> Seq(Byte)]
    BY DEF Shifts
  <2>2. m \in 0..Final(plan)
    BY <1>1, Places
  <2> HIDE DEF b2, b, m
  <2> QED BY <1>1, <2>1, <2>2
<1>3. plan \in Plans /\ i \in 1..Final(plan) /\ m \in 0..Final(plan)
      /\ \A k : kind(i) = k <=> Is(plan, i, k)
  <2>1. /\ plan \in Plans /\ i \in 1..Final(plan) /\ Stages = 1..Final(plan)
        /\ \A k : kind(i) = k <=> Is(plan, i, k)
    BY Places
  <2>2. m \in 0..Final(plan)
    BY <1>1, <2>1
  <2> QED BY <2>1, <2>2
<1> HIDE DEF b, b2, m, y, u, o
<1>4. Led(Start, ux) = chunk'[i] /\ ux \in Seq(Byte)
  <2>1. Led(Start, ux) = Led(Led(Start, u), x) /\ ux \in Seq(Byte)
    BY <1>1, <1>2, Differ, LedJoin, ConcatProperties
  <2> HIDE DEF ux
  <2> QED BY <1>1, <2>1
<1>5. oy = Makes(i, ux)
  <2>1. DataOf(ux) = DataOf(u) \o DataOf(x)
    BY <1>1, <1>2, DataOfJoin DEF DataJoins
  <2> QED BY <1>1, <2>1 DEF Makes, y
<1> HIDE DEF ux, oy
<1>6. /\ ~Is(plan, i, "encode") /\ ~Is(plan, i, "limited")
      /\ (Copies(i) <=> ~Is(plan, i, "decode"))
  BY <1>1, <1>3, Decoders DEF Copies, Is
<1>7. Passes(plan, i, ux, oy, chunk'[i], transferred'[i])
  BY <1>1, <1>4, <1>5, <1>6 DEF Passes, Makes
<1>8. Good(plan, m, ux)
  <2>1. Good(plan, m, Out(g, b, m))
    BY <1>1, <1>3, FlowGood
  <2> DEFINE v == b2[m]
  <2>2. b[m] = x \o v /\ v \in Seq(Byte)
    BY <1>2
  <2> HIDE DEF v
  <2>3. (u \o x) \o v = u \o (x \o v)
    BY <1>1, <1>2, <2>2, ThreeJoin DEF Associates
  <2>4. Out(g, b, m) = ux \o v
    BY <2>2, <2>3 DEF Out, ux, u
  <2>5. Good(plan, m, ux \o v)
    BY <2>1, <2>4
  <2> QED BY <1>3, <1>4, <2>2, <2>5, GoodPart
<1>9. i \in em => Complete(plan, i, oy)
  <2> HAVE i \in em
  <2>1. Coded(plan, m)
    BY <1>1, <1>3, CodedNear
  <2>2. Complete(plan, m, ux)
    BY <1>4, <2>1 DEF Complete
  <2>3. Passes(plan, i, ux, oy, chunk'[i], transferred'[i])
    BY <1>7
  <2>4. Good(plan, Near(plan, i), ux) /\ Complete(plan, Near(plan, i), ux)
    BY <1>1, <1>8, <2>2
  <2> HIDE DEF DecoderAt
  <2>5. plan \in Plans /\ Fits(plan) /\ i \in 1..Final(plan) /\ Has(plan, i) /\ ~Is(plan, i, "encode")
    BY <1>1, <1>3, <1>6
  <2> DEFINE c == chunk'[i]
             n == transferred'[i]
  <2>6. Passes(plan, i, ux, oy, c, n)
    BY <2>3
  <2> HIDE DEF c, n
  <2> QED BY ONLY <2>4, <2>5, <2>6, PassesComplete
<1>10. LastRoom(plan, buffer')
  <2>1. kind(i) \notin {"null", "file_out"}
    BY <1>1, Decoders
  <2> QED BY <1>1, <2>1, RoomKeeps
<1>11. ~Drained(plan, i)
  BY <1>1 DEF Drained
<1>12. Passes(plan, i, g[Near(plan, i)] \o x, Out(g, b, i) \o y, chunk'[i], transferred'[i])
  BY <1>1, <1>7 DEF u, o, ux, oy
<1>13. i \in em => Complete(plan, i, Out(g, b, i) \o y)
  BY <1>9 DEF o, oy
<1>14. /\ plan' = plan /\ sink' = sink
       /\ \A j \in Stages : j # i => chunk'[j] = chunk[j] /\ transferred'[j] = transferred[j]
  OBVIOUS
<1>15. Shifts(plan, i, b, Held(plan, buffer', source'), x, y)
  BY DEF b, y
<1>16. Flowing(plan, buffer', source', sink', transferred', chunk', em)
  BY <1>1, <1>11, <1>12, <1>13, <1>14, <1>15, StageFlows DEF b
<1> QED BY <1>10, <1>16

\* A part of the frame goes, or is dropped.
Framed(i, x, buf) ==
  /\ x \in Seq(Byte)
  /\ \A j \in Stages : j \notin {NearestIn(i), i} => buf[j] = buffer[j]
  /\ Shifts(plan, i, Held(plan, buffer, source), Held(plan, buf, source), x, Makes(i, x))

LEMMA FrameGoes ==
  ASSUME Inv, NEW i \in Stages, kind(i) \in Decoding,
         NEW n \in 0..Len(Input(i)), Copies(i) => n <= LeftInDestination(i),
         NEW x, x = SubSeq(Input(i), 1, n), DataOf(x) = <<>>, Frame(i, n)
  PROVE  Framed(i, x, buffer')
<1> DEFINE m == NearestIn(i)
           s == Input(i)
           r == SubSeq(s, n + 1, Len(s))
           nothing == <<>>
<1>1. /\ plan \in Plans /\ Stages = 1..Final(plan) /\ i \in 1..Final(plan)
      /\ m = Near(plan, i) /\ Filled(plan, buffer, source, sink)
  BY Places
<1>2. /\ i > 1 /\ HasBuffer(i) /\ m \in Stages /\ s = buffer[m].data /\ s \in Seq(Byte)
      /\ LeftInDestination(i) = room(buffer[i], size(i)) /\ Len(s) \in Nat
  BY DecoderIs
<1>3. m # i
  BY <1>2, Before
<1>4. x \in Seq(Byte) /\ s = x \o r /\ r \in Seq(Byte) /\ Len(x) = n
  <2>1. x = SubSeq(s, 1, n) /\ n \in 0..Len(s) /\ s \in Seq(Byte)
    BY <1>2
  <2> HIDE DEF s
  <2> DEFINE f == SubSeq(s, 1, n)
  <2>2. f \in Seq(Byte) /\ Len(f) = n /\ r \in Seq(Byte) /\ s = f \o r
    BY ONLY <2>1, Cut
  <2>3. x = f
    BY <2>1
  <2> HIDE DEF f, r
  <2> QED BY <2>2, <2>3
<1>5. CASE Copies(i)
  <2>1. buffer' = Move(m, i, n)
    BY <1>5 DEF Frame
  <2>2. x = SubSeq(buffer[m].data, 1, n) /\ n \in 0..Len(buffer[m].data)
        /\ n <= room(buffer[i], size(i))
    BY <1>2, <1>5
  <2> DEFINE bf == buffer'
  <2>3. Moving(i, n, x, bf)
    <3>1. bf = Move(NearestIn(i), i, n) /\ x = SubSeq(buffer[NearestIn(i)].data, 1, n)
          /\ n \in 0..Len(buffer[NearestIn(i)].data)
      BY <2>1, <2>2
    <3> HIDE DEF bf, s, r
    <3> QED BY <1>2, <2>2, <3>1, MoveOn
  <2>4. Makes(i, x) = x
    BY <1>5 DEF Makes
  <2> HIDE DEF bf
  <2>5. Framed(i, x, bf)
    BY <2>3, <2>4 DEF Moving, Framed
  <2> QED BY <2>5 DEF bf
<1>6. CASE ~Copies(i)
  <2> DEFINE bf == buffer'
  <2>1. bf = [buffer EXCEPT ![m] = Drop(@, n)]
    BY <1>6 DEF Frame
  <2>2. buffer[m] \in Buffer /\ n \in 0..Len(buffer[m].data) /\ buffer[i] \in Buffer
    BY <1>2, Here
  <2>3. Drop(buffer[m], n) \in Buffer /\ Drop(buffer[m], n).data = r
    BY <1>2, <2>2, DropIs
  <2> HIDE DEF bf, r, s
  <2>4. buffer \in [Stages -> Buffer]
    BY <1>1 DEF Filled, Final
  <2>5. /\ bf \in [Stages -> Buffer] /\ bf[m] = Drop(buffer[m], n)
        /\ \A j \in Stages : j # m => bf[j] = buffer[j]
    <3> DEFINE t == Drop(buffer[m], n)
    <3>1. bf = [buffer EXCEPT ![m] = t] /\ t \in Buffer
      BY <2>1, <2>3
    <3> HIDE DEF t, m
    <3>2. /\ bf \in [Stages -> Buffer] /\ bf[m] = t
          /\ \A j \in Stages : j # m => bf[j] = buffer[j]
      BY <1>2, <2>4, <3>1
    <3> QED BY <3>2 DEF t
  <2>6. Filled(plan, bf, source, sink)
    BY <1>1, <2>5 DEF Filled, Final
  <2>7. bf[i].data = buffer[i].data \o nothing /\ nothing \in Seq(Byte)
    <3>1. bf[i].data = buffer[i].data
      BY <1>3, <2>5
    <3>2. buffer[i].data \in Seq(Byte)
      BY <2>2 DEF Buffer
    <3> QED BY <3>1, <3>2, ConcatEmptySeq, EmptySeq
  <2>8. Makes(i, x) = nothing
    BY <1>6 DEF Makes
  <2> HIDE DEF nothing
  <2>9. buffer[m].data = x \o bf[m].data
    BY <1>2, <1>4, <2>3, <2>5
  <2>10. Shifts(plan, i, Held(plan, buffer, source), Held(plan, bf, source), x, nothing)
    <3>1. \A j \in 1..Final(plan) : j \notin {Near(plan, i), i} => bf[j].data = buffer[j].data
      BY <1>1, <2>5
    <3>2. Near(plan, i) # 0 /\ buffer[Near(plan, i)].data = x \o bf[Near(plan, i)].data
      BY <1>1, <1>2, <2>9
    <3> QED BY <1>1, <1>4, <2>6, <2>7, <3>1, <3>2, HeldShifts
  <2>11. Framed(i, x, bf)
    BY <1>4, <2>5, <2>8, <2>10 DEF Framed, m
  <2> QED BY <2>11 DEF bf
<1> QED BY <1>5, <1>6

\* A byte that a reader does not refuse.
LEMMA ReadsFirst ==
  ASSUME NEW c \in Reader, NEW s \in Seq(Byte), s # <<>>, Led(c, s) # Bad
  PROVE  /\ Head(s) \in Byte /\ Head(s) = s[1] /\ 1 \in 0..Len(s)
         /\ Led(c, SubSeq(s, 1, 1)) = Read(c, Head(s)) /\ Read(c, Head(s)) # Bad
<1>1. /\ Head(s) = s[1] /\ Head(s) \in Byte /\ Len(s) \in Nat /\ Len(s) # 0
  BY EmptySeq, HeadTailProperties
<1>2. 1 \in 1..Len(s) /\ 1 \in 0..Len(s)
  BY <1>1
<1>3. PICK f : Passing(c, s, f)
  BY LedIs
<1>4. Led(c, SubSeq(s, 1, 1)) = f[1] /\ f[1] # Bad
  BY <1>2, <1>3, PassingPart, PassingGood
<1>5. f[1] = Read(f[1 - 1], s[1]) /\ f[0] = c
  BY <1>2, <1>3 DEF Passing
<1> QED BY <1>1, <1>2, <1>4, <1>5

\* Digits, and the byte behind them.
LEMMA ReadsSize ==
  ASSUME NEW w \in Nat, NEW s \in Seq(Byte), NEW c, c = At("hex", w, w), Led(c, s) # Bad,
         NEW k \in 0..Len(s), \A j \in 1..k : s[j][1] = "hex",
         NEW number, NumberAt(w, s, k, number)
  PROVE  /\ Led(c, SubSeq(s, 1, k)) = At("hex", number[k], number[k])
         /\ k < Len(s) /\ s[k + 1][1] # "hex" =>
              /\ s[k + 1] = CR
              /\ Led(c, SubSeq(s, 1, k + 1)) = At("lf", number[k], number[k])
<1> DEFINE v == number[k]
           b == s[k + 1]
<1>1. Led(c, SubSeq(s, 1, k)) = At("hex", v, v)
  BY LedDigits
<1>2. c \in Reader
  BY InReader
<1>3. PICK f : Passing(c, s, f)
  BY <1>2, LedIs
<1>4. f[k] = At("hex", v, v)
  BY <1>1, <1>2, <1>3, PassingPart
<1>5. ASSUME k < Len(s), b[1] # "hex"
      PROVE  b = CR /\ Led(c, SubSeq(s, 1, k + 1)) = At("lf", v, v)
  <2>1. k + 1 \in 1..Len(s) /\ k + 1 \in 0..Len(s) /\ (k + 1) - 1 = k
    BY <1>5
  <2>2. Led(c, SubSeq(s, 1, k + 1)) = f[k + 1] /\ f[k + 1] # Bad
    BY <1>2, <1>3, <2>1, PassingPart, PassingGood
  <2>3. f[k + 1] = Read(f[k], b)
    BY <1>3, <2>1 DEF Passing
  <2> DEFINE a == At("hex", v, v)
  <2>4. a.state = "hex" /\ a.wanted = v
    BY AtIs
  <2>5. Read(a, b) = f[k + 1] /\ Read(a, b) # Bad
    BY <1>4, <2>2, <2>3
  <2> HIDE DEF a, b
  <2>6. b = CR /\ Read(a, b) = At("lf", v, v)
    BY <1>5, <2>4, <2>5 DEF Read
  <2> QED BY <2>2, <2>5, <2>6 DEF b
<1> QED BY <1>1, <1>5

\* One byte of the frame.
LEMMA ByteFlows ==
  ASSUME Inv, Inv', Fits(plan), NEW i \in Stages, NEW g, DecoderAt(i, g),
         UNCHANGED <<plan, source, sink, transferred>>,
         Input(i) # <<>>, Copies(i) => LeftInDestination(i) > 0,
         ~IsData(Head(Input(i))), Frame(i, 1),
         \A j \in Stages : j # i => chunk'[j] = chunk[j],
         chunk'[i] = Read(chunk[i], Head(Input(i))),
         NEW em, em = empty \/ em = empty \cup {i}, i \in em => chunk'[i] = Ended
  PROVE  /\ LastRoom(plan, buffer')
         /\ Flowing(plan, buffer', source', sink', transferred', chunk', em)
<1> DEFINE s == Input(i)
           x == SubSeq(s, 1, 1)
<1>1. s \in Seq(Byte) /\ chunk[i] \in Reader /\ Led(chunk[i], s) # Bad /\ kind(i) \in Decoding
  BY DEF DecoderAt
<1>2. /\ Head(s) = s[1] /\ 1 \in 0..Len(s) /\ Led(chunk[i], x) = Read(chunk[i], Head(s))
  BY <1>1, ReadsFirst
<1>3. DataOf(x) = <<>>
  <2>1. \A j \in 1..1 : ~IsData(s[j])
    BY <1>2
  <2> HIDE DEF s
  <2> QED BY <1>1, <1>2, <2>1, FramingFirst
<1>4. Copies(i) => 1 <= LeftInDestination(i)
  <2>1. LeftInDestination(i) \in Nat
    BY <1>1, DecoderIs
  <2> QED BY <2>1
<1>5. Framed(i, x, buffer')
  <2>1. x = SubSeq(Input(i), 1, 1) /\ 1 \in 0..Len(Input(i))
    BY <1>2
  <2> HIDE DEF x
  <2> QED BY <1>1, <1>3, <1>4, <2>1, FrameGoes
<1>6. chunk'[i] = Led(chunk[i], x)
  BY <1>2
<1> HIDE DEF x
<1>7. /\ Shifts(plan, i, Held(plan, buffer, source), Held(plan, buffer', source'),
                x, Makes(i, x))
      /\ \A j \in Stages : j \notin {NearestIn(i), i} => buffer'[j] = buffer[j]
  <2>1. source' = source
    OBVIOUS
  <2> QED BY <1>5, <2>1 DEF Framed
<1> QED BY <1>6, <1>7, DecoderFlows

\* While the size of a chunk is read, all of it is still to come.
Whole(c) == c.state \in {"hex", "lf"} => c.left = c.wanted

LEMMA ReadWhole ==
  ASSUME NEW c \in Reader, NEW b
  PROVE  Whole(Read(c, b))
<1>1. \A st, v : Whole(At(st, v, v))
  BY AtIs DEF Whole
<1>2. \A l, w : Whole(At("data", l, w)) /\ Whole(At("next", l, w))
  BY AtIs DEF Whole
<1>3. Whole(Start) /\ Whole(Bad)
  BY <1>1 DEF Start, Bad
<1> QED BY <1>1, <1>2, <1>3 DEF Read

LEMMA LedWhole ==
  ASSUME NEW s \in Seq(Byte)
  PROVE  Whole(Led(Start, s))
<1>1. PICK f : Passing(Start, s, f)
  BY Differ, LedIs
<1>2. /\ Led(Start, s) = f[Len(s)] /\ f[0] = Start /\ Len(s) \in Nat
      /\ \A j \in 1..Len(s) : f[j] = Read(f[j - 1], s[j])
      /\ \A j \in 0..Len(s) : f[j] \in Reader
  BY <1>1 DEF Passing
<1>3. CASE Len(s) = 0
  <2>1. Whole(Start)
    BY AtIs DEF Whole, Start
  <2> QED BY <1>2, <1>3, <2>1
<1>4. CASE Len(s) # 0
  <2> DEFINE n == Len(s)
  <2>1. n \in 1..n /\ n - 1 \in 0..n
    BY <1>2, <1>4
  <2>2. f[n] = Read(f[n - 1], s[n]) /\ f[n - 1] \in Reader
    BY <1>2, <2>1
  <2> QED BY <1>2, <2>2, ReadWhole
<1> QED BY <1>3, <1>4

\* A decoder has a reader's state, and is not through before its turn.
LEMMA DecoderWorks ==
  ASSUME Inv, NEW i \in Stages, NEW g, DecoderAt(i, g)
  PROVE  /\ i \notin empty /\ kind(i) \in Decoding /\ chunk[i] \in Reader
         /\ chunk[i] = At(chunk[i].state, chunk[i].left, chunk[i].wanted)
         /\ Input(i) \in Seq(Byte) /\ Led(chunk[i], Input(i)) # Bad
         /\ NearestIn(i) \in Stages /\ NearestIn(i) # i /\ Whole(chunk[i])
<1>1. /\ \A j \in empty : j < i
      /\ kind(i) \in Decoding /\ chunk[i] \in Reader /\ NearestIn(i) \in Stages /\ i > 1
      /\ Input(i) \in Seq(Byte) /\ Led(chunk[i], Input(i)) # Bad
  BY DEF DecoderAt
<1>2. ~(i < i)
  <2>1. i \in Nat
    BY Here
  <2> QED BY <2>1
<1>3. NearestIn(i) # i
  BY <1>1, Before
<1>4. Whole(chunk[i])
  BY LedWhole DEF DecoderAt
<1> QED BY <1>1, <1>2, <1>3, <1>4, ReaderIs

LEMMA SmoothDecodeReturns ==
  ASSUME Inv, Smooth, NEW i \in Stages, DecodeReturns(i)
  PROVE  Smooth'
<1> DEFINE b == Held(plan, buffer, source)
           m == NearestIn(i)
<1>1. /\ at = i /\ kind(i) \in Decoding
      /\ Input(i) = <<>> \/ (Copies(i) /\ LeftInDestination(i) = 0)
      /\ UNCHANGED Encoding /\ buffer' = buffer /\ chunk' = chunk /\ After(i, FALSE, FALSE)
  BY DEF DecodeReturns, Turn
<1>2. UNCHANGED <<plan, source, sink, transferred>>
  BY <1>1 DEF Encoding
<1>3. Inv'
  BY KeepsDecodeReturns
<1> SUFFICES ASSUME Fits(plan) PROVE Smooth'
  BY <1>2, OnlyFits
<1>4. PICK g : DecoderAt(i, g)
  BY <1>1, DecoderHere
<1>5. /\ LastRoom(plan, buffer) /\ Flow(plan, g, b, sink, transferred, chunk)
      /\ Done(plan, g, b, empty) /\ (\A j \in empty : j < i) /\ Has(plan, i)
      /\ HasBuffer(i) /\ m = Near(plan, i) /\ m > 0 /\ b[m] = Input(i)
      /\ plan.stages[i].kind \in Decoding
  BY <1>4 DEF DecoderAt
<1>6. i \notin empty
  BY <1>4, DecoderWorks
<1>7. plan \in Plans /\ i \in 1..Final(plan) /\ buffer[i] \in Buffer /\ size(i) \in Nat
      /\ size(i) > 0
  <2>1. plan \in Plans /\ i \in 1..Final(plan) /\ buffer[i] \in Buffer
    BY Places, Here
  <2>2. size(i) \in Nat /\ size(i) > 0
    BY <1>5, Here, StageIs DEF HasBuffer
  <2> QED BY <2>1, <2>2
<1>8. Passes(plan, i, g[Near(plan, i)], Out(g, b, i), chunk'[i], transferred[i])
  BY <1>1, <1>5, <1>7 DEF Flow
<1>9. ~Is(plan, i, "encode") /\ ~Drained(plan, i) /\ kind(i) # "null"
  BY <1>1, <1>5, Decoders DEF Is, Drained
<1>10. /\ empty' = empty \/ empty' = empty \cup {i}
       /\ i \in empty' => buffer'[i] = Empty /\ InEmpty(i)
  BY <1>1, <1>6, <1>9 DEF After
<1>11. i \in empty' => Near(plan, i) \in {0} \cup empty /\ b[Near(plan, i)] = <<>>
  <2> HAVE i \in empty'
  <2>1. buffer[i] = Empty /\ m \in {0} \cup empty
    BY <1>1, <1>10 DEF InEmpty
  <2>2. LeftInDestination(i) # 0
    <3>1. room(buffer[i], size(i)) = size(i)
      BY <1>7, <2>1, EmptyIs DEF room
    <3> QED BY <1>7, <3>1 DEF LeftInDestination
  <2> QED BY <1>1, <1>5, <2>1, <2>2
<1>12. \A j \in Stages : j # i => chunk'[j] = chunk[j]
  BY <1>1
<1> HIDE DEF b, m
<1>13. Flowing(plan, buffer', source', sink', transferred', chunk', empty')
  BY <1>1, <1>2, <1>3, <1>5, <1>8, <1>9, <1>10, <1>11, <1>12, StillFlows DEF b
<1>14. LastRoom(plan, buffer')
  BY <1>1, <1>5
<1> QED BY <1>1, <1>2, <1>13, <1>14, SmoothAfter

\* A stage that goes on with another state.
LEMMA StateIsNow ==
  ASSUME Inv, NEW i \in Stages, NEW st, chunk' = [chunk EXCEPT ![i].state = st],
         chunk[i] \in Reader
  PROVE  /\ chunk'[i] = At(st, chunk[i].left, chunk[i].wanted)
         /\ \A j \in Stages : j # i => chunk'[j] = chunk[j]
<1> DEFINE c == [chunk[i] EXCEPT !.state = st]
<1>1. chunk \in [Stages -> Chunk]
  BY DEF Inv, ChunksOK, Stages, End
<1>2. chunk' = [chunk EXCEPT ![i] = c]
  BY <1>1
<1>3. c = At(st, chunk[i].left, chunk[i].wanted)
  <2> DEFINE a == chunk[i].state
             l == chunk[i].left
             w == chunk[i].wanted
  <2>1. chunk[i] = At(a, l, w)
    BY ReaderIs
  <2> HIDE DEF a, l, w
  <2>2. [At(a, l, w) EXCEPT !.state = st] = At(st, l, w)
    BY DEF At
  <2> QED BY <2>1, <2>2 DEF l, w
<1> HIDE DEF c
<1> QED BY <1>2, <1>3, ChunkIsNow

LEMMA SmoothDecodeSizeEnd ==
  ASSUME Inv, Smooth, NEW i \in Stages, DecodeSizeEnd(i)
  PROVE  Smooth'
<1> DEFINE h == Head(Input(i))
           w == chunk[i].wanted
<1>1. /\ at = i /\ kind(i) \in Decoding /\ Input(i) # <<>>
      /\ Copies(i) => LeftInDestination(i) > 0
      /\ chunk[i].state = "lf" /\ UNCHANGED Encoding
      /\ IF h # LF THEN DecodeFails(i)
         ELSE /\ Frame(i, 1) /\ chunk' = [chunk EXCEPT ![i].state = "data"]
              /\ IF w = 0 THEN After(i, FALSE, TRUE) ELSE Continues(i)
  BY DEF DecodeSizeEnd, Decodes, Turn
<1>2. UNCHANGED <<plan, source, sink, transferred>>
  BY <1>1 DEF Encoding
<1>3. Inv'
  BY KeepsDecodeSizeEnd
<1> SUFFICES ASSUME Fits(plan) PROVE Smooth'
  BY <1>2, OnlyFits
<1>4. PICK g : DecoderAt(i, g)
  BY <1>1, DecoderHere
<1>5. /\ i \notin empty /\ chunk[i] \in Reader /\ Input(i) \in Seq(Byte)
      /\ Led(chunk[i], Input(i)) # Bad /\ Whole(chunk[i])
  BY <1>4, DecoderWorks
<1>6. Read(chunk[i], h) # Bad
  BY <1>1, <1>5, ReadsFirst
<1>7. h = LF /\ Read(chunk[i], h) = At("data", w, w)
  BY <1>1, <1>6 DEF Read
<1>8. /\ Frame(i, 1) /\ chunk' = [chunk EXCEPT ![i].state = "data"]
      /\ IF w = 0 THEN After(i, FALSE, TRUE) ELSE Continues(i)
  BY <1>1, <1>7
<1>9. ~IsData(h)
  BY <1>7 DEF IsData, LF
<1>10. /\ chunk'[i] = At("data", chunk[i].left, w)
       /\ \A j \in Stages : j # i => chunk'[j] = chunk[j]
  BY <1>5, <1>8, StateIsNow
<1>11. chunk'[i] = Read(chunk[i], h)
  BY <1>1, <1>5, <1>7, <1>10 DEF Whole
<1>12. w = 0 => chunk'[i] = Ended
  BY <1>7, <1>11 DEF Ended
<1> HIDE DEF h, w
<1>13. ASSUME NEW em, em = empty \/ em = empty \cup {i}, i \in em => w = 0
       PROVE  /\ LastRoom(plan, buffer')
              /\ Flowing(plan, buffer', source', sink', transferred', chunk', em)
  BY <1>1, <1>2, <1>3, <1>4, <1>8, <1>9, <1>10, <1>11, <1>12, <1>13, ByteFlows DEF h
<1>14. CASE w = 0
  <2>1. After(i, FALSE, TRUE)
    BY <1>8, <1>14
  <2>2. empty' = empty \/ empty' = empty \cup {i}
    BY <2>1 DEF After
  <2>3. /\ LastRoom(plan, buffer')
        /\ Flowing(plan, buffer', source', sink', transferred', chunk', empty')
    BY <1>13, <1>14, <2>2
  <2> QED BY <1>1, <1>2, <2>1, <2>3, SmoothAfter
<1>15. CASE w # 0
  <2>1. Continues(i)
    BY <1>8, <1>15
  <2>2. /\ LastRoom(plan, buffer')
        /\ Flowing(plan, buffer', source', sink', transferred', chunk', empty)
    BY <1>5, <1>13
  <2> QED BY <1>1, <1>2, <2>1, <2>2, SmoothContinues
<1> QED BY <1>14, <1>15

LEMMA SmoothDecodeDataEnd ==
  ASSUME Inv, Smooth, NEW i \in Stages, DecodeDataEnd(i)
  PROVE  Smooth'
<1> DEFINE h == Head(Input(i))
           w == chunk[i].wanted
<1>1. /\ at = i /\ kind(i) \in Decoding /\ Input(i) # <<>>
      /\ Copies(i) => LeftInDestination(i) > 0
      /\ chunk[i].state = "data" /\ chunk[i].left = 0 /\ UNCHANGED Encoding
      /\ IF h # CR THEN DecodeFails(i)
         ELSE /\ Frame(i, 1) /\ chunk' = [chunk EXCEPT ![i].state = "next"] /\ Continues(i)
  BY DEF DecodeDataEnd, Decodes, Turn
<1>2. UNCHANGED <<plan, source, sink, transferred>>
  BY <1>1 DEF Encoding
<1>3. Inv'
  BY KeepsDecodeDataEnd
<1> SUFFICES ASSUME Fits(plan) PROVE Smooth'
  BY <1>2, OnlyFits
<1>4. PICK g : DecoderAt(i, g)
  BY <1>1, DecoderHere
<1>5. /\ i \notin empty /\ chunk[i] \in Reader /\ Input(i) \in Seq(Byte)
      /\ Led(chunk[i], Input(i)) # Bad
  BY <1>4, DecoderWorks
<1>6. Read(chunk[i], h) # Bad
  BY <1>1, <1>5, ReadsFirst
<1>7. h = CR /\ Read(chunk[i], h) = At("next", 0, w)
  BY <1>1, <1>6 DEF Read
<1>8. Frame(i, 1) /\ chunk' = [chunk EXCEPT ![i].state = "next"] /\ Continues(i)
  BY <1>1, <1>7
<1>9. ~IsData(h)
  BY <1>7 DEF IsData, CR
<1>10. /\ chunk'[i] = At("next", chunk[i].left, w)
       /\ \A j \in Stages : j # i => chunk'[j] = chunk[j]
  BY <1>5, <1>8, StateIsNow
<1>11. chunk'[i] = Read(chunk[i], h)
  BY <1>1, <1>7, <1>10
<1> HIDE DEF h, w
<1>12. /\ LastRoom(plan, buffer')
       /\ Flowing(plan, buffer', source', sink', transferred', chunk', empty)
  BY <1>1, <1>2, <1>3, <1>4, <1>5, <1>8, <1>9, <1>10, <1>11, ByteFlows DEF h
<1> QED BY <1>1, <1>2, <1>8, <1>12, SmoothContinues

LEMMA SmoothDecodeNext ==
  ASSUME Inv, Smooth, NEW i \in Stages, DecodeNext(i)
  PROVE  Smooth'
<1> DEFINE h == Head(Input(i))
           c == [chunk[i] EXCEPT !.state = "hex", !.wanted = 0]
<1>1. /\ at = i /\ kind(i) \in Decoding /\ Input(i) # <<>>
      /\ Copies(i) => LeftInDestination(i) > 0
      /\ chunk[i].state = "next" /\ UNCHANGED Encoding
      /\ IF h # LF THEN DecodeFails(i)
         ELSE /\ Frame(i, 1) /\ chunk' = [chunk EXCEPT ![i].state = "hex", ![i].wanted = 0]
              /\ Continues(i)
  BY DEF DecodeNext, Decodes, Turn
<1>2. UNCHANGED <<plan, source, sink, transferred>>
  BY <1>1 DEF Encoding
<1>3. Inv'
  BY KeepsDecodeNext
<1> SUFFICES ASSUME Fits(plan) PROVE Smooth'
  BY <1>2, OnlyFits
<1>4. PICK g : DecoderAt(i, g)
  BY <1>1, DecoderHere
<1>5. /\ i \notin empty /\ chunk[i] \in Reader /\ Input(i) \in Seq(Byte)
      /\ Led(chunk[i], Input(i)) # Bad
  BY <1>4, DecoderWorks
<1>6. Read(chunk[i], h) # Bad
  BY <1>1, <1>5, ReadsFirst
<1>7. h = LF /\ Read(chunk[i], h) = Start
  BY <1>1, <1>6 DEF Read
<1>8. /\ Frame(i, 1) /\ chunk' = [chunk EXCEPT ![i].state = "hex", ![i].wanted = 0]
      /\ Continues(i)
  BY <1>1, <1>7
<1>9. ~IsData(h)
  BY <1>7 DEF IsData, LF
<1>10. chunk' = [chunk EXCEPT ![i] = c]
  <2>1. chunk \in [Stages -> Chunk]
    BY DEF Inv, ChunksOK, Stages, End
  <2> QED BY <1>8, <2>1
<1>11. c = Start
  <2>1. chunk[i] \in Chunk /\ chunk[i].text = <<>> /\ chunk[i].left = 0
    BY <1>1, <1>5, ReaderIs, ChunkIs
  <2>2. /\ c \in Chunk /\ c.state = "hex" /\ c.wanted = 0
        /\ c.text = chunk[i].text /\ c.left = chunk[i].left
    BY <2>1 DEF Chunk, ChunkStates
  <2> HIDE DEF c
  <2>3. c = [state |-> c.state, text |-> c.text, left |-> c.left, wanted |-> c.wanted]
    BY <2>2 DEF Chunk
  <2> QED BY <2>1, <2>2, <2>3 DEF Start, At
<1> HIDE DEF c
<1>12. chunk'[i] = c /\ \A j \in Stages : j # i => chunk'[j] = chunk[j]
  BY <1>10, ChunkIsNow
<1>13. chunk'[i] = Read(chunk[i], h)
  BY <1>7, <1>11, <1>12
<1> HIDE DEF h
<1>14. /\ LastRoom(plan, buffer')
       /\ Flowing(plan, buffer', source', sink', transferred', chunk', empty)
  BY <1>1, <1>2, <1>3, <1>4, <1>5, <1>8, <1>9, <1>12, <1>13, ByteFlows DEF h
<1> QED BY <1>1, <1>2, <1>8, <1>14, SmoothContinues

LEMMA SmoothDecodeData ==
  ASSUME Inv, Smooth, NEW i \in Stages, DecodeData(i)
  PROVE  Smooth'
<1> DEFINE l == chunk[i].left
           w == chunk[i].wanted
           s == Input(i)
           n == Moved(buffer[NearestIn(i)], i, l)
           x == SubSeq(s, 1, n)
           k == l - n
           c == [chunk[i] EXCEPT !.left = k]
<1>1. /\ at = i /\ kind(i) \in Decoding /\ chunk[i].state = "data" /\ UNCHANGED Encoding
      /\ buffer' = Move(NearestIn(i), i, n) /\ chunk' = [chunk EXCEPT ![i].left = @ - n]
      /\ Continues(i)
  BY DEF DecodeData, Decodes, Turn
<1>2. UNCHANGED <<plan, source, sink, transferred>>
  BY <1>1 DEF Encoding
<1>3. Inv'
  BY KeepsDecodeData
<1> SUFFICES ASSUME Fits(plan) PROVE Smooth'
  BY <1>2, OnlyFits
<1>4. PICK g : DecoderAt(i, g)
  BY <1>1, DecoderHere
<1>5. /\ i \notin empty /\ chunk[i] \in Reader /\ s \in Seq(Byte)
      /\ Led(chunk[i], s) # Bad /\ chunk[i] = At("data", l, w)
      /\ NearestIn(i) \in Stages
  BY <1>1, <1>4, DecoderWorks
<1>6. l \in Nat /\ w \in Nat
  BY ChunkIs
<1>7. /\ i > 1 /\ HasBuffer(i) /\ s = buffer[NearestIn(i)].data
  BY <1>1, DecoderIs
<1>8. n \in 0..Len(s) /\ n <= room(buffer[i], size(i)) /\ n <= l
  <2> HIDE DEF l
  <2> QED BY <1>5, <1>6, <1>7, MovedIs
<1>9. chunk' = [chunk EXCEPT ![i] = c]
  <2>1. chunk \in [Stages -> Chunk]
    BY DEF Inv, ChunksOK, Stages, End
  <2> QED BY <1>1, <2>1
<1> HIDE DEF n, l, w
<1>10. c = At("data", k, w)
  <2>1. [At("data", l, w) EXCEPT !.left = k] = At("data", k, w)
    <3> HIDE DEF k
    <3> QED BY DEF At
  <2> QED BY <1>5, <2>1
<1> HIDE DEF c
<1>11. chunk'[i] = c /\ \A j \in Stages : j # i => chunk'[j] = chunk[j]
  BY <1>9, ChunkIsNow
<1>12. /\ \A j \in 1..n : IsData(s[j])
       /\ Led(chunk[i], x) = At("data", k, w)
  <2>1. Led(At("data", l, w), s) # Bad
    BY <1>5
  <2> HIDE DEF s
  <2> QED BY <1>5, <1>6, <1>8, <2>1, TakesData
<1>13. Moving(i, n, x, buffer')
  <2>1. n \in 0..Len(buffer[NearestIn(i)].data) /\ x = SubSeq(buffer[NearestIn(i)].data, 1, n)
        /\ buffer' = Move(NearestIn(i), i, n)
    BY <1>1, <1>7, <1>8
  <2> HIDE DEF x
  <2> QED BY <1>7, <1>8, <2>1, MoveOn
<1>14. DataOf(x) = x
  <2>1. x \in Seq(Byte) /\ Len(x) = n
    <3> HIDE DEF s
    <3> QED BY <1>5, <1>8, Cut
  <2>2. \A j \in 1..n : x[j] = s[j]
    BY <1>5, <1>8
  <2> HIDE DEF x, s
  <2>3. OnlyData(x)
    BY <1>12, <2>1, <2>2 DEF OnlyData
  <2> QED BY <2>3, DataOfData
<1>15. chunk'[i] = Led(chunk[i], x)
  BY <1>10, <1>11, <1>12
<1> HIDE DEF x, s
<1>16. Makes(i, x) = x
  BY <1>14 DEF Makes
<1>17. /\ Shifts(plan, i, Held(plan, buffer, source), Held(plan, buffer', source'),
                 x, Makes(i, x))
       /\ \A j \in Stages : j \notin {NearestIn(i), i} => buffer'[j] = buffer[j]
  <2>1. source' = source
    BY <1>2
  <2> QED BY <1>13, <1>16, <2>1 DEF Moving
<1>18. /\ LastRoom(plan, buffer')
       /\ Flowing(plan, buffer', source', sink', transferred', chunk', empty)
  BY <1>2, <1>3, <1>4, <1>5, <1>11, <1>15, <1>17, DecoderFlows
<1> QED BY <1>1, <1>2, <1>18, SmoothContinues

\* The least of two numbers is one of them.
LEMMA OneOfTwo ==
  ASSUME NEW a \in Nat, NEW b \in Nat
  PROVE  Min({a, b}) \in Nat /\ Min({a, b}) <= a /\ Min({a, b}) <= b
         /\ (Min({a, b}) = a \/ Min({a, b}) = b)
<1> DEFINE T == {a, b}
           q == Min(T)
<1>1. T \subseteq Nat /\ T # {}
  OBVIOUS
<1>2. q \in T
  <2> HIDE DEF T
  <2> QED BY <1>1, MinIs
<1>3. q = a \/ q = b
  BY <1>2
<1> HIDE DEF q
<1>4. q \in Nat /\ q <= a /\ q <= b
  BY LeastOfTwo DEF q
<1>5. Min({a, b}) = q
  BY DEF q
<1> QED BY <1>3, <1>4, <1>5

\* The digits at the front of a part of the input.
LEMMA DigitsIn ==
  ASSUME NEW s \in Seq(Byte), NEW seen \in Nat, seen <= Len(s),
         NEW k, k = Min({seen} \cup {j \in 0..(seen - 1) : s[j + 1][1] # "hex"})
  PROVE  /\ k \in 0..seen /\ k \in 0..Len(s) /\ \A j \in 1..k : s[j][1] = "hex"
         /\ k < seen => s[k + 1][1] # "hex"
<1> DEFINE T == {seen} \cup {j \in 0..(seen - 1) : s[j + 1][1] # "hex"}
<1>1. k \in T /\ \A y \in T : k <= y
  <2>1. T \subseteq Nat /\ T # {}
    OBVIOUS
  <2> HIDE DEF T
  <2>2. k = Min(T)
    BY DEF T
  <2> QED BY <2>1, <2>2, MinIs
<1>2. k \in 0..seen /\ (k < seen => s[k + 1][1] # "hex")
  BY <1>1
<1>3. ASSUME NEW j \in 1..k PROVE s[j][1] = "hex"
  <2>1. j - 1 \in 0..(seen - 1) /\ ~(k <= j - 1) /\ (j - 1) + 1 = j
    BY <1>2
  <2>2. j - 1 \notin T
    BY <1>1, <2>1
  <2> QED BY <2>1, <2>2
<1>4. k \in 0..Len(s)
  <2>1. Len(s) \in Nat
    OBVIOUS
  <2> QED BY <1>2, <2>1
<1> QED BY <1>2, <1>3, <1>4

LEMMA SmoothDecodeHex ==
  ASSUME Inv, Smooth, NEW i \in Stages, DecodeHex(i)
  PROVE  Smooth'
<1> DEFINE s == Input(i)
           seen == IF Copies(i) THEN Min({Len(s), LeftInDestination(i)}) ELSE Len(s)
           k == Min({seen} \cup {j \in 0..(seen - 1) : s[j + 1][1] # "hex"})
           number == CHOOSE f : Numbering(chunk[i].wanted, s, k, f)
           v == number[k]
           n == Min({k + 1, seen})
           st == IF k < seen THEN "lf" ELSE chunk[i].state
           c == [chunk[i] EXCEPT !.wanted = v, !.left = v, !.state = st]
           x == SubSeq(s, 1, n)
<1>1. at = i /\ kind(i) \in Decoding /\ UNCHANGED Encoding /\ chunk[i].state = "hex"
  BY DEF DecodeHex, Decodes, Turn
<1>2. IF k < seen /\ s[k + 1] # CR THEN DecodeFails(i)
      ELSE /\ Frame(i, n)
           /\ chunk' = [chunk EXCEPT ![i].wanted = v, ![i].left = v,
                                     ![i].state = IF k < seen THEN "lf" ELSE @]
           /\ Continues(i)
  BY DEF DecodeHex, Numbering
<1>3. UNCHANGED <<plan, source, sink, transferred>>
  BY <1>1 DEF Encoding
<1>4. Inv'
  BY KeepsDecodeHex
<1> SUFFICES ASSUME Fits(plan) PROVE Smooth'
  BY <1>3, OnlyFits
<1>5. PICK g : DecoderAt(i, g)
  BY <1>1, DecoderHere
<1>6. /\ i \notin empty /\ chunk[i] \in Reader /\ s \in Seq(Byte)
      /\ Led(chunk[i], s) # Bad
      /\ chunk[i] = At("hex", chunk[i].wanted, chunk[i].wanted)
  BY <1>1, <1>5, DecoderWorks DEF Whole
<1>7. chunk[i].wanted \in Nat /\ chunk[i] \in Chunk
  BY ChunkIs
<1>8. LeftInDestination(i) \in Nat /\ Len(s) \in Nat
  BY <1>1, DecoderIs
<1>9. seen \in Nat /\ seen <= Len(s) /\ (Copies(i) => seen <= LeftInDestination(i))
  BY <1>8, LeastOfTwo
<1>10. /\ k \in 0..seen /\ k \in 0..Len(s) /\ (\A j \in 1..k : s[j][1] = "hex")
       /\ k < seen => s[k + 1][1] # "hex"
  <2> HIDE DEF seen, s
  <2> QED BY <1>6, <1>9, DigitsIn
<1>11. NumberAt(chunk[i].wanted, s, k, number)
  <2> HIDE DEF k, s
  <2> QED BY <1>6, <1>7, <1>10, NumberSteps
<1> HIDE DEF number, k
<1>12. v \in Nat
  BY <1>10, <1>11 DEF NumberAt
<1> HIDE DEF seen
<1>13. /\ Led(chunk[i], SubSeq(s, 1, k)) = At("hex", v, v)
       /\ k < seen => /\ s[k + 1] = CR
                      /\ Led(chunk[i], SubSeq(s, 1, k + 1)) = At("lf", v, v)
  <2> DEFINE w == chunk[i].wanted
             d == chunk[i]
  <2>1. d = At("hex", w, w) /\ w \in Nat /\ Led(d, s) # Bad /\ NumberAt(w, s, k, number)
    BY <1>6, <1>7, <1>11
  <2> HIDE DEF w, d, s, v
  <2>2. /\ Led(d, SubSeq(s, 1, k)) = At("hex", v, v)
        /\ k < Len(s) /\ s[k + 1][1] # "hex" =>
             s[k + 1] = CR /\ Led(d, SubSeq(s, 1, k + 1)) = At("lf", v, v)
    BY <1>6, <1>10, <2>1, ReadsSize DEF v
  <2>3. k < seen => k < Len(s)
    BY <1>8, <1>9, <1>10 DEF s
  <2> QED BY <1>10, <2>2, <2>3 DEF d
<1>14. /\ Frame(i, n) /\ Continues(i)
       /\ chunk' = [chunk EXCEPT ![i].wanted = v, ![i].left = v,
                                 ![i].state = IF k < seen THEN "lf" ELSE @]
  BY <1>2, <1>13
<1>15. n \in 0..Len(s) /\ n <= seen /\ n = IF k < seen THEN k + 1 ELSE k
  <2>1. k + 1 \in Nat /\ n <= k + 1 /\ n <= seen /\ (n = k + 1 \/ n = seen) /\ n \in Nat
    BY <1>9, <1>10, OneOfTwo
  <2> HIDE DEF n
  <2> QED BY <1>8, <1>9, <1>10, <2>1
<1> HIDE DEF n
<1>16. chunk' = [chunk EXCEPT ![i] = c]
  <2>1. chunk \in [Stages -> Chunk]
    BY DEF Inv, ChunksOK, Stages, End
  <2> HIDE DEF v
  <2> QED BY <1>14, <2>1
<1>17. c = At(st, v, v)
  <2> HIDE DEF v
  <2>1. st \in ChunkStates /\ chunk[i].text = <<>>
    BY <1>1, <1>6, ReaderIs DEF ChunkStates
  <2> HIDE DEF st
  <2>2. /\ c \in Chunk /\ c.state = st /\ c.wanted = v /\ c.left = v /\ c.text = chunk[i].text
    BY <1>7, <1>12, <2>1 DEF Chunk
  <2> HIDE DEF c
  <2>3. c = [state |-> c.state, text |-> c.text, left |-> c.left, wanted |-> c.wanted]
    BY <2>2 DEF Chunk
  <2> QED BY <2>1, <2>2, <2>3 DEF At
<1> HIDE DEF c
<1>18. chunk'[i] = c /\ \A j \in Stages : j # i => chunk'[j] = chunk[j]
  BY <1>16, ChunkIsNow
<1>19. Led(chunk[i], x) = At(st, v, v)
  <2> HIDE DEF v, s
  <2>1. CASE k < seen
    BY <1>13, <1>15, <2>1
  <2>2. CASE ~(k < seen)
    BY <1>1, <1>13, <1>15, <2>2
  <2> QED BY <2>1, <2>2
<1>20. DataOf(x) = <<>>
  <2>1. \A j \in 1..n : ~IsData(s[j])
    <3> TAKE j \in 1..n
    <3>1. CASE j \in 1..k
      BY <1>10, <3>1 DEF IsData
    <3>2. CASE j \notin 1..k
      <4>1. k < seen /\ j = k + 1
        BY <1>9, <1>10, <1>15, <3>2
      <4>2. s[j] = CR
        BY <1>13, <4>1
      <4> QED BY <4>2 DEF IsData, CR
    <3> QED BY <3>1, <3>2
  <2> HIDE DEF s
  <2> QED BY <1>6, <1>15, <2>1, FramingFirst
<1>21. Framed(i, x, buffer')
  <2>1. Copies(i) => n <= LeftInDestination(i)
    BY <1>8, <1>9, <1>15
  <2>2. x = SubSeq(Input(i), 1, n) /\ n \in 0..Len(Input(i))
    BY <1>15
  <2> HIDE DEF x, s
  <2> QED BY <1>1, <1>14, <1>20, <2>1, <2>2, FrameGoes
<1>22. chunk'[i] = Led(chunk[i], x)
  BY <1>17, <1>18, <1>19
<1> HIDE DEF x, s
<1>23. /\ Shifts(plan, i, Held(plan, buffer, source), Held(plan, buffer', source'),
                 x, Makes(i, x))
       /\ \A j \in Stages : j \notin {NearestIn(i), i} => buffer'[j] = buffer[j]
  <2>1. source' = source
    BY <1>3
  <2> QED BY <1>21, <2>1 DEF Framed
<1>24. /\ LastRoom(plan, buffer')
       /\ Flowing(plan, buffer', source', sink', transferred', chunk', empty)
  BY <1>3, <1>4, <1>5, <1>6, <1>18, <1>22, <1>23, DecoderFlows
<1> QED BY <1>1, <1>3, <1>14, <1>24, SmoothContinues

-----------------------------------------------------------------------------
(* The second invariant holds                                               *)

LEMMA SmoothProcess ==
  ASSUME Inv, Smooth, Process
  PROVE  Smooth'
<1>1. /\ at = 0 /\ ~DoneOrError
      /\ at' = IF privateFront \in Stages THEN privateFront ELSE 0
      /\ failing' = FALSE
      /\ plan' = plan /\ buffer' = buffer /\ empty' = empty /\ error' = error
      /\ source' = source /\ sink' = sink /\ transferred' = transferred /\ chunk' = chunk
  BY DEF Process
<1> SUFFICES ASSUME Fits(plan)
             PROVE  /\ Errs(plan, at', error, FALSE)
                    /\ error = {} =>
                         /\ Passed(at', empty) /\ LastRoom(plan, buffer)
                         /\ Flowing(plan, buffer, source, sink, transferred, chunk, empty)
  BY <1>1 DEF Smooth
<1>2. /\ Errs(plan, at, error, failing)
      /\ error = {} =>
           /\ LastRoom(plan, buffer)
           /\ Flowing(plan, buffer, source, sink, transferred, chunk, empty)
  BY DEF Smooth
<1>3. End \notin error /\ End = Final(plan)
  BY <1>1 DEF DoneOrError, Final, End
<1>4. Errs(plan, at', error, FALSE)
  BY <1>2, <1>3 DEF Errs
<1>5. ASSUME error = {} PROVE Passed(at', empty)
  <2>1. /\ empty \subseteq 1..End /\ End \in Nat \ {0}
    <3>1. plan \in Plans /\ StatusOK(plan, at, empty, error)
      BY DEF Inv
    <3> QED BY <3>1, PlanIs DEF StatusOK, End
  <2> DEFINE T == {1} \cup empty
             last == Max(T)
  <2>2. last \in T /\ \A j \in T : j <= last
    <3>1. T \subseteq 0..End /\ T # {}
      BY <2>1
    <3> HIDE DEF T
    <3> QED BY <2>1, <3>1, GreatestNumber
  <2>3. {1} \cup empty \cup error = T
    BY <1>5
  <2>4. privateFront = IF last \in empty THEN last + 1 ELSE last
    BY <1>5, <2>3 DEF privateFront
  <2> HIDE DEF last
  <2>5. ASSUME NEW j \in empty PROVE j < privateFront
    <3>1. j <= last /\ j \in Nat /\ last \in Nat /\ j \in 1..End
      BY <2>1, <2>2, <2>5
    <3>2. CASE last \in empty
      <4>1. privateFront = last + 1
        BY <2>4, <3>2
      <4> QED BY <3>1, <4>1
    <3>3. CASE last \notin empty
      <4>1. last = 1 /\ j # last
        BY <2>2, <2>5, <3>3
      <4> QED BY <3>1, <4>1
    <3> QED BY <3>2, <3>3
  <2>6. at' # 0 => at' = privateFront
    BY <1>1
  <2> QED BY <2>5, <2>6 DEF Passed
<1> QED BY <1>2, <1>4, <1>5

LEMMA SmoothStutter ==
  ASSUME Smooth, UNCHANGED vars
  PROVE  Smooth'
<1>1. /\ plan' = plan /\ at' = at /\ buffer' = buffer /\ empty' = empty /\ error' = error
      /\ failing' = failing /\ source' = source /\ sink' = sink
      /\ transferred' = transferred /\ chunk' = chunk
  BY DEF vars
<1> QED BY <1>1 DEF Smooth

\* Nothing is the beginning of anything.
LEMMA GoodNothing ==
  ASSUME NEW p \in Plans, NEW j \in 0..Final(p)
  PROVE  Good(p, j, <<>>)
<1> DEFINE nothing == <<>>
<1>1. /\ p.data \in Seq(Byte) /\ nothing \in Seq(Byte) /\ DataOf(nothing) = nothing
      /\ Len(nothing) = 0
  BY PlanIs, NoBytes
<1>2. Led(Start, nothing) = Start
  BY Differ, LedNothing
<1>3. Begins(nothing, p.data)
  BY <1>1, BeginsNothing
<1> HIDE DEF nothing
<1>4. Formed(p, nothing)
  BY <1>1, <1>2, <1>3, Differ DEF Formed
<1>5. Within(p, j, nothing)
  <2> SUFFICES ASSUME NEW k \in 1..j, Is(p, k, "limited") PROVE Len(nothing) <= p.stages[k].n
    BY DEF Within
  <2>1. k \in 1..Final(p)
    BY PlanIs DEF Final
  <2>2. p.stages[k].n \in Nat
    BY <2>1, StageIs DEF Final
  <2> QED BY <1>1, <2>2
<1>6. Good(p, j, nothing)
  BY <1>1, <1>3, <1>4, <1>5 DEF Good
<1> QED BY <1>6 DEF nothing

LEMMA InitSmooth == Init => Smooth
<1> SUFFICES ASSUME Init, Fits(plan)
             PROVE  /\ Errs(plan, at, error, failing)
                    /\ error = {} =>
                         /\ Passed(at, empty) /\ LastRoom(plan, buffer)
                         /\ Flowing(plan, buffer, source, sink, transferred, chunk, empty)
  BY DEF Smooth
<1> DEFINE N == Final(plan)
           D == plan.data
           nothing == <<>>
           preset == plan.stages[1].kind = "null"
           first == IF preset THEN D ELSE nothing
           g == [j \in 0..N |-> IF j = 0 THEN first ELSE nothing]
           b == Held(plan, buffer, source)
<1>1. /\ plan \in Plans /\ at = 0 /\ sink = <<>> /\ empty = {} /\ error = {} /\ failing = FALSE
      /\ buffer = [i \in 1..N |-> IF i = 1 /\ preset THEN Holding(D) ELSE Empty]
      /\ source = IF preset THEN <<>> ELSE D
      /\ transferred = [i \in 1..N |-> 0]
      /\ chunk = [i \in 1..N |->
                    IF plan.stages[i].kind \in Decoding THEN [NoChunk EXCEPT !.state = "hex"]
                    ELSE NoChunk]
  BY DEF Init, Stages, Final, kind
<1>2. N \in Nat \ {0} /\ 1 \in 1..N /\ N \in 1..N /\ 0 \in 0..N /\ D \in Seq(Byte)
      /\ nothing \in Seq(Byte) /\ Len(nothing) = 0 /\ nothing \o nothing = nothing
      /\ DataOf(nothing) = nothing
  BY <1>1, PlanIs, NoBytes, ConcatEmptySeq DEF Final
<1>3. /\ Holding(D).data = D /\ Holding(D).gap = 0 /\ Empty.data = nothing /\ Empty.gap = 0
  BY EmptyIs DEF Holding
<1>4. Errs(plan, at, error, failing) /\ Passed(at, empty)
  BY <1>1 DEF Errs, Passed
<1>5. LastRoom(plan, buffer)
  <2>1. buffer[N] = IF N = 1 /\ preset THEN Holding(D) ELSE Empty
    BY <1>1, <1>2
  <2>2. buffer[N].gap = 0
    BY <1>3, <2>1
  <2>3. Is(plan, N, "file_out") => ~(N = 1 /\ preset)
    BY DEF Is
  <2> QED BY <2>1, <2>2, <2>3 DEF LastRoom
<1> HIDE DEF preset, D
<1>6. /\ b = [j \in 0..N |-> IF j = 0 THEN source ELSE buffer[j].data]
      /\ \A j \in 1..N : buffer[j] = IF j = 1 /\ preset THEN Holding(D) ELSE Empty
  BY <1>1 DEF Held
<1>7. /\ b[0] = IF preset THEN nothing ELSE D
      /\ b[1] = first
      /\ \A j \in 2..N : b[j] = nothing
      /\ b \in [0..N -> Seq(Byte)]
  <2>1. b[0] = IF preset THEN nothing ELSE D
    BY <1>1, <1>2, <1>6
  <2>2. \A j \in 1..N : b[j] = IF j = 1 THEN first ELSE nothing
    <3> TAKE j \in 1..N
    <3>1. j \in 0..N /\ j # 0
      BY <1>2
    <3>2. b[j] = buffer[j].data
      BY <1>6, <3>1
    <3> HIDE DEF b
    <3> QED BY <1>3, <1>6, <3>2
  <2>3. b = [j \in 0..N |-> b[j]]
    BY <1>6
  <2>4. \A j \in 0..N : j = 0 \/ j \in 1..N
    BY <1>2
  <2> HIDE DEF b, nothing
  <2>5. \A j \in 0..N : b[j] \in Seq(Byte)
    BY <1>2, <2>1, <2>2, <2>4
  <2>6. \A j \in 2..N : j \in 1..N /\ j # 1
    BY <1>2
  <2> QED BY <1>2, <2>1, <2>2, <2>3, <2>5, <2>6
<1> HIDE DEF b
<1>8. /\ g \in [0..N -> Seq(Byte)] /\ g[0] = first /\ \A j \in 1..N : g[j] = nothing
  BY <1>2
<1> HIDE DEF g, nothing
<1>9. Out(g, b, 0) = D
  <2>1. D \o nothing = D /\ nothing \o D = D
    BY <1>2, ConcatEmptySeq DEF nothing
  <2> QED BY <1>7, <1>8, <2>1 DEF Out
<1>10. plan.stages[1].kind \notin Reading => b[0] = <<>>
  <2>1. 1 \in 1..Len(plan.stages)
    BY <1>2 DEF Final
  <2>2. plan.stages[1].kind \in Reading \cup {"null"}
    BY <1>1, <2>1, StageIs
  <2> QED BY <1>7, <2>2 DEF preset, nothing
<1>11. g[N] = sink
  BY <1>1, <1>2, <1>8 DEF nothing
<1>12. /\ Passes(plan, 1, g[Near(plan, 1)], Out(g, b, 1), chunk[1], transferred[1])
       /\ Good(plan, 1, Out(g, b, 1))
  <2>1. Near(plan, 1) = 0
    <3>1. Near(plan, 1) \in 0..(1 - 1)
      BY <1>1, <1>2, NearIs
    <3> QED BY <3>1
  <2>2. Out(g, b, 1) = first
    <3>1. first \in Seq(Byte) /\ nothing \o first = first
      BY <1>2, ConcatEmptySeq DEF nothing
    <3> QED BY <1>2, <1>7, <1>8, <3>1 DEF Out
  <2>3. plan.stages[1].kind \in Reading \cup {"null"}
    BY <1>1, <1>2, StageIs DEF Final
  <2>4. /\ ~Is(plan, 1, "encode") /\ ~Is(plan, 1, "decode") /\ ~Is(plan, 1, "limited")
        /\ plan.stages[1].kind \notin Decoding
    BY <2>3 DEF Is, Reading, Decoding
  <2>5. Passes(plan, 1, g[Near(plan, 1)], Out(g, b, 1), chunk[1], transferred[1])
    BY <1>8, <2>1, <2>2, <2>4 DEF Passes
  <2>6. Good(plan, 1, nothing)
    BY <1>1, <1>2, GoodNothing DEF nothing
  <2>7. Good(plan, 1, D)
    <3>1. ~Coded(plan, 1) /\ Within(plan, 1, D)
      <4>1. \A k \in 1..1 : k = 1
        OBVIOUS
      <4> QED BY <2>4, <4>1 DEF Coded, Within
    <3>2. Begins(D, D)
      BY <1>2, BeginsSelf
    <3> QED BY <1>2, <3>1, <3>2 DEF Good, D
  <2> QED BY <2>2, <2>5, <2>6, <2>7
<1>13. ASSUME NEW i \in 2..N, Has(plan, i)
       PROVE  /\ Passes(plan, i, g[Near(plan, i)], Out(g, b, i), chunk[i], transferred[i])
              /\ Good(plan, i, Out(g, b, i))
  <2>1. i \in 1..N /\ i \in 0..N /\ i > 1
    BY <1>2
  <2>2. Near(plan, i) \in 1..N
    BY <1>1, <2>1, NearIs
  <2>3. g[Near(plan, i)] = nothing /\ Out(g, b, i) = nothing
    BY <1>2, <1>7, <1>8, <2>1, <2>2 DEF Out
  <2>4. Good(plan, i, nothing)
    BY <1>1, <2>1, GoodNothing DEF nothing
  <2>5. Led(Start, nothing) = Start
    BY Differ, LedNothing DEF nothing
  <2>6. transferred[i] = 0
    BY <1>1, <2>1
  <2>7. Is(plan, i, "encode") =>
          DataOf(nothing) = nothing /\ Puts(chunk[i], Start, Len(plan.data) - Len(nothing))
    <3> HAVE Is(plan, i, "encode")
    <3>1. chunk[i] = NoChunk
      BY <1>1, <2>1, <1>13, Decoders DEF Is
    <3>2. chunk[i].state = "size"
      BY <3>1 DEF NoChunk
    <3> QED BY <1>2, <3>2 DEF Puts
  <2>8. plan.stages[i].kind \in Decoding => chunk[i] = Start
    <3> HAVE plan.stages[i].kind \in Decoding
    <3>1. chunk[i] = [NoChunk EXCEPT !.state = "hex"]
      BY <1>1, <2>1
    <3>2. [NoChunk EXCEPT !.state = "hex"] = Start
      BY DEF NoChunk, Start, At
    <3> QED BY <3>1, <3>2
  <2>9. Passes(plan, i, nothing, nothing, chunk[i], transferred[i])
    BY <1>2, <2>5, <2>6, <2>7, <2>8 DEF Passes
  <2> QED BY <2>3, <2>4, <2>9
<1>14. \A i \in 1..N : Has(plan, i) =>
         Passes(plan, i, g[Near(plan, i)], Out(g, b, i), chunk[i], transferred[i])
         /\ Good(plan, i, Out(g, b, i))
  <2> TAKE i \in 1..N
  <2>1. i = 1 \/ i \in 2..N
    BY <1>2
  <2> QED BY <1>12, <1>13, <2>1
<1>15. Flow(plan, g, b, sink, transferred, chunk)
  BY <1>7, <1>8, <1>9, <1>10, <1>11, <1>14 DEF Flow, D
<1>16. Done(plan, g, b, empty)
  BY <1>1 DEF Done
<1>17. Flowing(plan, buffer, source, sink, transferred, chunk, empty)
  BY <1>15, <1>16 DEF Flowing, b
<1> QED BY <1>4, <1>5, <1>17

LEMMA StageSmooth ==
  ASSUME Inv, Smooth, NEW i \in Stages, Stage(i)
  PROVE  Smooth'
BY SmoothNull, SmoothIn, SmoothOut, SmoothLimited, SmoothEncodeSize, SmoothEncodeHex,
   SmoothEncodeData, SmoothEncodeCR, SmoothEncodeDone, SmoothDecodeReturns, SmoothDecodeHex,
   SmoothDecodeSizeEnd, SmoothDecodeData, SmoothDecodeDataEnd, SmoothDecodeNext DEF Stage

LEMMA StepSmooth == Inv /\ Smooth /\ [Next]_vars => Smooth'
<1> SUFFICES ASSUME Inv, Smooth, [Next]_vars PROVE Smooth'
  OBVIOUS
<1>1. CASE Process
  BY <1>1, SmoothProcess
<1>2. ASSUME NEW i \in Stages, Stage(i) PROVE Smooth'
  BY <1>2, StageSmooth
<1>3. ASSUME NEW i \in Stages, InFails(i) PROVE Smooth'
  BY <1>3, SmoothInFails
<1>4. ASSUME NEW i \in Stages, OutFails(i) PROVE Smooth'
  BY <1>4, SmoothOutFails
<1>5. CASE UNCHANGED vars
  BY <1>5, SmoothStutter
<1> QED BY <1>1, <1>2, <1>3, <1>4, <1>5 DEF Next

-----------------------------------------------------------------------------
(* What the second invariant says of a pipeline that is over                *)

LEMMA NoLimits ==
  ASSUME plan \in Plans, \A i \in Stages : kind(i) # "limited"
  PROVE  Expected = DataOf(plan.data)
<1> DEFINE D == DataOf(plan.data)
           T == {Len(D)} \cup Limits
<1>1. D \in Seq(Byte) /\ Len(D) \in Nat
  BY PlanIs, DataOfType
<1>2. Limits = {}
  BY DEF Limits
<1>3. Min(T) = Len(D)
  <2>1. T = {Len(D)} /\ T \subseteq Nat
    BY <1>1, <1>2
  <2> DEFINE l == Len(D)
             m == Min(T)
  <2>2. m \in T
    <3> HIDE DEF T
    <3> QED BY <2>1, MinIs
  <2> QED BY <2>1, <2>2
<1>4. Expected = SubSeq(D, 1, Min(T))
  BY DEF Expected
<1> HIDE DEF D, T
<1>5. SubSeq(D, 1, Len(D)) = D
  BY <1>1, SubSeqFull
<1> QED BY <1>3, <1>4, <1>5 DEF D

LEMMA UsableFits ==
  ASSUME Inv, Usable
  PROVE  Fits(plan)
<1>1. /\ plan \in Plans /\ Stages = 1..Final(plan) /\ End = Final(plan)
      /\ Final(plan) \in Nat \ {0} /\ Final(plan) \in Stages
  <2>1. plan \in Plans
    BY DEF Inv
  <2>2. Stages = 1..Final(plan) /\ End = Final(plan)
    BY DEF Stages, Final, End
  <2>3. Final(plan) \in Nat \ {0}
    BY <2>1, PlanIs DEF Final
  <2> QED BY <2>1, <2>2, <2>3
<1>2. \A i \in Stages : /\ NearestIn(i) = Near(plan, i)
                        /\ \A k : kind(i) = k <=> Is(plan, i, k)
                        /\ kind(i) = plan.stages[i].kind /\ size(i) = plan.stages[i].size
                        /\ (HasBuffer(i) <=> Has(plan, i))
  BY Places
<1>3. \A i \in Stages : \A j \in 1..(i - 1) : j \in Stages
  BY <1>1
<1>4. /\ \A i \in Stages :
           /\ kind(i) = "encode" => EncoderUsable(i)
           /\ kind(i) \in Decoding => DecoderUsable(i)
           /\ kind(i) = "limited" => \A j \in 1..(i - 1) : kind(j) # "encode"
      /\ LastUsable
      /\ \A j \in DOMAIN plan.data : IsData(plan.data[j])
  BY DEF Usable
<1>5. OnlyData(plan.data)
  <2>1. plan.data \in Seq(Byte)
    BY <1>1, PlanIs
  <2> DEFINE D == plan.data
  <2>2. D \in Seq(Byte) /\ \A j \in DOMAIN D : IsData(D[j])
    BY <1>4, <2>1
  <2> HIDE DEF D
  <2>3. \A j \in 1..Len(D) : IsData(D[j])
    BY <2>2
  <2> QED BY <2>2, <2>3 DEF OnlyData, D
<1>6. ASSUME NEW i \in Stages, kind(i) = "encode" PROVE EncoderFits(plan, i)
  <2>1. /\ kind(1) = "null" /\ NearestIn(i) = 1
        /\ plan.stages[i].n > 0 /\ Len(SizeText(plan.stages[i].n)) < MaxChunkSizeLength
    BY <1>4, <1>6 DEF EncoderUsable
  <2>2. 1 \in Stages
    BY <1>1
  <2>3. \A j \in Stages : kind(j) # "limited"
    <3> SUFFICES ASSUME NEW j \in Stages, kind(j) = "limited" PROVE FALSE
      OBVIOUS
    <3>1. Has(plan, j) /\ j > 1
      BY <1>1, <1>2, Buffered
    <3>2. ~(i \in 1..(j - 1))
      BY <1>4, <1>6
    <3>3. j # i
      BY <1>6
    <3>4. j \in 1..(i - 1)
      BY <1>1, <3>2, <3>3
    <3>5. j <= Near(plan, i)
      BY <1>1, <3>1, <3>4, NearIs
    <3>6. Near(plan, i) = 1
      BY <1>2, <2>1
    <3>7. j \in Nat
      BY <1>1
    <3> QED BY ONLY <3>1, <3>5, <3>6, <3>7
  <2>4. Expected = plan.data
    BY <1>1, <1>5, <2>3, NoLimits, DataOfData
  <2>5. Is(plan, Final(plan), "null") => plan.stages[Final(plan)].size >= Len(plan.data)
    BY <1>1, <1>2, <1>4, <2>4 DEF LastUsable
  <2> QED BY <1>2, <2>1, <2>2, <2>5 DEF EncoderFits
<1>7. ASSUME NEW i \in Stages, kind(i) \in Decoding PROVE DecoderFits(plan, i)
  <2>1. /\ \E j \in 1..(i - 1) : kind(j) = "encode"
        /\ \A j \in 1..(i - 1) : kind(j) # "decode"
        /\ i < End /\ size(i + 1) >= size(i) /\ kind(i + 1) # "socket_out"
    BY <1>4, <1>7 DEF DecoderUsable
  <2>2. i + 1 \in Stages
    BY <1>1, <2>1
  <2>3. /\ \E j \in 1..(i - 1) : Is(plan, j, "encode")
        /\ \A j \in 1..(i - 1) : ~Is(plan, j, "decode")
    BY <1>2, <1>3, <2>1
  <2>4. plan.stages[i + 1].size >= plan.stages[i].size /\ plan.stages[i + 1].kind # "socket_out"
    BY <1>2, <2>1, <2>2
  <2> QED BY <1>1, <2>1, <2>3, <2>4 DEF DecoderFits
<1>8. ASSUME NEW i \in Stages, kind(i) = "limited"
      PROVE  \A j \in 1..(i - 1) : ~Is(plan, j, "encode")
  BY <1>2, <1>3, <1>4, <1>8
<1>9. /\ Has(plan, Final(plan))
      /\ Is(plan, Final(plan), "null") /\ (\E i \in Stages : Is(plan, i, "copy")) =>
           \E i \in Stages : Is(plan, i, "decode")
  BY <1>1, <1>2, <1>4 DEF LastUsable
<1>10. \A i \in Stages :
         /\ Is(plan, i, "encode") => EncoderFits(plan, i)
         /\ plan.stages[i].kind \in Decoding => DecoderFits(plan, i)
         /\ Is(plan, i, "limited") => \A j \in 1..(i - 1) : ~Is(plan, j, "encode")
  BY <1>2, <1>6, <1>7, <1>8
<1> QED BY <1>1, <1>5, <1>9, <1>10 DEF Fits

\* What has come out of the last stage is the output.
LEMMA OutputOut ==
  ASSUME Inv, NEW g, Flow(plan, g, Held(plan, buffer, source), sink, transferred, chunk),
         Done(plan, g, Held(plan, buffer, source), empty), End \in empty
  PROVE  Output = Out(g, Held(plan, buffer, source), End)
<1> DEFINE b == Held(plan, buffer, source)
<1>1. End \in Stages
  BY DEF Inv, StatusOK, Stages, End
<1>2. /\ plan \in Plans /\ End = Final(plan) /\ End \in 1..Final(plan)
      /\ Filled(plan, buffer, source, sink) /\ kind(End) = plan.stages[End].kind
      /\ \A k : kind(End) = k <=> Is(plan, End, k)
  BY <1>1, Places
<1>3. b[End] = buffer[End].data
  BY <1>2, HeldIs
<1>4. g[End] = sink
  BY <1>2 DEF Flow
<1> HIDE DEF b
<1>5. CASE kind(End) \in Writing
  <2>1. Drained(plan, End)
    BY <1>2, <1>5 DEF Drained, Is, Writing, Decoding
  <2>2. b[End] = <<>>
    BY <2>1 DEF Done, b
  <2> QED BY <1>4, <1>5, <2>2 DEF Output, Out, b
<1>6. CASE kind(End) \notin Writing
  BY <1>3, <1>4, <1>6 DEF Output, Out, b
<1> QED BY <1>5, <1>6

\* As much of the data as there is, up to the least limit.
LEMMA ExpectedIs ==
  ASSUME plan \in Plans, OnlyData(plan.data), NEW o \in Seq(Byte), Begins(o, plan.data),
         Within(plan, Final(plan), o), o = plan.data \/ Reaches(plan, Final(plan), o)
  PROVE  DataOf(o) = Expected /\ o = Expected
<1> DEFINE D == plan.data
           n == Len(o)
           T == {Len(D)} \cup Limits
<1>1. /\ OnlyData(o) /\ n \in Nat /\ Len(D) \in Nat /\ n <= Len(D) /\ o = SubSeq(D, 1, n)
  BY BeginsIs
<1>2. DataOf(o) = o /\ DataOf(D) = D
  BY <1>1, DataOfData
<1>3. Limits = {plan.stages[i].n : i \in {j \in 1..Final(plan) : Is(plan, j, "limited")}}
  BY DEF Limits, Stages, Final, Is, kind
<1>4. \A i \in 1..Final(plan) : plan.stages[i].n \in Nat
  BY StageIs DEF Final
<1>5. T \subseteq Nat /\ T # {}
  BY <1>1, <1>3, <1>4
<1>6. \A y \in T : n <= y
  <2>1. \A i \in 1..Final(plan) : Is(plan, i, "limited") => n <= plan.stages[i].n
    BY DEF Within
  <2> HIDE DEF n, D
  <2> QED BY <1>1, <1>3, <2>1
<1>7. n \in T
  <2>1. CASE o = plan.data
    BY <2>1
  <2>2. CASE Reaches(plan, Final(plan), o)
    <3>1. PICK i \in 1..Final(plan) : Is(plan, i, "limited") /\ plan.stages[i].n <= n
      BY <2>2 DEF Reaches
    <3>2. plan.stages[i].n \in T
      BY <1>3, <3>1
    <3> DEFINE z == plan.stages[i].n
    <3>3. z \in Nat /\ z <= n /\ n <= z /\ z \in T
      BY <1>4, <1>6, <3>1, <3>2
    <3> HIDE DEF z, T, n
    <3>4. n = z
      BY <1>1, <3>3
    <3> QED BY <3>3, <3>4
  <2> QED BY <2>1, <2>2
<1> HIDE DEF T, n
<1>8. Min(T) = n
  <2> DEFINE m == Min(T)
  <2>1. m \in T /\ \A y \in T : m <= y
    BY <1>5, MinIs
  <2>2. m \in Nat /\ m <= n /\ n <= m
    BY <1>5, <1>6, <1>7, <2>1
  <2> HIDE DEF m
  <2>3. m = n
    BY <1>1, <2>2
  <2> QED BY <2>3 DEF m
<1>9. Expected = SubSeq(D, 1, Min(T))
  BY <1>2 DEF Expected, T
<1> QED BY <1>1, <1>2, <1>8, <1>9

LEMMA SmoothOver == Inv /\ Smooth => OverIsComplete
<1> SUFFICES ASSUME Inv, Smooth, Usable
             PROVE  /\ \A i \in error : kind(i) \in Reading \cup Writing \cup {"null"}
                    /\ Over /\ error = {} =>
                         /\ DataOf(Output) = Expected
                         /\ (\E i \in Stages : kind(i) = "decode") => Output = Expected
  BY DEF OverIsComplete
<1>1. Fits(plan)
  BY UsableFits
<1>2. \A i \in error : kind(i) \in Reading \cup Writing \cup {"null"}
  BY <1>1 DEF Smooth, Errs, Fallible, kind
<1>3. ASSUME Over, error = {}
      PROVE  /\ DataOf(Output) = Expected
             /\ (\E i \in Stages : kind(i) = "decode") => Output = Expected
  <2> DEFINE b == Held(plan, buffer, source)
             o == Output
  <2>1. End \in empty
    BY <1>3 DEF Over, DoneOrError
  <2>2. PICK g : Flow(plan, g, b, sink, transferred, chunk) /\ Done(plan, g, b, empty)
    BY <1>1, <1>3 DEF Smooth, Flowing
  <2>3. End \in Stages
    BY <2>1 DEF Inv, StatusOK, Stages, End
  <2>4. /\ plan \in Plans /\ End = Final(plan) /\ End \in 1..Final(plan) /\ Stages = 1..Final(plan)
        /\ Final(plan) \in 1..Final(plan)
    BY <2>3, Places
  <2>5. o = Out(g, b, Final(plan))
    BY <2>1, <2>2, <2>4, OutputOut
  <2>6. Good(plan, Final(plan), o)
    BY <1>1, <2>2, <2>4, <2>5 DEF Flow, Fits
  <2>7. Complete(plan, Final(plan), o)
    BY <2>1, <2>2, <2>4, <2>5 DEF Done
  <2> HIDE DEF b, o
  <2>8. CASE Coded(plan, Final(plan))
    <3>1. PICK e \in 1..Final(plan) : Is(plan, e, "encode")
      BY <2>8 DEF Coded
    <3>2. \A j \in 1..Final(plan) : ~Is(plan, j, "limited") /\ ~Is(plan, j, "decode")
      BY <1>1, <2>4, <2>8, <3>1, EncoderAlone DEF Coded
    <3>3. \A j \in Stages : kind(j) # "limited" /\ kind(j) # "decode"
      BY <2>4, <3>2 DEF Is, kind
    <3>4. Formed(plan, o) /\ Led(Start, o) = Ended
      BY <2>6, <2>7, <2>8 DEF Good, Complete
    <3>5. DataOf(o) = plan.data
      BY <3>4 DEF Formed
    <3>6. Expected = DataOf(plan.data)
      BY <2>4, <3>3, NoLimits
    <3>7. DataOf(plan.data) = plan.data
      BY <1>1, DataOfData DEF Fits
    <3> QED BY <3>3, <3>5, <3>6, <3>7 DEF o
  <2>9. CASE ~Coded(plan, Final(plan))
    <3>1. /\ o \in Seq(Byte) /\ Begins(o, plan.data) /\ Within(plan, Final(plan), o)
          /\ o = plan.data \/ Reaches(plan, Final(plan), o)
      BY <2>6, <2>7, <2>9 DEF Good, Complete
    <3>2. DataOf(o) = Expected /\ o = Expected
      BY <1>1, <2>4, <3>1, ExpectedIs DEF Fits
    <3> QED BY <3>2 DEF o
  <2> QED BY <2>8, <2>9
<1> QED BY <1>2, <1>3

\* However the passes and the partial reads and writes fall, what has gone into
\* a stage of a pipeline that is used as the code expects is what it has made
\* its output of, and a stage is EMPTY only when nothing is left for it
\* (CS_pipeProcess, _encode_chunk, _decode_chunk_copyall).
THEOREM SmoothHolds == Spec => [](Inv /\ Smooth)
<1>1. Init => Inv /\ Smooth
  BY InitInv, InitSmooth
<1>2. Inv /\ Smooth /\ [Next]_vars => Inv' /\ Smooth'
  BY StepInv, StepSmooth
<1> QED BY <1>1, <1>2, PTL DEF Spec

\* A pipeline that is over without an error has delivered all of its data, and
\* decoding gives what was encoded (CS_pipeDoneOrError, the chunk stages).
THEOREM OverCompletes == Spec => []OverIsComplete
BY SmoothHolds, SmoothOver, PTL
====
