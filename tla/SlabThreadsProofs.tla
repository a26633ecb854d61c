------------------------- MODULE SlabThreadsProofs -------------------------
(***************************************************************************)
(* Proofs about the records of the library and those of its threads.       *)
(*                                                                         *)
(* SlabAlloc, for every number of threads, every slab size and every       *)
(* length of the chain: its invariants, and that it implements the pool of *)
(* SlabPool.                                                               *)
(*                                                                         *)
(* Threads, whose records come from such a slab, for any callers and any   *)
(* number of records: a record is used by a start that has not created its *)
(* pthread yet or by a driver; Creating and Driving say what either may    *)
(* rely on.                                                                *)
(***************************************************************************)
EXTENDS SlabAlloc, Threads, SequenceTheorems, TLAPS

(***************************************************************************)
(* What the operators on free lists do.                                    *)
(***************************************************************************)

\* The slots of a list are its elements.
LEMMA RangeOfList ==
  ASSUME NEW f \in Seq(Slots)
  PROVE  \A k : k \in Range(f) <=> \E i \in 1..Len(f) : f[i] = k
  BY DEF Range

\* resetItems lists every slot once.
LEMMA FullListProperties ==
  /\ FullList \in Seq(Slots)
  /\ Len(FullList) = Capacity
  /\ \A i, j \in 1..Len(FullList) : FullList[i] = FullList[j] => i = j
  BY SlabAssumption DEF FullList, Slots

\* Unlinking the head of a list without repetitions: the head is gone and
\* the rest keeps its elements.
LEMMA PopProperties ==
  ASSUME NEW f \in Seq(Slots), f # <<>>,
         \A i, j \in 1..Len(f) : f[i] = f[j] => i = j
  PROVE  /\ Head(f) \in Slots
         /\ Head(f) \in Range(f)
         /\ Tail(f) \in Seq(Slots)
         /\ \A i, j \in 1..Len(Tail(f)) : Tail(f)[i] = Tail(f)[j] => i = j
         /\ Range(Tail(f)) = Range(f) \ {Head(f)}
<1>1. /\ Head(f) \in Slots /\ Tail(f) \in Seq(Slots)
      /\ Len(f) \in Nat \ {0}
      /\ Len(Tail(f)) = Len(f) - 1
      /\ \A i \in 1..Len(Tail(f)) : Tail(f)[i] = f[i + 1]
      /\ Head(f) = f[1]
  BY HeadTailProperties, EmptySeq
<1>2. Head(f) \in Range(f)
  BY <1>1, RangeOfList
<1>3. \A i, j \in 1..Len(Tail(f)) : Tail(f)[i] = Tail(f)[j] => i = j
  <2>1. SUFFICES ASSUME NEW i \in 1..Len(Tail(f)), NEW j \in 1..Len(Tail(f)),
                        Tail(f)[i] = Tail(f)[j]
                 PROVE  i = j
    OBVIOUS
  <2>2. i + 1 \in 1..Len(f) /\ j + 1 \in 1..Len(f) /\ f[i + 1] = f[j + 1]
    BY <1>1, <2>1
  <2>3. i + 1 = j + 1
    BY <2>2
  <2>4. QED
    BY <2>3, <1>1
<1>4. Range(Tail(f)) = Range(f) \ {Head(f)}
  <2>1. ASSUME NEW k \in Range(Tail(f)) PROVE k \in Range(f) \ {Head(f)}
    <3>1. PICK i \in 1..Len(Tail(f)) : Tail(f)[i] = k
      BY <1>1, <2>1, RangeOfList
    <3>2. i + 1 \in 1..Len(f) /\ f[i + 1] = k /\ i + 1 # 1 /\ 1 \in 1..Len(f)
      BY <1>1, <3>1
    <3>3. k # f[1]
      BY <3>2
    <3>4. QED
      BY <1>1, <3>2, <3>3, RangeOfList
  <2>2. ASSUME NEW k \in Range(f) \ {Head(f)} PROVE k \in Range(Tail(f))
    <3>1. PICK i \in 1..Len(f) : f[i] = k
      BY <2>2, RangeOfList
    <3>2. i # 1
      BY <1>1, <2>2, <3>1
    <3>3. i - 1 \in 1..Len(Tail(f)) /\ Tail(f)[i - 1] = f[(i - 1) + 1]
      BY <1>1, <3>1, <3>2
    <3>4. Tail(f)[i - 1] = k
      BY <3>1, <3>3
    <3>5. QED
      BY <1>1, <3>3, <3>4, RangeOfList
  <2>3. QED
    BY <2>1, <2>2
<1>5. QED
  BY <1>1, <1>2, <1>3, <1>4

\* Linking a slot that is not on the list in front of it.
LEMMA PushProperties ==
  ASSUME NEW f \in Seq(Slots), NEW k \in Slots, k \notin Range(f),
         \A i, j \in 1..Len(f) : f[i] = f[j] => i = j
  PROVE  /\ <<k>> \o f \in Seq(Slots)
         /\ \A i, j \in 1..Len(<<k>> \o f) :
              (<<k>> \o f)[i] = (<<k>> \o f)[j] => i = j
         /\ Range(<<k>> \o f) = Range(f) \cup {k}
<1> DEFINE g == <<k>> \o f
<1>1. /\ g \in Seq(Slots) /\ Len(g) = Len(f) + 1 /\ Len(f) \in Nat
      /\ g[1] = k
      /\ \A i \in 1..Len(g) : i # 1 => g[i] = f[i - 1]
  <2>1. <<k>> \in Seq(Slots) /\ Len(<<k>>) = 1 /\ <<k>>[1] = k
    OBVIOUS
  <2>2. Len(f) \in Nat
    BY LenProperties
  <2>3. /\ g \in Seq(Slots) /\ Len(g) = 1 + Len(f)
        /\ \A i \in 1..(1 + Len(f)) :
             g[i] = IF i <= 1 THEN <<k>>[i] ELSE f[i - 1]
    BY <2>1, ConcatProperties
  <2> HIDE DEF g
  <2>4. QED
    BY <2>1, <2>2, <2>3
<1>2. \A i \in 1..Len(f) : f[i] # k
  BY RangeOfList
<1>3. \A i, j \in 1..Len(g) : g[i] = g[j] => i = j
  <2> HIDE DEF g
  <2>1. SUFFICES ASSUME NEW i \in 1..Len(g), NEW j \in 1..Len(g), g[i] = g[j]
                 PROVE  i = j
    OBVIOUS
  <2>2. CASE i = 1
    BY <1>1, <1>2, <2>1, <2>2
  <2>3. CASE j = 1
    BY <1>1, <1>2, <2>1, <2>3
  <2>4. CASE i # 1 /\ j # 1
    <3>1. i - 1 \in 1..Len(f) /\ j - 1 \in 1..Len(f) /\ f[i - 1] = f[j - 1]
      BY <1>1, <2>1, <2>4
    <3>2. i - 1 = j - 1
      BY <3>1
    <3>3. QED
      BY <3>2
  <2>5. QED
    BY <2>2, <2>3, <2>4
<1>4. Range(g) = Range(f) \cup {k}
  <2> HIDE DEF g
  <2>1. ASSUME NEW x \in Range(g) PROVE x \in Range(f) \cup {k}
    <3>1. PICK i \in 1..Len(g) : g[i] = x
      BY <1>1, <2>1, RangeOfList
    <3>2. CASE i = 1
      BY <1>1, <3>1, <3>2
    <3>3. CASE i # 1
      <4>1. i - 1 \in 1..Len(f) /\ f[i - 1] = x
        BY <1>1, <3>1, <3>3
      <4>2. QED
        BY <4>1, RangeOfList
    <3>4. QED
      BY <3>2, <3>3
  <2>2. ASSUME NEW x \in Range(f) PROVE x \in Range(g)
    <3>1. PICK i \in 1..Len(f) : f[i] = x
      BY <2>2, RangeOfList
    <3>2. i + 1 \in 1..Len(g) /\ g[i + 1] = f[(i + 1) - 1]
      BY <1>1, <3>1
    <3>3. g[i + 1] = x
      BY <3>1, <3>2
    <3>4. QED
      BY <1>1, <3>2, <3>3, RangeOfList
  <2>3. k \in Range(g)
    <3>1. 1 \in 1..Len(g)
      BY <1>1
    <3>2. QED
      BY <1>1, <3>1, RangeOfList
  <2>4. QED
    BY <2>1, <2>2, <2>3
<1>5. QED
  BY <1>1, <1>3, <1>4

(***************************************************************************)
(* The inductive invariant, action by action.                              *)
(***************************************************************************)

\* A thread that knows it is inside the critical section is alone in it.
LEMMA AloneInside ==
  ASSUME MutexInv, NEW t \in Threads, slabMutex = NoThread \/ Holds(t)
  PROVE  \A u \in Threads \ {t} : ~Holds(u)
  BY SlabAssumption DEF MutexInv

LEMMA InitIInv == Init => IInv
<1> SUFFICES ASSUME Init PROVE IInv
  OBVIOUS
<1>1. TypeOK
  <2>1. 1 \in Slabs /\ NULL \in Pointer /\ 0 \in 0..MaxSlabs
    BY SlabAssumption DEF Slabs, NULL, Pointer
  <2>2. <<>> \in Seq(Slots) /\ FullList \in Seq(Slots)
    BY FullListProperties, EmptySeq
  <2>3. QED
    BY <2>1, <2>2 DEF Init, TypeOK
<1>2. MutexInv
  BY SlabAssumption DEF Init, MutexInv, Holds
<1>3. FreeListInv
  BY SlabAssumption, FullListProperties DEF Init, FreeListInv, Slabs
<1>4. LocalsInv
  BY SlabAssumption DEF Init, LocalsInv, Carries, NULL, Item, Slabs, Slots
<1>5. OwnerInv
  BY SlabAssumption
     DEF Init, OwnerInv, ExclusiveOwnership, Carries, NULL, Item, Slabs, Slots
<1>6. QED
  BY <1>1, <1>2, <1>3, <1>4, <1>5 DEF IInv

LEMMA TakeLockStep ==
  ASSUME IInv, NEW t \in Threads, TakeLock(t)
  PROVE  IInv'
<1> USE DEF IInv, TakeLock, Goto
<1>1. TypeOK'
  BY SlabAssumption DEF TypeOK, Slabs
<1>2. MutexInv'
  BY SlabAssumption DEF MutexInv, Holds, TypeOK
<1>3. FreeListInv'
  BY DEF FreeListInv
<1>4. LocalsInv'
  BY SlabAssumption DEF LocalsInv, TypeOK, Carries, Slabs
<1>5. OwnerInv'
  BY DEF OwnerInv, ExclusiveOwnership, Carries, FreeItems, TypeOK
<1>6. QED
  BY <1>1, <1>2, <1>3, <1>4, <1>5

LEMMA TakeNextSlabStep ==
  ASSUME IInv, NEW t \in Threads, TakeNextSlab(t)
  PROVE  IInv'
<1> USE DEF IInv, TakeNextSlab
<1>1. TypeOK'
  BY SlabAssumption, SMTT(20) DEF TypeOK, Slabs, LocalsInv
<1>2. MutexInv'
  BY DEF MutexInv, Holds
<1>3. FreeListInv'
  BY DEF FreeListInv
<1>4. LocalsInv'
  <2>1. /\ cur[t] \in 1..nSlabs /\ cur[t] + 1 \in 1..nSlabs
        /\ cur' = [cur EXCEPT ![t] = cur[t] + 1] /\ cur'[t] = cur[t] + 1
    BY SlabAssumption, SMTT(20) DEF LocalsInv, TypeOK, Slabs
  <2>2. \A s \in 1..((cur[t] + 1) - 1) : s = cur[t] \/ s \in 1..(cur[t] - 1)
    BY <2>1
  <2>3. \A s \in 1..((cur[t] + 1) - 1) : free[s] = <<>>
    BY <2>2 DEF LocalsInv
  <2>4. QED
    BY <2>1, <2>3, SMTT(20) DEF LocalsInv, TypeOK, Carries
<1>5. OwnerInv'
  BY DEF OwnerInv, ExclusiveOwnership, Carries, FreeItems
<1>6. QED
  BY <1>1, <1>2, <1>3, <1>4, <1>5

LEMMA TakeOOMStep ==
  ASSUME IInv, NEW t \in Threads, TakeOOM(t)
  PROVE  IInv'
<1> USE DEF IInv, TakeOOM, Goto
<1>1. TypeOK'
  BY DEF TypeOK
<1>2. MutexInv'
  BY DEF MutexInv, Holds, TypeOK
<1>3. FreeListInv'
  BY DEF FreeListInv
<1>4. LocalsInv'
  BY DEF LocalsInv, TypeOK, Carries
<1>5. OwnerInv'
  BY DEF OwnerInv, ExclusiveOwnership, Carries, FreeItems, TypeOK
<1>6. QED
  BY <1>1, <1>2, <1>3, <1>4, <1>5

LEMMA TakeGrowStep ==
  ASSUME IInv, NEW t \in Threads, TakeGrow(t)
  PROVE  IInv'
<1> USE DEF IInv, TakeGrow
<1>0. /\ nSlabs + 1 \in Slabs /\ nSlabs \in Nat
      /\ \A u \in Threads \ {t} : ~Holds(u)
      /\ \A s \in 1..nSlabs : free[s] = <<>>
  <2>1. \A u \in Threads \ {t} : ~Holds(u)
    BY AloneInside DEF Holds
  <2>2. nSlabs \in Nat /\ nSlabs + 1 \in Slabs
    BY SlabAssumption DEF TypeOK, Slabs
  <2>3. \A s \in 1..(nSlabs - 1) : free[s] = <<>>
    BY DEF LocalsInv
  <2>4. \A s \in 1..nSlabs : s = nSlabs \/ s \in 1..(nSlabs - 1)
    BY <2>2
  <2>5. QED
    BY <2>1, <2>2, <2>3, <2>4
<1>1. TypeOK'
  BY <1>0, FullListProperties DEF TypeOK, Slabs
<1>2. MutexInv'
  BY DEF MutexInv, Holds
<1>3. FreeListInv'
  BY <1>0, FullListProperties DEF FreeListInv, TypeOK, Slabs
<1>4. LocalsInv'
  BY <1>0 DEF LocalsInv, TypeOK, Carries, Slabs, Holds
<1>5. OwnerInv'
  <2>1. \A s \in Slabs : s # nSlabs + 1 => FreeItems(s)' = FreeItems(s)
    BY DEF FreeItems, TypeOK
  <2>2. \A s \in Slabs : s = nSlabs + 1 =>
           \A p \in Item : p[1] <= nSlabs => p \notin FreeItems(s)'
    BY <1>0 DEF FreeItems
  <2>3. \A u \in Threads :
         (Carries(u) /\ pc[u] # "pop") => ptr[u] \notin FreeItems(ptr[u][1])'
    BY <1>0, <2>1, <2>2 DEF OwnerInv, Carries, Item
  <2>4. \A s \in Slabs : FreeItems(s)' \cap live = {}
    <3>1. live \subseteq Item /\ \A p \in live : p[1] <= nSlabs
      BY <1>0 DEF OwnerInv, TypeOK
    <3>2. \A s \in Slabs : s = nSlabs + 1 => FreeItems(s)' \cap live = {}
      BY <2>2, <3>1
    <3>3. \A s \in Slabs : FreeItems(s) \cap live = {}
      BY DEF OwnerInv, ExclusiveOwnership
    <3>4. QED
      BY <2>1, <3>2, <3>3
  <2>5. live \subseteq (1..(nSlabs + 1)) \X Slots
    BY <1>0 DEF OwnerInv
  <2>6. \A u \in Threads : Carries(u) => ptr[u][1] <= nSlabs + 1
    BY <1>0 DEF OwnerInv, Carries, Item, Slabs, TypeOK
  <2>7. QED
    BY <2>3, <2>4, <2>5, <2>6 DEF OwnerInv, ExclusiveOwnership, Carries, FreeItems
<1>6. QED
  BY <1>1, <1>2, <1>3, <1>4, <1>5

LEMMA TakeHeadStep ==
  ASSUME IInv, NEW t \in Threads, TakeHead(t)
  PROVE  IInv'
<1> USE DEF IInv, TakeHead, Goto
<1>0. /\ cur[t] \in 1..nSlabs /\ cur[t] \in Slabs /\ nSlabs \in Nat
      /\ \A u \in Threads \ {t} : ~Holds(u)
  <2>1. \A u \in Threads \ {t} : ~Holds(u)
    BY AloneInside DEF Holds
  <2>2. QED
    BY <2>1, SlabAssumption DEF TypeOK, Slabs, LocalsInv
<1> DEFINE f == free[cur[t]]
           p == <<cur[t], Head(f)>>
<1>a. /\ f \in Seq(Slots) /\ f # <<>>
      /\ \A i, j \in 1..Len(f) : f[i] = f[j] => i = j
  BY <1>0 DEF TypeOK, FreeListInv
<1>b. Head(f) \in Slots /\ Tail(f) \in Seq(Slots) /\ Head(f) \in Range(f)
  <2> HIDE DEF f
  <2>1. QED
    BY <1>a, PopProperties
<1>c. p \in Item /\ p \in Pointer /\ p \in FreeItems(cur[t])
  BY <1>0, <1>b, SlabAssumption DEF Item, Pointer, FreeItems, Slabs, Slots
<1>1. TypeOK'
  BY <1>b, <1>c DEF TypeOK
<1>2. MutexInv'
  BY DEF MutexInv, Holds, TypeOK
<1>3. FreeListInv'
  BY DEF FreeListInv
<1>4. LocalsInv'
  BY <1>0 DEF LocalsInv, TypeOK, Carries, Holds
<1>5. OwnerInv'
  <2>1. p \notin live
    BY <1>0, <1>c DEF OwnerInv, ExclusiveOwnership
  <2>2. \A u \in Threads \ {t} : pc[u] # "pop"
    BY <1>0 DEF Holds
  <2>3. \A u \in Threads \ {t} : Carries(u) => ptr[u] # p
    <3>1. SUFFICES ASSUME NEW u \in Threads \ {t}, Carries(u), ptr[u] = p
                   PROVE  FALSE
      OBVIOUS
    <3>2. ptr[u] \notin FreeItems(ptr[u][1])
      BY <2>2, <3>1 DEF OwnerInv
    <3>3. QED
      BY <3>1, <3>2, <1>c
  <2>4. ptr'[t] = p /\ pc'[t] = "pop"
        /\ \A u \in Threads \ {t} : ptr'[u] = ptr[u] /\ pc'[u] = pc[u]
    BY DEF TypeOK
  <2>5. ExclusiveOwnership'
    BY <2>1, <2>3, <2>4
       DEF OwnerInv, ExclusiveOwnership, Carries, FreeItems
  <2>6. \A u \in Threads : Carries(u)' => ptr'[u][1] <= nSlabs
    BY <1>0, <2>4 DEF OwnerInv, Carries
  <2>7. \A u \in Threads :
          (Carries(u)' /\ pc'[u] # "pop") => ptr'[u] \notin FreeItems(ptr[u][1])
    BY <2>4 DEF OwnerInv, Carries
  <2>8. QED
    <3>1. \A u \in Threads :
            (Carries(u) /\ pc[u] # "pop" => ptr[u] \notin FreeItems(ptr[u][1]))'
      BY <2>4, <2>7 DEF Carries, FreeItems
    <3>2. QED
      BY <2>5, <2>6, <3>1 DEF OwnerInv
<1>6. QED
  BY <1>1, <1>2, <1>3, <1>4, <1>5

LEMMA TakePopStep ==
  ASSUME IInv, NEW t \in Threads, TakePop(t)
  PROVE  IInv'
<1> USE DEF IInv, TakePop, Goto
<1>0. /\ cur[t] \in 1..nSlabs /\ cur[t] \in Slabs /\ nSlabs \in Nat
      /\ \A u \in Threads \ {t} : ~Holds(u)
  <2>1. \A u \in Threads \ {t} : ~Holds(u)
    BY AloneInside DEF Holds
  <2>2. QED
    BY <2>1, SlabAssumption DEF TypeOK, Slabs, LocalsInv
<1> DEFINE f == free[cur[t]]
<1>a. /\ f \in Seq(Slots) /\ f # <<>>
      /\ \A i, j \in 1..Len(f) : f[i] = f[j] => i = j
      /\ snap[t] = Tail(f) /\ ptr[t] = <<cur[t], Head(f)>>
  BY <1>0 DEF TypeOK, FreeListInv, LocalsInv
<1>b. /\ Head(f) \in Slots /\ Tail(f) \in Seq(Slots)
      /\ \A i, j \in 1..Len(Tail(f)) : Tail(f)[i] = Tail(f)[j] => i = j
      /\ Range(Tail(f)) = Range(f) \ {Head(f)}
  <2> HIDE DEF f
  <2>1. QED
    BY <1>a, PopProperties
<1>c. /\ free'[cur[t]] = Tail(f)
      /\ \A s \in Slabs : s # cur[t] => free'[s] = free[s]
  BY <1>0, <1>a DEF TypeOK
<1>1. TypeOK'
  BY <1>0, <1>a, <1>b DEF TypeOK
<1>2. MutexInv'
  BY DEF MutexInv, Holds, TypeOK
<1>3. FreeListInv'
  <2> HIDE DEF f
  <2>1. \A s \in Slabs : s > nSlabs => free'[s] = <<>>
    BY <1>0, <1>c DEF FreeListInv
  <2>2. \A s \in Slabs : \A i, j \in 1..Len(free'[s]) :
          free'[s][i] = free'[s][j] => i = j
    <3>1. SUFFICES ASSUME NEW s \in Slabs
                   PROVE  \A i, j \in 1..Len(free'[s]) :
                            free'[s][i] = free'[s][j] => i = j
      OBVIOUS
    <3>2. CASE s = cur[t]
      <4>1. free'[s] = Tail(f)
        BY <1>c, <3>2
      <4>2. QED
        BY <1>b, <4>1, ZenonT(40)
    <3>3. CASE s # cur[t]
      <4>1. free'[s] = free[s]
        BY <1>c, <3>3
      <4>2. QED
        BY <4>1 DEF FreeListInv
    <3>4. QED
      BY <3>2, <3>3
  <2>3. QED
    BY <2>1, <2>2 DEF FreeListInv
<1>4. LocalsInv'
  BY <1>0 DEF LocalsInv, TypeOK, Carries, Holds
<1>5. OwnerInv'
  <2>1. \A s \in Slabs : FreeItems(s)' \subseteq FreeItems(s)
    BY <1>0, <1>b, <1>c DEF FreeItems
  <2>2. ptr[t] \notin FreeItems(cur[t])'
    BY <1>a, <1>b, <1>c DEF FreeItems
  <2>3. \A u \in Threads \ {t} : pc[u] # "pop" /\ pc'[u] = pc[u]
    BY <1>0 DEF Holds, TypeOK
  <2>4. \A u \in Threads :
         (Carries(u) /\ pc[u] # "pop" => ptr[u] \notin FreeItems(ptr[u][1]))'
    <3>1. SUFFICES ASSUME NEW u \in Threads, ptr[u] \in Item
                   PROVE  ptr[u] \notin FreeItems(ptr[u][1])'
      BY DEF Carries
    <3>2. CASE u = t
      <4>1. ptr[u][1] = cur[t] /\ cur' = cur
        BY <1>a, <3>2
      <4>2. QED
        BY <2>2, <3>2, <4>1 DEF FreeItems
    <3>3. CASE u # t
      BY <2>1, <2>3, <3>1, <3>3 DEF OwnerInv, Carries, Item
    <3>4. QED
      BY <3>2, <3>3
  <2>5. ExclusiveOwnership'
    BY <2>1 DEF OwnerInv, ExclusiveOwnership, Carries
  <2>6. QED
    BY <2>4, <2>5 DEF OwnerInv, Carries
<1>6. QED
  BY <1>1, <1>2, <1>3, <1>4, <1>5

LEMMA ReturnCallStep ==
  ASSUME IInv, NEW t \in Threads, NEW p \in Pointer, ReturnCall(t, p)
  PROVE  IInv'
<1> USE DEF IInv, ReturnCall, Goto
<1>0. /\ \A u \in Threads \ {t} : ptr'[u] = ptr[u] /\ pc'[u] = pc[u]
                                                     /\ cur'[u] = cur[u]
      /\ ptr'[t] = p /\ pc'[t] = "scan"
      /\ cur'[t] = IF p = NULL THEN 0 ELSE 1
      /\ nSlabs \in Nat
      /\ p \in live \/ p \notin Item
  BY SlabAssumption
     DEF TypeOK, Item, NULL, BadPointer, Slabs, Slots
<1>1. TypeOK'
  BY SlabAssumption DEF TypeOK
<1>2. MutexInv'
  BY DEF MutexInv, Holds, TypeOK
<1>3. FreeListInv'
  BY DEF FreeListInv
<1>4. LocalsInv'
  BY <1>0, SlabAssumption DEF LocalsInv, TypeOK, Carries, Item, Slabs, NULL
<1>5. OwnerInv'
  <2>1. p \in live => p[1] <= nSlabs /\ p[1] \in Slabs /\ p \notin FreeItems(p[1])
    BY DEF OwnerInv, ExclusiveOwnership, TypeOK, Item
  <2>2. \A u \in Threads \ {t} : Carries(u) => ptr[u] # p
    BY <1>0 DEF OwnerInv, ExclusiveOwnership, Carries
  <2>3. ExclusiveOwnership'
    BY <1>0, <2>1, <2>2 DEF OwnerInv, ExclusiveOwnership, Carries, FreeItems
  <2>4. \A u \in Threads : (Carries(u) => ptr[u][1] <= nSlabs)'
    BY <1>0, <2>1 DEF OwnerInv, Carries
  <2>5. \A u \in Threads :
         (Carries(u) /\ pc[u] # "pop" => ptr[u] \notin FreeItems(ptr[u][1]))'
    BY <1>0, <2>1 DEF OwnerInv, Carries, FreeItems
  <2>6. QED
    BY <2>3, <2>4, <2>5 DEF OwnerInv
<1>6. QED
  BY <1>1, <1>2, <1>3, <1>4, <1>5

LEMMA ReturnScanStep ==
  ASSUME IInv, NEW t \in Threads, ReturnScan(t)
  PROVE  IInv'
<1> USE DEF IInv, ReturnScan
<1>1. TypeOK'
  BY SlabAssumption DEF TypeOK, Slabs
<1>2. MutexInv'
  BY DEF MutexInv, Holds
<1>3. FreeListInv'
  BY DEF FreeListInv
<1>4. LocalsInv'
  <2>1. Carries(t) => cur'[t] \in 1..ptr[t][1]
    <3>1. SUFFICES ASSUME Carries(t) PROVE cur'[t] \in 1..ptr[t][1]
      OBVIOUS
    <3>2. /\ cur[t] \in 1..ptr[t][1] /\ ptr[t][1] <= nSlabs
          /\ ptr[t][1] \in Nat /\ nSlabs \in Nat
          /\ ptr[t][1] # cur[t]
      BY <3>1, SlabAssumption
         DEF LocalsInv, OwnerInv, TypeOK, Slabs, Carries, Item, Within
    <3>3. cur'[t] = cur[t] + 1
      BY <3>2 DEF TypeOK
    <3>4. QED
      BY <3>2, <3>3
  <2>2. QED
    BY <2>1 DEF LocalsInv, TypeOK, Carries
<1>5. OwnerInv'
  BY DEF OwnerInv, ExclusiveOwnership, Carries, FreeItems
<1>6. QED
  BY <1>1, <1>2, <1>3, <1>4, <1>5

\* A thread that carries an item is never refused.
LEMMA NeverRefused ==
  ASSUME IInv, NEW t \in Threads, ReturnReject(t)
  PROVE  ~Carries(t)
<1>1. SUFFICES ASSUME Carries(t) PROVE FALSE
  OBVIOUS
<1>2. cur[t] \in 1..ptr[t][1] /\ ptr[t][1] \in Nat
  BY <1>1 DEF IInv, LocalsInv, ReturnReject, Goto, Carries, Item, Slabs
<1>3. ptr[t][2] # 0
  BY <1>1 DEF Carries, Item, Slots
<1>4. QED
  BY <1>2, <1>3 DEF ReturnReject

LEMMA ReturnRejectStep ==
  ASSUME IInv, NEW t \in Threads, ReturnReject(t)
  PROVE  IInv'
<1> USE DEF IInv, ReturnReject, Goto, Leave
<1>0. /\ NULL \in Pointer /\ NULL \notin Item
      /\ 0 \in 0..MaxSlabs /\ <<>> \in Seq(Slots)
  BY SlabAssumption, EmptySeq DEF NULL, Pointer, Item, Slabs, Slots
<1>1. TypeOK'
  BY <1>0 DEF TypeOK
<1>2. MutexInv'
  BY DEF MutexInv, Holds, TypeOK
<1>3. FreeListInv'
  BY DEF FreeListInv
<1>4. LocalsInv'
  BY DEF LocalsInv, TypeOK, Carries
<1>5. OwnerInv'
  BY <1>0 DEF OwnerInv, ExclusiveOwnership, Carries, FreeItems, TypeOK
<1>6. QED
  BY <1>1, <1>2, <1>3, <1>4, <1>5

LEMMA ReturnLinkStep ==
  ASSUME IInv, NEW t \in Threads, ReturnLink(t)
  PROVE  IInv'
<1> USE DEF IInv, ReturnLink, Goto
<1>0. \A u \in Threads \ {t} : ~Holds(u)
  BY AloneInside
<1>a. /\ cur[t] \in Slabs /\ ptr[t] = <<cur[t], ptr[t][2]>>
      /\ ptr[t][2] \in Slots /\ Carries(t)
  BY SlabAssumption DEF Within, TypeOK, Pointer, Carries, Item, Slabs, Slots
<1>b. cur[t] \in 1..nSlabs /\ ptr[t][1] = cur[t]
  BY <1>a, SlabAssumption DEF LocalsInv, OwnerInv, TypeOK, Slabs
<1>1. TypeOK'
  BY <1>a DEF TypeOK
<1>2. MutexInv'
  BY SlabAssumption DEF MutexInv, Holds, TypeOK
<1>3. FreeListInv'
  BY DEF FreeListInv
<1>4. LocalsInv'
  BY <1>0, <1>a, <1>b DEF LocalsInv, TypeOK, Carries
<1>5. OwnerInv'
  BY DEF OwnerInv, ExclusiveOwnership, Carries, FreeItems, TypeOK
<1>6. QED
  BY <1>1, <1>2, <1>3, <1>4, <1>5

LEMMA ReturnPushStep ==
  ASSUME IInv, NEW t \in Threads, ReturnPush(t)
  PROVE  IInv'
<1> USE DEF IInv, ReturnPush, Goto
<1>0. /\ cur[t] \in 1..nSlabs /\ cur[t] \in Slabs /\ nSlabs \in Nat
      /\ \A u \in Threads \ {t} : ~Holds(u)
      /\ NULL \in Pointer /\ NULL \notin Item
      /\ pc' = [pc EXCEPT ![t] = "unlock"]
      /\ ptr' = [ptr EXCEPT ![t] = NULL]
      /\ free' = [free EXCEPT ![cur[t]] = <<ptr[t][2]>> \o snap[t]]
      /\ UNCHANGED <<nSlabs, slabMutex, live, cur, snap>>
  <2>1. \A u \in Threads \ {t} : ~Holds(u)
    BY AloneInside DEF Holds
  <2>2. NULL \in Pointer /\ NULL \notin Item
    BY SlabAssumption DEF NULL, Pointer, Item, Slabs, Slots
  <2>3. QED
    BY <2>1, <2>2, SlabAssumption DEF TypeOK, Slabs, LocalsInv
<1> DEFINE f == free[cur[t]]
           k == ptr[t][2]
           g == <<k>> \o f
<1>a. /\ f \in Seq(Slots) /\ snap[t] = f
      /\ \A i, j \in 1..Len(f) : f[i] = f[j] => i = j
      /\ ptr[t] = <<cur[t], k>> /\ k \in Slots /\ ptr[t][1] = cur[t]
      /\ ptr[t] \in Item /\ Carries(t)
  <2>1. Carries(t) /\ ptr[t][1] = cur[t] /\ snap[t] = free[cur[t]]
    BY DEF LocalsInv
  <2>2. \A i, j \in 1..Len(f) : f[i] = f[j] => i = j
    BY <1>0 DEF FreeListInv
  <2>3. QED
    BY <1>0, <2>1, <2>2 DEF TypeOK, Item, Carries
<1>b. k \notin Range(f)
  <2>1. ptr[t] \notin FreeItems(ptr[t][1])
    BY <1>a DEF OwnerInv
  <2>2. QED
    BY <1>a, <2>1 DEF FreeItems
<1>c. /\ g \in Seq(Slots)
      /\ \A i, j \in 1..Len(g) : g[i] = g[j] => i = j
      /\ Range(g) = Range(f) \cup {k}
  <2> HIDE DEF f, k
  <2>1. QED
    BY <1>a, <1>b, PushProperties
<1>d. /\ free'[cur[t]] = g
      /\ \A s \in Slabs : s # cur[t] => free'[s] = free[s]
  BY <1>0, <1>a DEF TypeOK
<1>e. free' = [free EXCEPT ![cur[t]] = g]
  BY <1>0, <1>a
<1>f. /\ pc[t] = "push" /\ NULL \in Pointer
      /\ pc' = [pc EXCEPT ![t] = "unlock"]
      /\ ptr' = [ptr EXCEPT ![t] = NULL]
      /\ UNCHANGED <<nSlabs, slabMutex, live, cur, snap>>
  BY <1>0
<1> HIDE DEF g, ReturnPush
<1>1. TypeOK'
  BY <1>c, <1>e, <1>f DEF TypeOK
<1>2. MutexInv'
  BY <1>f DEF MutexInv, Holds, TypeOK
<1>3. FreeListInv'
  <2> HIDE DEF f, k, g
  <2>1. \A s \in Slabs : s > nSlabs => free'[s] = <<>>
    BY <1>0, <1>d, <1>f DEF FreeListInv
  <2>2. \A s \in Slabs : \A i, j \in 1..Len(free'[s]) :
          free'[s][i] = free'[s][j] => i = j
    <3>1. SUFFICES ASSUME NEW s \in Slabs
                   PROVE  \A i, j \in 1..Len(free'[s]) :
                            free'[s][i] = free'[s][j] => i = j
      OBVIOUS
    <3>2. CASE s = cur[t]
      <4>1. free'[s] = g
        BY <1>d, <3>2
      <4>2. QED
        BY <1>c, <4>1
    <3>3. CASE s # cur[t]
      <4>1. free'[s] = free[s]
        BY <1>d, <3>3
      <4>2. QED
        BY <4>1 DEF FreeListInv
    <3>4. QED
      BY <3>2, <3>3
  <2>3. QED
    BY <2>1, <2>2, <1>f DEF FreeListInv
<1>4. LocalsInv'
  BY <1>0, <1>e, <1>f DEF LocalsInv, TypeOK, Carries, Holds
<1>5. OwnerInv'
  <2>1. \A s \in Slabs : FreeItems(s)' \subseteq FreeItems(s) \cup {ptr[t]}
    <3>1. SUFFICES ASSUME NEW s \in Slabs
                   PROVE  FreeItems(s)' \subseteq FreeItems(s) \cup {ptr[t]}
      OBVIOUS
    <3>2. CASE s = cur[t]
      BY <1>a, <1>c, <1>d, <3>2 DEF FreeItems
    <3>3. CASE s # cur[t]
      BY <1>d, <3>3 DEF FreeItems
    <3>4. QED
      BY <3>2, <3>3
  <2>2. /\ ~Carries(t)'
        /\ \A u \in Threads \ {t} :
             ptr'[u] = ptr[u] /\ pc'[u] = pc[u] /\ pc[u] # "pop"
    BY <1>0, <1>f DEF TypeOK, Carries, Holds
  <2>3. ptr[t] \notin live
        /\ \A u \in Threads \ {t} : Carries(u) => ptr[u] # ptr[t]
    BY <1>a DEF OwnerInv, ExclusiveOwnership
  <2>4. \A u \in Threads :
         (Carries(u) /\ pc[u] # "pop" => ptr[u] \notin FreeItems(ptr[u][1]))'
    <3>1. SUFFICES ASSUME NEW u \in Threads, Carries(u)'
                   PROVE  (ptr[u] \notin FreeItems(ptr[u][1]))'
      OBVIOUS
    <3>2. u # t /\ ptr'[u] = ptr[u] /\ Carries(u) /\ pc[u] # "pop"
      BY <2>2, <3>1 DEF Carries
    <3>3. ptr[u] \notin FreeItems(ptr[u][1]) /\ ptr[u] # ptr[t] /\ ptr[u][1] \in Slabs
      BY <2>3, <3>2 DEF OwnerInv, Carries, Item
    <3>4. \A s \in Slabs : s = ptr[u][1] => ptr[u] \notin FreeItems(s)'
      BY <2>1, <3>3
    <3>5. QED
      BY <3>2, <3>3, <3>4 DEF FreeItems
  <2>5. ExclusiveOwnership'
    BY <1>f, <2>1, <2>2, <2>3 DEF OwnerInv, ExclusiveOwnership, Carries
  <2>6. QED
    BY <1>f, <2>2, <2>4, <2>5 DEF OwnerInv, Carries
<1>6. QED
  BY <1>1, <1>2, <1>3, <1>4, <1>5

LEMMA ResetAllStep ==
  ASSUME IInv, NEW t \in Threads, ResetAll(t)
  PROVE  IInv'
<1> USE DEF IInv, ResetAll, Goto
<1>0. \A u \in Threads : ~Holds(u)
  BY SlabAssumption DEF MutexInv
<1>1. TypeOK'
  BY FullListProperties DEF TypeOK
<1>2. MutexInv'
  BY SlabAssumption DEF MutexInv, Holds, TypeOK
<1>3. FreeListInv'
  BY FullListProperties, SlabAssumption, SMTT(20) DEF FreeListInv, TypeOK, Slabs
<1>4. LocalsInv'
  BY <1>0 DEF LocalsInv, TypeOK, Carries, Holds
<1>5. OwnerInv'
  BY DEF OwnerInv, ExclusiveOwnership, Carries
<1>6. QED
  BY <1>1, <1>2, <1>3, <1>4, <1>5

LEMMA UnlockStep ==
  ASSUME IInv, NEW t \in Threads, Unlock(t)
  PROVE  IInv'
<1> USE DEF IInv, Unlock, Goto, Leave
<1>0. /\ NULL \in Pointer /\ NULL \notin Item
      /\ 0 \in 0..MaxSlabs /\ <<>> \in Seq(Slots)
      /\ nSlabs \in Nat
  BY SlabAssumption, EmptySeq DEF NULL, Pointer, Item, Slabs, Slots, TypeOK
<1>a. /\ ptr'[t] = NULL /\ pc'[t] = "idle"
      /\ \A u \in Threads \ {t} : ptr'[u] = ptr[u] /\ pc'[u] = pc[u]
      /\ live' = IF Carries(t) THEN live \cup {ptr[t]} ELSE live
  BY DEF TypeOK, Carries
<1>1. TypeOK'
  BY <1>0, <1>a DEF TypeOK, Carries
<1>2. MutexInv'
  BY SlabAssumption DEF MutexInv, Holds, TypeOK
<1>3. FreeListInv'
  BY DEF FreeListInv
<1>4. LocalsInv'
  BY DEF LocalsInv, TypeOK, Carries
<1>5. OwnerInv'
  <2>1. Carries(t) => /\ ptr[t][1] \in 1..nSlabs /\ ptr[t][2] \in Slots
                      /\ ptr[t] = <<ptr[t][1], ptr[t][2]>>
                      /\ ptr[t] \notin FreeItems(ptr[t][1])
    BY <1>0 DEF OwnerInv, Carries, Item, Slabs
  <2>2. live' \subseteq (1..nSlabs) \X Slots
    <3>1. Carries(t) => ptr[t] \in (1..nSlabs) \X Slots
      BY <2>1
    <3>2. QED
      BY <1>a, <3>1 DEF OwnerInv
  <2>3. \A s \in Slabs : FreeItems(s) \cap live' = {}
    BY <1>a, <2>1 DEF OwnerInv, ExclusiveOwnership, FreeItems
  <2>4. \A u \in Threads : Carries(u)' =>
           /\ u # t /\ Carries(u)
           /\ ptr'[u] \notin live'
           /\ \A v \in Threads \ {u} : Carries(v)' => ptr'[v] # ptr'[u]
    BY <1>0, <1>a DEF OwnerInv, ExclusiveOwnership, Carries
  <2>5. ExclusiveOwnership'
    BY <2>3, <2>4 DEF ExclusiveOwnership, FreeItems
  <2>6. \A u \in Threads : (Carries(u) => ptr[u][1] <= nSlabs)'
    BY <1>a, <2>4 DEF OwnerInv
  <2>7. \A u \in Threads :
         (Carries(u) /\ pc[u] # "pop" => ptr[u] \notin FreeItems(ptr[u][1]))'
    BY <1>a, <2>4 DEF OwnerInv, FreeItems
  <2>8. QED
    BY <2>2, <2>5, <2>6, <2>7 DEF OwnerInv
<1>6. QED
  BY <1>1, <1>2, <1>3, <1>4, <1>5

LEMMA StutterStep ==
  ASSUME IInv, UNCHANGED vars
  PROVE  IInv'
  BY DEF IInv, vars, TypeOK, MutexInv, Holds, FreeListInv, LocalsInv, OwnerInv,
         ExclusiveOwnership, Carries, FreeItems

LEMMA StepIInv == IInv /\ [Next]_vars => IInv'
<1> SUFFICES ASSUME IInv, [Next]_vars PROVE IInv'
  OBVIOUS
<1>1. CASE UNCHANGED vars
  BY <1>1, StutterStep
<1>2. ASSUME NEW t \in Threads, Take(t) PROVE IInv'
  BY <1>2, TakeLockStep, TakeNextSlabStep, TakeGrowStep, TakeOOMStep,
     TakeHeadStep, TakePopStep DEF Take
<1>3. ASSUME NEW t \in Threads, Return(t) PROVE IInv'
  BY <1>3, ReturnCallStep, ReturnScanStep, ReturnRejectStep, ReturnLinkStep,
     ReturnPushStep DEF Return
<1>4. ASSUME NEW t \in Threads, ResetAll(t) PROVE IInv'
  BY <1>4, ResetAllStep
<1>5. ASSUME NEW t \in Threads, Unlock(t) PROVE IInv'
  BY <1>5, UnlockStep
<1>6. QED
  BY <1>1, <1>2, <1>3, <1>4, <1>5 DEF Next

LEMMA Inductive == Spec => []IInv
  BY InitIInv, StepIInv, PTL DEF Spec

-----------------------------------------------------------------------------
\* Type correctness of the allocator (every local of CS_slabTake and
\* CS_slabReturn stays inside the chain).
THEOREM TypeCorrect == Spec => []TypeOK
<1>1. IInv => TypeOK
  BY DEF IInv
<1>2. QED
  BY <1>1, Inductive, PTL

\* CS_slabTake never hands one item to two owners, however takes, returns,
\* growth and resets interleave.
THEOREM Exclusive == Spec => []ExclusiveOwnership
<1>1. IInv => ExclusiveOwnership
  BY DEF IInv, OwnerInv
<1>2. QED
  BY <1>1, Inductive, PTL

\* The unlocked walk of CS_slabReturn never refuses an item the allocator
\* handed out.
THEOREM OwnReturn == Spec => OwnReturnAccepted
<1> DEFINE A == \A t \in Threads :
                  (pc[t] = "scan" /\ pc'[t] = "idle") => ~Carries(t)
<1>1. IInv /\ [Next]_vars => [A]_vars
  <2>1. SUFFICES ASSUME IInv, Next, NEW t \in Threads,
                        pc[t] = "scan", pc'[t] = "idle"
                 PROVE  ~Carries(t)
    OBVIOUS
  <2>2. PICK u \in Threads : Take(u) \/ Return(u) \/ ResetAll(u) \/ Unlock(u)
    BY <2>1 DEF Next
  <2>3. pc \in [Threads -> {"idle", "walk", "pop", "unlock", "scan", "push"}]
    BY <2>1 DEF IInv, TypeOK
  <2>4. CASE Take(u)
    BY <2>1, <2>3, <2>4 DEF Take, Goto, TakeLock, TakeNextSlab, TakeGrow,
                            TakeOOM, TakeHead, TakePop
  <2>5. CASE ReturnReject(u)
    <3>1. u = t
      BY <2>1, <2>3, <2>5 DEF ReturnReject, Goto
    <3>2. QED
      BY <2>1, <2>5, <3>1, NeverRefused
  <2>6. CASE Return(u) /\ ~ReturnReject(u)
    BY <2>1, <2>3, <2>6 DEF Return, Goto, ReturnCall, ReturnScan, ReturnLink,
                            ReturnPush
  <2>7. CASE ResetAll(u) \/ Unlock(u)
    BY <2>1, <2>3, <2>7 DEF ResetAll, Unlock, Goto
  <2>8. QED
    BY <2>2, <2>4, <2>5, <2>6, <2>7
<1>2. QED
  BY <1>1, Inductive, PTL DEF Spec, OwnReturnAccepted

\* CS_slabTake answers NULL only when the whole chain was exhausted.
THEOREM FailsExhausted == Spec => FailsOnlyWhenExhausted
<1> DEFINE A == \A t \in Threads :
                  (pc[t] = "walk" /\ pc'[t] = "unlock") =>
                     \A s \in 1..nSlabs : free[s] = <<>>
<1>1. IInv /\ [Next]_vars => [A]_vars
  <2>1. SUFFICES ASSUME IInv, Next, NEW t \in Threads,
                        pc[t] = "walk", pc'[t] = "unlock"
                 PROVE  \A s \in 1..nSlabs : free[s] = <<>>
    OBVIOUS
  <2>2. PICK u \in Threads : Take(u) \/ Return(u) \/ ResetAll(u) \/ Unlock(u)
    BY <2>1 DEF Next
  <2>3. pc \in [Threads -> {"idle", "walk", "pop", "unlock", "scan", "push"}]
    BY <2>1 DEF IInv, TypeOK
  <2>4. TakeOOM(t)
    <3>1. CASE Take(u)
      BY <2>1, <2>3, <3>1 DEF Take, Goto, TakeLock, TakeNextSlab, TakeGrow,
                              TakeOOM, TakeHead, TakePop
    <3>2. CASE Return(u)
      BY <2>1, <2>3, <3>2 DEF Return, Goto, ReturnCall, ReturnScan, ReturnLink,
                              ReturnReject, ReturnPush
    <3>3. CASE ResetAll(u) \/ Unlock(u)
      BY <2>1, <2>3, <3>3 DEF ResetAll, Unlock, Goto
    <3>4. QED
      BY <2>2, <3>1, <3>2, <3>3
  <2>5. /\ free[cur[t]] = <<>> /\ cur[t] = nSlabs /\ nSlabs \in Nat
        /\ \A s \in 1..(cur[t] - 1) : free[s] = <<>>
    BY <2>1, <2>4, SlabAssumption
       DEF TakeOOM, Goto, IInv, LocalsInv, TypeOK, Slabs
  <2>6. \A s \in 1..nSlabs : s = cur[t] \/ s \in 1..(cur[t] - 1)
    BY <2>5
  <2>7. QED
    BY <2>5, <2>6
<1>2. QED
  BY <1>1, Inductive, PTL DEF Spec, FailsOnlyWhenExhausted

-----------------------------------------------------------------------------
(***************************************************************************)
(* SlabAlloc implements the pool of SlabPool.                              *)
(***************************************************************************)

\* An item is accounted for: held by the program, carried by a thread, or
\* on the free list of its slab.
Accounted(p) ==
  p \in live \/ (\E t \in Threads : ptr[t] = p) \/ p[2] \in Range(free[p[1]])

InChain == (1..nSlabs) \X Slots

LEMMA ChainItems ==
  ASSUME TypeOK
  PROVE  /\ nSlabs \in Nat
         /\ \A p \in InChain : p \in Item /\ p[1] \in Slabs /\ p[1] <= nSlabs
                               /\ p[2] \in Slots /\ p = <<p[1], p[2]>>
         /\ \A p \in Item : p[1] <= nSlabs => p \in InChain
         /\ NULL \notin Item
  BY SlabAssumption DEF TypeOK, InChain, Slabs, Item, Slots, NULL

\* NothingLost, read one item at a time.
LEMMA NothingLostPointwise ==
  ASSUME TypeOK
  PROVE  NothingLost <=> \A p \in InChain : Accounted(p)
<1>1. ASSUME NEW p \in InChain
      PROVE  /\ p \in Outstanding <=> (p \in live \/ \E t \in Threads : ptr[t] = p)
             /\ (\E s \in Slabs : p \in FreeItems(s)) <=> p[2] \in Range(free[p[1]])
  <2>1. p \in Item /\ p[1] \in Slabs /\ p = <<p[1], p[2]>>
    BY <1>1, ChainItems
  <2>2. p \in Outstanding <=> (p \in live \/ \E t \in Threads : ptr[t] = p)
    BY <2>1 DEF Outstanding, Carries
  <2>3. (\E s \in Slabs : p \in FreeItems(s)) <=> p[2] \in Range(free[p[1]])
    BY <2>1 DEF FreeItems
  <2>4. QED
    BY <2>2, <2>3
<1>2. QED
  BY <1>1 DEF NothingLost, InChain, Accounted

\* Every slot of a fresh slab is on its free list.
LEMMA FullListCovers == \A k \in Slots : k \in Range(FullList)
<1>1. SUFFICES ASSUME NEW k \in Slots PROVE k \in Range(FullList)
  OBVIOUS
<1>2. FullList[k] = k /\ k \in 1..Len(FullList)
  BY SlabAssumption, FullListProperties DEF FullList, Slots
<1>3. QED
  BY <1>2, FullListProperties, RangeOfList

-----------------------------------------------------------------------------
(* Nothing is lost, action by action.                                       *)

LEMMA InitNothingLost == Init => NothingLost
<1>1. SUFFICES ASSUME Init PROVE NothingLost
  OBVIOUS
<1>2. TypeOK
  BY <1>1, InitIInv DEF IInv
<1>3. \A p \in InChain : Accounted(p)
  BY <1>1, <1>2, ChainItems, FullListCovers DEF Init, Accounted, InChain
<1>4. QED
  BY <1>2, <1>3, NothingLostPointwise

\* Takes: growth adds a full list, and the item unlinked is the one carried.
LEMMA TakeNothingLost ==
  ASSUME TypeOK, IInv, TypeOK', \A p \in InChain : Accounted(p),
         NEW t \in Threads, Take(t), NEW p \in InChain'
  PROVE  Accounted(p)'
<1>1. CASE TakeLock(t) \/ TakeNextSlab(t) \/ TakeOOM(t)
  BY <1>1 DEF TakeLock, TakeNextSlab, TakeOOM, Accounted, InChain
<1>2. CASE TakeGrow(t)
  <2>1. /\ nSlabs' = nSlabs + 1 /\ nSlabs \in Nat /\ nSlabs + 1 \in Slabs
        /\ free' = [free EXCEPT ![nSlabs + 1] = FullList]
        /\ live' = live /\ ptr' = ptr
    BY <1>2, SlabAssumption DEF TakeGrow, TypeOK, Slabs
  <2>2. CASE p[1] = nSlabs + 1
    <3>1. free'[p[1]] = FullList /\ p[2] \in Slots
      BY <2>1, <2>2 DEF TypeOK, InChain
    <3>2. QED
      BY <3>1, FullListCovers DEF Accounted
  <2>3. CASE p[1] # nSlabs + 1
    <3>1. p \in InChain /\ free'[p[1]] = free[p[1]]
      BY <2>1, <2>3 DEF TypeOK, InChain, Slabs
    <3>2. QED
      BY <2>1, <3>1 DEF Accounted
  <2>4. QED
    BY <2>2, <2>3
<1>3. CASE TakeHead(t)
  <2>1. /\ p \in InChain /\ Accounted(p) /\ live' = live /\ free' = free
        /\ \A u \in Threads \ {t} : ptr'[u] = ptr[u]
        /\ ptr[t] = NULL /\ p # NULL
    BY <1>3, ChainItems DEF TakeHead, Goto, InChain, IInv, LocalsInv, TypeOK
  <2>2. QED
    BY <2>1 DEF Accounted
<1>4. CASE TakePop(t)
  <2> DEFINE f == free[cur[t]]
  <2>1. /\ p \in InChain /\ Accounted(p) /\ live' = live /\ ptr' = ptr
        /\ cur[t] \in Slabs
        /\ ptr[t] = <<cur[t], Head(f)>> /\ snap[t] = Tail(f)
        /\ free' = [free EXCEPT ![cur[t]] = snap[t]]
        /\ f \in Seq(Slots) /\ f # <<>>
        /\ \A i, j \in 1..Len(f) : f[i] = f[j] => i = j
    BY <1>4, SlabAssumption, SMTT(20)
       DEF TakePop, Goto, InChain, IInv, LocalsInv, FreeListInv, TypeOK, Slabs
  <2>2. Range(Tail(f)) = Range(f) \ {Head(f)}
    <3> HIDE DEF f
    <3>1. QED
      BY <2>1, PopProperties
  <2>3. CASE p[1] = cur[t]
    <3>1. free'[p[1]] = Tail(f) /\ p = <<cur[t], p[2]>>
      BY <2>1, <2>3, ChainItems DEF TypeOK
    <3>2. CASE p[2] = Head(f)
      BY <2>1, <3>1, <3>2 DEF Accounted
    <3>3. CASE p[2] # Head(f)
      BY <2>1, <2>2, <2>3, <3>1, <3>3 DEF Accounted
    <3>4. QED
      BY <3>2, <3>3
  <2>4. CASE p[1] # cur[t]
    <3>1. free'[p[1]] = free[p[1]]
      BY <2>1, <2>4, ChainItems DEF TypeOK
    <3>2. QED
      BY <2>1, <3>1 DEF Accounted
  <2>5. QED
    BY <2>3, <2>4
<1>5. QED
  BY <1>1, <1>2, <1>3, <1>4 DEF Take

\* Returns: the item travels from the holder to the thread to the list, and
\* what is refused was no item.
LEMMA ReturnNothingLost ==
  ASSUME TypeOK, IInv, TypeOK', \A p \in InChain : Accounted(p),
         NEW t \in Threads, Return(t), NEW p \in InChain'
  PROVE  Accounted(p)'
<1>0. p \in InChain /\ Accounted(p) /\ p \in Item /\ p[1] \in Slabs
      /\ p = <<p[1], p[2]>>
  BY ChainItems DEF Return, ReturnCall, ReturnScan, ReturnReject, ReturnLink,
                    ReturnPush, InChain
<1>1. CASE ReturnScan(t) \/ ReturnLink(t)
  BY <1>0, <1>1 DEF ReturnScan, ReturnLink, Accounted
<1>2. ASSUME NEW q \in Pointer, ReturnCall(t, q) PROVE Accounted(p)'
  <2>1. /\ free' = free /\ live' = live \ {q}
        /\ ptr[t] = NULL /\ ptr'[t] = q
        /\ \A u \in Threads \ {t} : ptr'[u] = ptr[u]
    BY <1>2 DEF ReturnCall, Goto, IInv, LocalsInv, TypeOK
  <2>2. p # NULL
    BY <1>0, ChainItems
  <2>3. QED
    BY <1>0, <2>1, <2>2 DEF Accounted
<1>3. CASE ReturnReject(t)
  <2>1. /\ free' = free /\ live' = live /\ ~Carries(t)
        /\ \A u \in Threads \ {t} : ptr'[u] = ptr[u]
    BY <1>3, NeverRefused DEF ReturnReject, Leave, TypeOK
  <2>2. QED
    BY <1>0, <2>1 DEF Accounted, Carries
<1>4. CASE ReturnPush(t)
  <2> DEFINE f == free[cur[t]]
             k == ptr[t][2]
  <2>a. /\ pc[t] = "push" /\ cur[t] \in Slabs
        /\ ptr[t] \in Item /\ Carries(t) /\ ptr[t][1] = cur[t]
        /\ snap[t] = f
    BY <1>4, SlabAssumption
       DEF ReturnPush, Goto, IInv, LocalsInv, TypeOK, Slabs, Carries
  <2>b. /\ live' = live
        /\ free' = [free EXCEPT ![cur[t]] = <<k>> \o f]
        /\ \A u \in Threads \ {t} : ptr'[u] = ptr[u]
    BY <1>4, <2>a DEF ReturnPush, TypeOK
  <2>c. /\ f \in Seq(Slots)
        /\ \A i, j \in 1..Len(f) : f[i] = f[j] => i = j
    BY <2>a DEF IInv, FreeListInv, TypeOK
  <2>1. /\ ptr[t] = <<cur[t], k>> /\ k \in Slots
        /\ free'[cur[t]] = <<k>> \o f
        /\ \A s \in Slabs : s # cur[t] => free'[s] = free[s]
    <3>1. ptr[t] = <<cur[t], k>> /\ k \in Slots
      BY <2>a DEF Item
    <3> HIDE DEF k
    <3>2. QED
      BY <2>a, <2>b, <3>1 DEF TypeOK
  <2>2. k \notin Range(f)
    <3>1. ptr[t] \notin FreeItems(ptr[t][1])
      BY <2>a DEF IInv, OwnerInv
    <3>2. QED
      BY <2>1, <2>a, <3>1 DEF FreeItems
  <2>3. Range(<<k>> \o f) = Range(f) \cup {k}
    <3> HIDE DEF f, k
    <3>1. QED
      BY <2>c, <2>1, <2>2, PushProperties
  <2>4. CASE p = ptr[t]
    BY <2>a, <2>1, <2>3, <2>4 DEF Accounted
  <2>5. CASE p # ptr[t]
    BY <1>0, <2>b, <2>1, <2>3, <2>5 DEF Accounted
  <2>6. QED
    BY <2>4, <2>5
<1>5. QED
  BY <1>1, <1>2, <1>3, <1>4 DEF Return

LEMMA EndNothingLost ==
  ASSUME TypeOK, IInv, TypeOK', \A p \in InChain : Accounted(p),
         NEW t \in Threads, ResetAll(t) \/ Unlock(t), NEW p \in InChain'
  PROVE  Accounted(p)'
<1>0. p \in InChain /\ Accounted(p) /\ p \in Item /\ p[1] \in Slabs
      /\ p[1] <= nSlabs /\ p[2] \in Slots
  BY ChainItems DEF ResetAll, Unlock, InChain
<1>1. CASE ResetAll(t)
  <2>1. free'[p[1]] = FullList
    BY <1>0, <1>1 DEF ResetAll
  <2>2. QED
    BY <1>0, <2>1, FullListCovers DEF Accounted
<1>2. CASE Unlock(t)
  <2>1. /\ free' = free /\ live' = live \cup ({ptr[t]} \cap Item)
        /\ \A u \in Threads \ {t} : ptr'[u] = ptr[u]
    BY <1>2 DEF Unlock, Leave, TypeOK
  <2>2. QED
    BY <1>0, <2>1 DEF Accounted
<1>3. QED
  BY <1>1, <1>2

LEMMA StepNothingLost ==
  ASSUME IInv, IInv', NothingLost, [Next]_vars
  PROVE  NothingLost'
<1>1. TypeOK /\ TypeOK'
  BY DEF IInv
<1>2. \A p \in InChain : Accounted(p)
  BY <1>1, NothingLostPointwise
<1>3. CASE UNCHANGED vars
  BY <1>3 DEF vars, NothingLost, Outstanding, Carries, FreeItems
<1>4. CASE Next
  <2>1. ASSUME NEW p \in InChain' PROVE Accounted(p)'
    BY <1>1, <1>2, <1>4, <2>1, TakeNothingLost, ReturnNothingLost,
       EndNothingLost DEF Next
  <2>2. (\A p \in InChain : Accounted(p))'
    BY <2>1
  <2>3. (TypeOK => (NothingLost <=> \A p \in InChain : Accounted(p)))'
    BY NothingLostPointwise, PTL
  <2>4. QED
    BY <1>1, <2>2, <2>3
<1>5. QED
  BY <1>3, <1>4

\* No item of slaballoc.c is ever lost: it is held, on its way, or free.
THEOREM NoItemLost == Spec => []NothingLost
<1>1. IInv /\ NothingLost /\ [Next]_vars => NothingLost'
  BY StepIInv, StepNothingLost
<1>2. QED
  BY <1>1, InitNothingLost, Inductive, PTL DEF Spec

-----------------------------------------------------------------------------
(* The refinement: the items out of the pool are those the program holds    *)
(* and those a thread carries.                                              *)

LEMMA OutstandingPointwise ==
  ASSUME TypeOK
  PROVE  /\ Outstanding \subseteq Item
         /\ \A p \in Item : p \in Outstanding
                              <=> (p \in live \/ \E t \in Threads : ptr[t] = p)
  BY DEF Outstanding, Carries, TypeOK

LEMMA InitPool == Init => Pool!PoolInit
<1>1. SUFFICES ASSUME Init PROVE Pool!PoolInit
  OBVIOUS
<1>2. \A t \in Threads : ~Carries(t)
  BY <1>1, SlabAssumption DEF Init, Carries, NULL, Item, Slabs
<1>3. QED
  BY <1>1, <1>2 DEF Init, Outstanding, Pool!PoolInit

\* The bookkeeping of a call changes neither the chain nor who owns what.
LEMMA QuietStep ==
  ASSUME IInv, IInv', NEW t \in Threads,
         \/ TakeLock(t) \/ TakeNextSlab(t) \/ TakeOOM(t) \/ TakePop(t)
         \/ ReturnScan(t) \/ ReturnReject(t) \/ ReturnLink(t) \/ Unlock(t)
         \/ \E p \in Pointer : ReturnCall(t, p)
  PROVE  UNCHANGED Pool!poolVars
<1>a. TypeOK /\ TypeOK' /\ NULL \notin Item
  BY ChainItems DEF IInv
<1>1. CASE \/ TakeLock(t) \/ TakeNextSlab(t) \/ TakeOOM(t) \/ TakePop(t)
           \/ ReturnScan(t) \/ ReturnLink(t)
  BY <1>1 DEF TakeLock, TakeNextSlab, TakeOOM, TakePop, ReturnScan, ReturnLink,
              Outstanding, Carries, Pool!poolVars
<1>2. CASE ReturnReject(t)
  <2>1. ~Carries(t)
    BY <1>2, NeverRefused
  <2>2. /\ live' = live /\ nSlabs' = nSlabs /\ ptr'[t] = NULL
        /\ \A u \in Threads \ {t} : ptr'[u] = ptr[u]
    BY <1>a, <1>2 DEF ReturnReject, Leave, TypeOK
  <2>3. Outstanding' = Outstanding
    BY <1>a, <2>1, <2>2 DEF Outstanding, Carries
  <2>4. QED
    BY <2>2, <2>3 DEF Pool!poolVars
<1>3. CASE Unlock(t)
  <2>1. /\ live' = live \cup ({ptr[t]} \cap Item) /\ nSlabs' = nSlabs
        /\ ptr'[t] = NULL
        /\ \A u \in Threads \ {t} : ptr'[u] = ptr[u]
    BY <1>a, <1>3 DEF Unlock, Leave, TypeOK
  <2>2. Outstanding' = Outstanding
    BY <1>a, <2>1 DEF Outstanding, Carries
  <2>3. QED
    BY <2>1, <2>2 DEF Pool!poolVars
<1>4. ASSUME NEW p \in Pointer, ReturnCall(t, p)
      PROVE  UNCHANGED Pool!poolVars
  <2>1. /\ live' = live \ {p} /\ nSlabs' = nSlabs /\ p \in live \cup BadPointer
        /\ ptr[t] = NULL /\ ptr'[t] = p
        /\ \A u \in Threads \ {t} : ptr'[u] = ptr[u]
    BY <1>a, <1>4 DEF ReturnCall, Goto, IInv, LocalsInv, TypeOK
  <2>2. p \in live <=> p \in Item
    BY <1>a, <2>1 DEF BadPointer, TypeOK, Item, Slabs, Slots, NULL
  <2>3. Outstanding' = Outstanding
    BY <1>a, <2>1, <2>2 DEF Outstanding, Carries, TypeOK
  <2>4. QED
    BY <2>1, <2>3 DEF Pool!poolVars
<1>5. QED
  BY <1>1, <1>2, <1>3, <1>4

\* A take hands an item out when it reads the head of the list.
LEMMA TakeHeadHandsOut ==
  ASSUME IInv, NEW t \in Threads, TakeHead(t)
  PROVE  \E i \in Item : Pool!HandOut(i)
<1> DEFINE f == free[cur[t]]
           p == <<cur[t], Head(f)>>
<1>a. TypeOK /\ cur[t] \in 1..nSlabs /\ ptr[t] = NULL
  BY DEF TakeHead, Goto, IInv, LocalsInv
<1>b. cur[t] \in Slabs /\ nSlabs \in Nat
  BY <1>a, SlabAssumption DEF TypeOK, Slabs
<1>c. /\ f \in Seq(Slots) /\ f # <<>>
      /\ \A i, j \in 1..Len(f) : f[i] = f[j] => i = j
  BY <1>a, <1>b DEF TakeHead, IInv, FreeListInv, TypeOK
<1>1. /\ cur[t] \in 1..nSlabs /\ cur[t] \in Slabs /\ nSlabs \in Nat
      /\ f \in Seq(Slots) /\ f # <<>>
      /\ \A i, j \in 1..Len(f) : f[i] = f[j] => i = j
      /\ ptr[t] = NULL /\ TypeOK
  BY <1>a, <1>b, <1>c
<1>2. Head(f) \in Slots /\ Head(f) \in Range(f)
  <2> HIDE DEF f
  <2>1. QED
    BY <1>1, PopProperties
<1>3. p \in Item /\ p \in Pool!ItemsOf(nSlabs) /\ p \in FreeItems(cur[t])
  BY <1>1, <1>2 DEF Item, FreeItems, Pool!ItemsOf, Slots
<1>4. p \notin Outstanding
  <2>1. p \notin live
    BY <1>1, <1>3 DEF IInv, OwnerInv, ExclusiveOwnership
  <2>2. ASSUME NEW u \in Threads, ptr[u] = p PROVE FALSE
    <3>1. u # t
      BY <1>1, <1>3, <2>2, ChainItems
    <3>2. pc[u] # "pop"
      BY <3>1, AloneInside DEF IInv, TakeHead, Goto, Holds
    <3>3. ptr[u] \notin FreeItems(ptr[u][1])
      BY <1>3, <2>2, <3>2 DEF IInv, OwnerInv, Carries
    <3>4. QED
      BY <1>3, <2>2, <3>3
  <2>3. QED
    BY <1>1, <1>3, <2>1, <2>2, OutstandingPointwise
<1>5. /\ live' = live /\ nSlabs' = nSlabs /\ ptr'[t] = p
      /\ \A u \in Threads \ {t} : ptr'[u] = ptr[u]
  BY <1>1 DEF TakeHead, TypeOK
<1>6. Outstanding' = Outstanding \cup {p}
  <2> HIDE DEF p
  <2>1. QED
    BY <1>1, <1>3, <1>5, ChainItems DEF Outstanding, Carries
<1>7. Pool!HandOut(p)
  <2> HIDE DEF p
  <2>1. QED
    BY <1>3, <1>4, <1>5, <1>6 DEF Pool!HandOut
<1>8. QED
  BY <1>3, <1>7

\* A return gives the item back when the list's head is stored.
LEMMA ReturnPushGivesBack ==
  ASSUME IInv, NEW t \in Threads, ReturnPush(t)
  PROVE  \E i \in Item : Pool!GiveBack(i)
<1>1. TypeOK /\ Carries(t) /\ ptr[t] \in Item /\ NULL \notin Item
  BY ChainItems DEF IInv, LocalsInv, ReturnPush, Goto, Carries
<1>2. ptr[t] \in Outstanding
  BY <1>1 DEF Outstanding
<1>3. /\ ptr[t] \notin live
      /\ \A u \in Threads \ {t} : ptr[u] # ptr[t]
  BY <1>1 DEF IInv, OwnerInv, ExclusiveOwnership, Carries
<1>4. /\ live' = live /\ nSlabs' = nSlabs /\ ptr'[t] = NULL
      /\ \A u \in Threads \ {t} : ptr'[u] = ptr[u]
  BY <1>1 DEF ReturnPush, TypeOK
<1>5. Outstanding' = Outstanding \ {ptr[t]}
  BY <1>1, <1>3, <1>4 DEF Outstanding, Carries
<1>6. QED
  BY <1>1, <1>2, <1>4, <1>5 DEF Pool!GiveBack

\* The chain grows only when every item of it is out: here nothing is lost.
LEMMA TakeGrowGrows ==
  ASSUME IInv, NothingLost, NEW t \in Threads, TakeGrow(t)
  PROVE  Pool!Grow
<1>a. TypeOK
  BY DEF IInv
<1>1. /\ TypeOK /\ nSlabs \in Nat /\ cur[t] = nSlabs
      /\ \A s \in 1..(cur[t] - 1) : free[s] = <<>>
      /\ free[cur[t]] = <<>>
  BY <1>a, ChainItems DEF TakeGrow, IInv, LocalsInv
<1>2. \A s \in 1..nSlabs : free[s] = <<>>
  <2>1. \A s \in 1..nSlabs : s = cur[t] \/ s \in 1..(cur[t] - 1)
    BY <1>1
  <2>2. QED
    BY <1>1, <2>1
<1>3. ASSUME NEW p \in InChain PROVE p \in Outstanding
  <2>1. p \in Item /\ free[p[1]] = <<>> /\ Accounted(p)
    BY <1>1, <1>2, ChainItems, NothingLostPointwise DEF InChain
  <2>2. p[2] \notin Range(free[p[1]])
    BY <2>1, EmptySeq DEF Range
  <2>3. QED
    BY <1>1, <2>1, <2>2, OutstandingPointwise DEF Accounted
<1>4. ASSUME NEW p \in Outstanding PROVE p \in InChain
  <2>1. p \in Item /\ (p \in live \/ \E u \in Threads : ptr[u] = p)
    BY <1>1, OutstandingPointwise
  <2>2. p[1] <= nSlabs
    BY <1>1, <2>1 DEF IInv, OwnerInv, Carries
  <2>3. QED
    BY <1>1, <2>1, <2>2, ChainItems
<1>5. Outstanding = Pool!ItemsOf(nSlabs)
  BY <1>3, <1>4 DEF InChain, Pool!ItemsOf, Slots
<1>6. nSlabs < MaxSlabs /\ nSlabs' = nSlabs + 1 /\ Outstanding' = Outstanding
  BY DEF TakeGrow, Outstanding, Carries
<1>7. QED
  BY <1>5, <1>6 DEF Pool!Grow

LEMMA ResetAllResets ==
  ASSUME NEW t \in Threads, ResetAll(t)
  PROVE  Pool!Reset
  BY DEF ResetAll, Outstanding, Carries, Pool!Reset

\* SlabAlloc implements SlabPool: an item goes to one holder at a time, only
\* what is out comes back, and memory is asked for only when all items are
\* out.
THEOREM RefinesPool == Spec => ImplementsPool
<1>1. IInv /\ IInv' /\ NothingLost /\ [Next]_vars
        => [Pool!PoolNext]_(Pool!poolVars)
  <2>1. SUFFICES ASSUME IInv, IInv', NothingLost, [Next]_vars
                 PROVE  Pool!PoolNext \/ UNCHANGED Pool!poolVars
    OBVIOUS
  <2>2. CASE UNCHANGED vars
    BY <2>2 DEF vars, Outstanding, Carries, Pool!poolVars
  <2>3. ASSUME NEW t \in Threads, Take(t)
        PROVE  Pool!PoolNext \/ UNCHANGED Pool!poolVars
    BY <2>1, <2>3, QuietStep, TakeHeadHandsOut, TakeGrowGrows
       DEF Take, Pool!PoolNext, Item, Slabs, Slots, Pool!Item
  <2>4. ASSUME NEW t \in Threads, Return(t)
        PROVE  Pool!PoolNext \/ UNCHANGED Pool!poolVars
    BY <2>1, <2>4, QuietStep, ReturnPushGivesBack
       DEF Return, Pool!PoolNext, Item, Slabs, Slots, Pool!Item
  <2>5. ASSUME NEW t \in Threads, ResetAll(t) \/ Unlock(t)
        PROVE  Pool!PoolNext \/ UNCHANGED Pool!poolVars
    BY <2>1, <2>5, QuietStep, ResetAllResets DEF Pool!PoolNext
  <2>6. QED
    BY <2>1, <2>2, <2>3, <2>4, <2>5 DEF Next
<1>2. QED
  BY <1>1, InitPool, Inductive, NoItemLost, PTL
     DEF Spec, ImplementsPool, Pool!PoolSpec

-----------------------------------------------------------------------------
(***************************************************************************)
(* Threads.                                                                *)
(***************************************************************************)

\* A caller has a handle exactly while it is inside CS_threadStart.
Handles == \A c \in Callers : start[c] = "idle" <=> handle[c] = NoSlot

\* Until it creates the pthread, the record is the caller's alone.
Creating ==
  \A c \in Callers : start[c] = "create" =>
    /\ handle[c] \in used
    /\ starter[handle[c]] = c
    /\ driver[handle[c]] = "none"

\* Where the driver is says how the cycle function was called.
DrivingOK(s) ==
  /\ driver[s] \in {"none", "launch"} => called[s] = <<>>
  /\ driver[s] = "started" => called[s] = <<"START">>
  /\ driver[s] = "loop" => called[s] \in Working /\ state[s] = "RUNNING"
  /\ driver[s] = "stop" =>
       state[s] = "STOP" /\ (called[s] \in Done \/ (called[s] \in Working /\ kill[s]))
  /\ driver[s] = "failed" => called[s] \in Stopped
  /\ driver[s] \in {"untrack", "return"} => called[s] \in Failed \cup Stopped

Driving == \A s \in Slot : DrivingOK(s)

ThreadInv ==
  ThreadTypeOK /\ RecordOutlivesDriver /\ TrackedWhileRunning /\ Handles /\ Creating /\ Driving

-----------------------------------------------------------------------------
\* An appended sequence is the one with these elements.
LEMMA AppendIs ==
  ASSUME NEW S, NEW h \in Seq(S), NEW e \in S, NEW r \in Seq(S),
         Len(r) = Len(h) + 1, \A i \in 1..Len(h) : r[i] = h[i], r[Len(h) + 1] = e
  PROVE  Append(h, e) = r
<1>1. /\ Append(h, e) \in Seq(S)
      /\ Len(Append(h, e)) = Len(h) + 1
      /\ \A i \in 1..Len(h) : Append(h, e)[i] = h[i]
      /\ Append(h, e)[Len(h) + 1] = e
  BY AppendProperties
<1>2. Len(h) \in Nat
  BY LenProperties
<1>3. \A i \in 1..Len(r) : Append(h, e)[i] = r[i]
  BY <1>1, <1>2
<1> QED BY <1>1, <1>3, SeqEqual

Words == States \cup {"true"}

\* Each row of calls, one longer.
LEMMA Rows ==
  /\ \A e \in Words : Append(<<>>, e) = <<e>>
  /\ \A e \in Words : Append(<<"START">>, e) = <<"START", e>>
  /\ \A e \in Words : Append(<<"START", "RUNNING">>, e) = <<"START", "RUNNING", e>>
  /\ \A e \in Words : Append(<<"START", "RUNNING", "true">>, e) = <<"START", "RUNNING", "true", e>>
<1>1. /\ <<>> \in Seq(Words) /\ <<"START">> \in Seq(Words)
      /\ <<"START", "RUNNING">> \in Seq(Words)
      /\ <<"START", "RUNNING", "true">> \in Seq(Words)
  BY DEF Words, States
<1>2. ASSUME NEW e \in Words PROVE Append(<<>>, e) = <<e>>
  <2>1. /\ <<e>> \in Seq(Words) /\ Len(<<e>>) = Len(<<>>) + 1
        /\ \A i \in 1..Len(<<>>) : <<e>>[i] = <<>>[i]
        /\ <<e>>[Len(<<>>) + 1] = e
    BY <1>2
  <2> QED BY <1>1, <1>2, <2>1, AppendIs
<1>3. ASSUME NEW e \in Words PROVE Append(<<"START">>, e) = <<"START", e>>
  <2> DEFINE h == <<"START">>
             r == <<"START", e>>
  <2>1. r \in Seq(Words)
    BY <1>3 DEF Words, States
  <2>2. /\ Len(r) = Len(h) + 1 /\ r[Len(h) + 1] = e
        /\ \A i \in 1..Len(h) : r[i] = h[i]
    OBVIOUS
  <2> QED BY <1>1, <1>3, <2>1, <2>2, AppendIs
<1>4. ASSUME NEW e \in Words
      PROVE  Append(<<"START", "RUNNING">>, e) = <<"START", "RUNNING", e>>
  <2> DEFINE h == <<"START", "RUNNING">>
             r == <<"START", "RUNNING", e>>
  <2>1. r \in Seq(Words)
    BY <1>4 DEF Words, States
  <2>2. /\ Len(r) = Len(h) + 1 /\ r[Len(h) + 1] = e
        /\ \A i \in 1..Len(h) : r[i] = h[i]
    OBVIOUS
  <2> QED BY <1>1, <1>4, <2>1, <2>2, AppendIs
<1>5. ASSUME NEW e \in Words
      PROVE  Append(<<"START", "RUNNING", "true">>, e) = <<"START", "RUNNING", "true", e>>
  <2> DEFINE h == <<"START", "RUNNING", "true">>
             r == <<"START", "RUNNING", "true", e>>
  <2>1. r \in Seq(Words)
    BY <1>5 DEF Words, States
  <2>2. /\ Len(r) = Len(h) + 1 /\ r[Len(h) + 1] = e
        /\ \A i \in 1..Len(h) : r[i] = h[i]
    OBVIOUS
  <2> QED BY <1>1, <1>5, <2>1, <2>2, AppendIs
<1> QED BY <1>2, <1>3, <1>4, <1>5

LEMMA StoppedRows ==
  Stopped = {<<"START", "STOP">>, <<"START", "RUNNING", "STOP">>,
             <<"START", "RUNNING", "true", "STOP">>}
<1>1. "STOP" \in Words
  BY DEF Words, States
<1>2. Stopped = {Append(<<"START">>, "STOP"), Append(<<"START", "RUNNING">>, "STOP"),
                 Append(<<"START", "RUNNING", "true">>, "STOP")}
  BY DEF Stopped, Working, Done
<1> QED BY <1>1, <1>2, Rows

\* What a call, and its answer, make of the calls so far.
LEMMA CallsMade ==
  /\ Call(<<>>, "START") = <<"START">>
  /\ Answered(<<"START">>, TRUE) \in Failed
  /\ \A h \in Working : Answered(Call(h, "RUNNING"), FALSE) \in Working
  /\ \A h \in Working : Answered(Call(h, "RUNNING"), TRUE) \in Done
  /\ \A h \in Working \cup Done : Call(h, "STOP") \in Stopped
<1>1. /\ "START" \in Words /\ "RUNNING" \in Words /\ "true" \in Words
  BY DEF Words, States
<1>2. Call(<<>>, "START") = <<"START">>
  BY <1>1, Rows DEF Call
<1>3. Answered(<<"START">>, TRUE) \in Failed
  BY <1>1, Rows DEF Answered, Failed
<1>4. ASSUME NEW h \in Working
      PROVE  Call(h, "RUNNING") = <<"START", "RUNNING">>
  <2>1. CASE h = <<"START">>
    <3>1. h[Len(h)] = "START"
      BY <2>1
    <3> QED BY <1>1, <2>1, <3>1, Rows DEF Call
  <2>2. CASE h = <<"START", "RUNNING">>
    <3>1. h[Len(h)] = "RUNNING" /\ h # <<>>
      BY <2>2
    <3> QED BY <2>2, <3>1 DEF Call
  <2> QED BY <1>4, <2>1, <2>2 DEF Working
<1>5. /\ Answered(<<"START", "RUNNING">>, FALSE) \in Working
      /\ Answered(<<"START", "RUNNING">>, TRUE) \in Done
  BY <1>1, Rows DEF Answered, Working, Done
<1>6. \A h \in Working \cup Done : Call(h, "STOP") \in Stopped
  BY DEF Call, Stopped
<1> QED BY <1>2, <1>3, <1>4, <1>5, <1>6

Calls == {<<>>} \cup Working \cup Done \cup Failed \cup Stopped

\* The rows of calls are of different kinds.
LEMMA CallsDiffer ==
  /\ Calls \subseteq Seq(Words)
  /\ <<>> \notin Working \cup Done \cup Failed \cup Stopped
  /\ Stopped \cap (Working \cup Done \cup Failed) = {}
<1>1. Calls \subseteq Seq(Words)
  <2>1. {<<>>} \cup Working \cup Done \cup Failed \subseteq Seq(Words)
    BY DEF Working, Done, Failed, Words, States
  <2>2. Stopped \subseteq Seq(Words)
    BY StoppedRows DEF Words, States
  <2> QED BY <2>1, <2>2 DEF Calls
<1>2. <<>> \notin Working \cup Done \cup Failed \cup Stopped
  BY StoppedRows DEF Working, Done, Failed
<1>3. Stopped \cap (Working \cup Done \cup Failed) = {}
  BY StoppedRows DEF Working, Done, Failed
<1> QED BY <1>1, <1>2, <1>3

LEMMA ThreadInitInv == ThreadInit => ThreadInv
<1> SUFFICES ASSUME ThreadInit PROVE ThreadInv
  OBVIOUS
<1>1. ThreadTypeOK
  BY ThreadsAssumption DEF ThreadInit, ThreadTypeOK, States
<1>2. RecordOutlivesDriver /\ TrackedWhileRunning /\ Handles /\ Creating /\ Driving
  BY DEF ThreadInit, RecordOutlivesDriver, TrackedWhileRunning, Handles, Creating, Driving,
     DrivingOK
<1> QED BY <1>1, <1>2 DEF ThreadInv

LEMMA StartTakeStep ==
  ASSUME ThreadInv, NEW c \in Callers, StartTake(c)
  PROVE  ThreadInv'
<1> USE DEF ThreadInv
<1>1. PICK s \in Slot \ used :
        /\ used' = used \cup {s}
        /\ state' = [state EXCEPT ![s] = "INIT"]
        /\ kill' = [kill EXCEPT ![s] = FALSE]
        /\ handle' = [handle EXCEPT ![c] = s]
        /\ starter' = [starter EXCEPT ![s] = c]
  BY DEF StartTake
<1>2. /\ start[c] = "idle" /\ start' = [start EXCEPT ![c] = "create"]
      /\ UNCHANGED <<driver, called, tracked>>
      /\ handle[c] = NoSlot /\ s # NoSlot
      /\ driver[s] = "none"
  BY ThreadsAssumption DEF StartTake, Handles, RecordOutlivesDriver
<1>3. ThreadTypeOK'
  <2>1. used' \in SUBSET Slot /\ state' \in [Slot -> States] /\ kill' \in [Slot -> BOOLEAN]
    BY <1>1 DEF ThreadTypeOK, States
  <2>2. called' \in [Slot -> Seq(States \cup {"true"})]
    BY <1>2 DEF ThreadTypeOK
  <2>3. handle' \in [Callers -> Slot \cup {NoSlot}] /\ starter' \in [Slot -> Callers]
    BY <1>1 DEF ThreadTypeOK
  <2>4. start' \in [Callers -> {"idle", "create", "detach", "track"}]
    BY <1>2 DEF ThreadTypeOK
  <2> QED BY <1>2, <2>1, <2>2, <2>3, <2>4 DEF ThreadTypeOK
<1>4. RecordOutlivesDriver'
  BY <1>1, <1>2 DEF RecordOutlivesDriver
<1>5. TrackedWhileRunning'
  <2>1. starter'[s] = c /\ handle'[c] = s
    BY <1>1 DEF ThreadTypeOK
  <2>2. ASSUME NEW r \in Slot, r # s, Started(r)'
        PROVE  Started(r)
    <3>1. starter'[r] = starter[r]
      BY <1>1, <2>2 DEF ThreadTypeOK
    <3>2. \A d \in Callers : d # c => handle'[d] = handle[d]
      BY <1>1 DEF ThreadTypeOK
    <3>3. handle[c] # r
      BY <1>2, ThreadsAssumption
    <3> QED BY <2>2, <3>1, <3>2, <3>3 DEF ThreadTypeOK, Started
  <2>3. ~Started(s)'
    BY <2>1 DEF Started
  <2> QED BY <1>2, <2>2, <2>3 DEF TrackedWhileRunning
<1>6. Handles'
  BY <1>1, <1>2 DEF ThreadTypeOK, Handles
<1>7. Creating'
  BY <1>1, <1>2 DEF ThreadTypeOK, Creating
<1>8. Driving'
  BY <1>1, <1>2 DEF ThreadTypeOK, Driving, DrivingOK
<1> QED BY <1>3, <1>4, <1>5, <1>6, <1>7, <1>8

LEMMA StartCreateStep ==
  ASSUME ThreadInv, NEW c \in Callers, NEW ok \in BOOLEAN, StartCreate(c, ok)
  PROVE  ThreadInv'
<1> USE DEF ThreadInv
<1> DEFINE s == handle[c]
<1>1. /\ start[c] = "create" /\ start' = [start EXCEPT ![c] = "detach"]
      /\ driver' = IF ok THEN [driver EXCEPT ![s] = "launch"] ELSE driver
      /\ UNCHANGED <<used, state, kill, called, tracked, handle, starter>>
  BY DEF StartCreate
<1>2. /\ s \in Slot /\ s \in used /\ starter[s] = c
      /\ driver[s] = "none" /\ called[s] = <<>>
  BY <1>1 DEF Creating, ThreadTypeOK, Driving, DrivingOK
<1>3. \A d \in Callers : d # c /\ start[d] = "create" => handle[d] # s
  BY <1>2 DEF Creating
<1>4. \A r \in Slot : driver'[r] = driver[r] \/ (r = s /\ driver'[r] = "launch")
  BY <1>1 DEF ThreadTypeOK
<1> HIDE DEF s
<1>5. ThreadTypeOK'
  BY <1>1 DEF ThreadTypeOK
<1>6. RecordOutlivesDriver'
  BY <1>1, <1>2, <1>4 DEF RecordOutlivesDriver
<1>7. TrackedWhileRunning'
  BY <1>1, <1>2, <1>4 DEF TrackedWhileRunning, Started, s
<1>8. Handles'
  BY <1>1 DEF ThreadTypeOK, Handles
<1>9. Creating'
  BY <1>1, <1>3, <1>4 DEF ThreadTypeOK, Creating
<1>10. Driving'
  BY <1>1, <1>2, <1>4 DEF Driving, DrivingOK
<1> QED BY <1>5, <1>6, <1>7, <1>8, <1>9, <1>10

LEMMA StartDetachStep ==
  ASSUME ThreadInv, NEW c \in Callers, StartDetach(c)
  PROVE  ThreadInv'
<1> USE DEF ThreadInv
<1>1. /\ start[c] = "detach" /\ start' = [start EXCEPT ![c] = "track"]
      /\ UNCHANGED <<used, state, kill, driver, called, tracked, handle, starter>>
  BY DEF StartDetach, recordVars
<1>2. ThreadTypeOK'
  BY <1>1 DEF ThreadTypeOK
<1>3. RecordOutlivesDriver' /\ TrackedWhileRunning' /\ Driving'
  BY <1>1 DEF RecordOutlivesDriver, TrackedWhileRunning, Started, Driving, DrivingOK
<1>4. Handles' /\ Creating'
  BY <1>1 DEF ThreadTypeOK, Handles, Creating
<1> QED BY <1>2, <1>3, <1>4

LEMMA StartTrackStep ==
  ASSUME ThreadInv, NEW c \in Callers, StartTrack(c)
  PROVE  ThreadInv'
<1> USE DEF ThreadInv
<1>1. /\ start[c] = "track" /\ start' = [start EXCEPT ![c] = "idle"]
      /\ tracked' = [tracked EXCEPT ![handle[c]] = @ + 1]
      /\ handle' = [handle EXCEPT ![c] = NoSlot]
      /\ UNCHANGED <<used, state, kill, driver, called, starter>>
  BY DEF StartTrack, recordVars
<1>2. handle[c] \in Slot
  BY <1>1 DEF ThreadTypeOK, Handles
<1>3. ThreadTypeOK'
  BY <1>1, <1>2 DEF ThreadTypeOK
<1>4. /\ tracked'[handle[c]] > 0
      /\ \A s \in Slot : tracked[s] > 0 => tracked'[s] > 0
  BY <1>1, <1>2 DEF ThreadTypeOK
<1>5. TrackedWhileRunning'
  BY <1>1, <1>4 DEF ThreadTypeOK, TrackedWhileRunning, Started
<1>6. RecordOutlivesDriver' /\ Driving'
  BY <1>1 DEF RecordOutlivesDriver, Driving, DrivingOK
<1>7. Handles' /\ Creating'
  BY <1>1 DEF ThreadTypeOK, Handles, Creating
<1> QED BY <1>3, <1>5, <1>6, <1>7

LEMMA StopStep ==
  ASSUME ThreadInv, NEW s \in Slot, Stop(s)
  PROVE  ThreadInv'
<1> USE DEF ThreadInv
<1>1. /\ kill' = [kill EXCEPT ![s] = TRUE]
      /\ UNCHANGED <<used, state, driver, called, tracked, start, handle, starter>>
  BY DEF Stop
<1>2. ThreadTypeOK'
  BY <1>1 DEF ThreadTypeOK
<1> QED
  BY <1>1, <1>2 DEF RecordOutlivesDriver, TrackedWhileRunning, Started, Handles, Creating,
     Driving, DrivingOK

Drivers == {"none", "launch", "started", "loop", "stop", "failed", "untrack", "return"}

\* A step of a driver changes its own record only, and keeps it on the list
\* until it takes it off.
OwnRecord(s) ==
  /\ used' = IF driver'[s] = "none" THEN used \ {s} ELSE used
  /\ UNCHANGED <<kill, start, handle, starter>>
  /\ driver'[s] \in Drivers /\ driver' = [driver EXCEPT ![s] = driver'[s]]
  /\ state'[s] \in States /\ state' = [state EXCEPT ![s] = state'[s]]
  /\ called'[s] \in Calls
  /\ called' = [called EXCEPT ![s] = called'[s]]
  /\ tracked'[s] \in Nat /\ tracked' = [tracked EXCEPT ![s] = tracked'[s]]
  /\ driver'[s] \in {"none", "return"} \/ tracked'[s] = tracked[s]

LEMMA OwnRecordKeeps ==
  ASSUME ThreadInv, NEW s \in Slot, driver[s] \notin {"none", "return"} \/ driver'[s] = "none",
         driver[s] # "none", OwnRecord(s), DrivingOK(s)'
  PROVE  ThreadInv'
<1> USE DEF ThreadInv
<1>1. ThreadTypeOK'
  <2>1. called'[s] \in Seq(States \cup {"true"})
    BY CallsDiffer DEF OwnRecord, Words
  <2>2. called' \in [Slot -> Seq(States \cup {"true"})]
    BY <2>1 DEF ThreadTypeOK, OwnRecord
  <2> QED BY <2>2 DEF ThreadTypeOK, OwnRecord, Drivers
<1>2. RecordOutlivesDriver'
  BY DEF ThreadTypeOK, RecordOutlivesDriver, OwnRecord
<1>3. TrackedWhileRunning'
  BY DEF ThreadTypeOK, TrackedWhileRunning, Started, OwnRecord
<1>4. Handles'
  BY DEF Handles, OwnRecord
<1>5. Creating'
  BY DEF ThreadTypeOK, Creating, OwnRecord
<1>6. Driving'
  <2>1. \A r \in Slot : r # s => /\ driver'[r] = driver[r] /\ called'[r] = called[r]
                                /\ state'[r] = state[r] /\ kill'[r] = kill[r]
    BY DEF ThreadTypeOK, OwnRecord
  <2> QED BY <2>1 DEF Driving, DrivingOK
<1> QED BY <1>1, <1>2, <1>3, <1>4, <1>5, <1>6

LEMMA DriverInv ==
  ASSUME ThreadInv, NEW s \in Slot, DriverStep(s)
  PROVE  OwnRecord(s) /\ DrivingOK(s)' /\ ThreadInv'
<1> USE DEF ThreadInv
<1>1. DrivingOK(s)
  BY DEF Driving
<1>2. OwnRecord(s) /\ DrivingOK(s)'
  <2> USE DEF ThreadTypeOK, OwnRecord, Drivers, DrivingOK, States
  <2>1. CASE DriverLaunch(s)
    <3>1. called' = [called EXCEPT ![s] = <<"START">>]
      BY <1>1, <2>1, CallsMade DEF DriverLaunch
    <3>2. <<"START">> \in Calls
      BY DEF Calls, Working
    <3> QED BY <2>1, <3>1, <3>2 DEF DriverLaunch
  <2>2. CASE DriverStartError(s)
    <3>1. called'[s] \in Failed /\ called' = [called EXCEPT ![s] = called'[s]]
      BY <1>1, <2>2, CallsMade DEF DriverStartError
    <3> QED BY <2>2, <3>1 DEF DriverStartError, Calls
  <2>3. CASE DriverRun(s) \/ DriverKilled(s)
    BY <1>1, <2>3 DEF DriverRun, DriverKilled, Calls, Working
  <2>4. ASSUME NEW done \in BOOLEAN, DriverCycle(s, done)
        PROVE  OwnRecord(s) /\ DrivingOK(s)'
    <3>1. /\ called' = [called EXCEPT ![s] = called'[s]]
          /\ called'[s] \in IF done THEN Done ELSE Working
      BY <1>1, <2>4, CallsMade DEF DriverCycle
    <3>2. CASE done
      BY <1>1, <2>4, <3>1, <3>2 DEF DriverCycle, Calls
    <3>3. CASE ~done
      BY <1>1, <2>4, <3>1, <3>3 DEF DriverCycle, Calls
    <3> QED BY <3>2, <3>3
  <2>5. ASSUME NEW failed \in BOOLEAN, DriverStop(s, failed)
        PROVE  OwnRecord(s) /\ DrivingOK(s)'
    <3>1. state[s] = "STOP" /\ called[s] \in Working \cup Done
      BY <1>1, <2>5 DEF DriverStop
    <3>2. Call(called[s], state[s]) \in Stopped
      BY <3>1, CallsMade
    <3>3. called'[s] \in Stopped /\ called' = [called EXCEPT ![s] = called'[s]]
      BY <2>5, <3>2 DEF DriverStop
    <3> QED BY <2>5, <3>3 DEF DriverStop, Calls
  <2>6. CASE DriverStopped(s) \/ DriverUntrack(s)
    BY <1>1, <2>6 DEF DriverStopped, DriverUntrack, Calls
  <2>7. CASE DriverReturn(s)
    BY <1>1, <2>7 DEF DriverReturn, Calls
  <2> QED BY <2>1, <2>2, <2>3, <2>4, <2>5, <2>6, <2>7 DEF DriverStep, DriverOwnStep
<1>3. driver[s] # "none" /\ (driver[s] # "return" \/ driver'[s] = "none")
  BY DEF ThreadTypeOK, DriverStep, DriverOwnStep, DriverLaunch, DriverStartError, DriverRun,
     DriverKilled, DriverCycle, DriverStop, DriverStopped, DriverUntrack, DriverReturn
<1> QED BY <1>2, <1>3, OwnRecordKeeps

LEMMA ThreadNextInv ==
  ASSUME ThreadInv, [ThreadNext]_threadVars
  PROVE  ThreadInv'
<1>1. ASSUME NEW c \in Callers, StartStep(c)
      PROVE  ThreadInv'
  BY <1>1, StartTakeStep, StartCreateStep, StartDetachStep, StartTrackStep DEF StartStep
<1>2. CASE UNCHANGED threadVars
  BY <1>2 DEF ThreadInv, ThreadTypeOK, RecordOutlivesDriver, TrackedWhileRunning, Started, Handles,
     Creating, Driving, DrivingOK, threadVars, recordVars
<1> QED BY <1>1, <1>2, DriverInv, StopStep DEF ThreadNext

\* ThreadInv holds in every behaviour, whatever the callers and drivers do at once.
THEOREM ThreadInvHolds == ThreadSpec => []ThreadInv
<1>1. ThreadInit => ThreadInv
  BY ThreadInitInv
<1>2. ThreadInv /\ [ThreadNext]_threadVars => ThreadInv'
  BY ThreadNextInv
<1> QED BY <1>1, <1>2, PTL DEF ThreadSpec

\* A record keeps its types: each entry on trackedThreads is taken off at most
\* once (privateFreeFinishedThread).
THEOREM ThreadTypeCorrect == ThreadSpec => []ThreadTypeOK
<1>1. ThreadInv => ThreadTypeOK
  BY DEF ThreadInv
<1> QED BY <1>1, ThreadInvHolds, PTL

\* No record goes to a new thread while an old driver still uses it.
THEOREM RecordOutlives == ThreadSpec => []RecordOutlivesDriver
<1>1. ThreadInv => RecordOutlivesDriver
  BY DEF ThreadInv
<1> QED BY <1>1, ThreadInvHolds, PTL

\* A thread whose start has returned is on trackedThreads until it takes itself
\* off, whatever other threads had its record before.
THEOREM Tracked == ThreadSpec => []TrackedWhileRunning
<1>1. ThreadInv => TrackedWhileRunning
  BY DEF ThreadInv
<1> QED BY <1>1, ThreadInvHolds, PTL

\* The cycle function gets one call with START, its calls with RUNNING and
\* exactly one with STOP, as thread.h says, and a record goes back only when
\* that is over.
THEOREM CallsInOrder == ThreadSpec => CallProtocol
<1> DEFINE A(s) ==
      /\ called'[s] \in {<<>>} \cup Working \cup Done \cup Failed \cup Stopped
      /\ (called[s] \in Working /\ called'[s] \in Stopped) => kill[s]
      /\ (called[s] # <<>> /\ called'[s] = <<>>) => s \notin used'
      /\ (s \in used /\ s \notin used') => called[s] \in Failed \cup Stopped
<1>1. ASSUME ThreadInv, NEW s \in Slot, called'[s] = called[s], s \in used => s \in used'
      PROVE  A(s)
  <2>1. called[s] \in {<<>>} \cup Working \cup Done \cup Failed \cup Stopped
    BY <1>1 DEF ThreadInv, ThreadTypeOK, Driving, DrivingOK, Working
  <2> QED BY <1>1, <2>1, CallsDiffer
<1>2. ASSUME ThreadInv, NEW s \in Slot, DriverStep(s)
      PROVE  A(s)
  <2>1. OwnRecord(s) /\ DrivingOK(s)
    BY <1>2, DriverInv DEF ThreadInv, Driving
  <2>2. called'[s] \in {<<>>} \cup Working \cup Done \cup Failed \cup Stopped
    BY <2>1 DEF OwnRecord, Calls
  <2>3. CASE \E failed \in BOOLEAN : DriverStop(s, failed)
    <3>1. /\ driver[s] = "stop" /\ used' = used
          /\ called' = [called EXCEPT ![s] = Call(@, state[s])]
      BY <2>3 DEF DriverStop
    <3>2. /\ state[s] = "STOP"
          /\ called[s] \in Done \/ (called[s] \in Working /\ kill[s])
      BY <2>1, <3>1 DEF DrivingOK
    <3>3. called'[s] = Call(called[s], "STOP")
      BY <1>2, <3>1, <3>2 DEF ThreadInv, ThreadTypeOK
    <3>4. called'[s] \in Stopped
      BY <3>2, <3>3, CallsMade
    <3>5. Working \cap Done = {}
      BY DEF Working, Done
    <3> QED BY <2>2, <3>1, <3>2, <3>4, <3>5, CallsDiffer
  <2>4. CASE DriverReturn(s)
    BY <1>2, <2>1, <2>2, <2>4, CallsDiffer DEF ThreadInv, ThreadTypeOK, DriverReturn, DrivingOK
  <2>5. CASE DriverLaunch(s) \/ DriverStartError(s) \/ (\E done \in BOOLEAN : DriverCycle(s, done))
    <3>1. DrivingOK(s)' /\ driver'[s] \in {"started", "untrack", "loop", "stop"} /\ used' = used
      BY <1>2, <2>5, DriverInv DEF ThreadInv, ThreadTypeOK, DriverLaunch, DriverStartError, DriverCycle
    <3>2. CASE DriverStartError(s)
      <4>1. called'[s] = Answered(<<"START">>, TRUE)
        BY <1>2, <2>1, <3>2 DEF ThreadInv, ThreadTypeOK, DriverStartError, DrivingOK
      <4>2. called'[s] \in Failed
        BY <4>1, CallsMade
      <4> QED BY <2>2, <3>1, <4>2, CallsDiffer
    <3>3. CASE ~DriverStartError(s)
      <4>1. driver'[s] \in {"started", "loop", "stop"}
        BY <1>2, <2>5, <3>3 DEF ThreadInv, ThreadTypeOK, DriverLaunch, DriverCycle
      <4>2. called'[s] \in Working \cup Done
        BY <3>1, <4>1 DEF DrivingOK, Working
      <4> QED BY <2>2, <3>1, <4>2, CallsDiffer
    <3> QED BY <3>2, <3>3
  <2>6. CASE DriverRun(s) \/ DriverKilled(s) \/ DriverStopped(s) \/ DriverUntrack(s)
    BY <1>1, <1>2, <2>6 DEF DriverRun, DriverKilled, DriverStopped, DriverUntrack
  <2> QED BY <1>2, <2>3, <2>4, <2>5, <2>6 DEF DriverStep, DriverOwnStep
<1>3. ASSUME ThreadInv, NEW r \in Slot, DriverStep(r), NEW s \in Slot, s # r
      PROVE  A(s)
  <2>1. OwnRecord(r)
    BY <1>3, DriverInv
  <2>2. called'[s] = called[s]
    BY <1>3, <2>1 DEF OwnRecord, ThreadInv, ThreadTypeOK
  <2>3. s \in used => s \in used'
    BY <1>3, <2>1 DEF OwnRecord
  <2> QED BY <1>1, <1>3, <2>2, <2>3
<1>4. ASSUME ThreadInv, [ThreadNext]_threadVars, NEW s \in Slot
      PROVE  A(s)
  <2>1. ASSUME NEW c \in Callers, StartStep(c)
        PROVE  called'[s] = called[s] /\ (s \in used => s \in used')
    BY <2>1 DEF StartStep, StartTake, StartCreate, StartDetach, StartTrack, recordVars
  <2>2. ASSUME NEW r \in Slot, Stop(r)
        PROVE  called'[s] = called[s] /\ (s \in used => s \in used')
    BY <2>2 DEF Stop
  <2>3. CASE UNCHANGED threadVars
    BY <1>1, <1>4, <2>3 DEF threadVars, recordVars
  <2> QED BY <1>1, <1>2, <1>3, <1>4, <2>1, <2>2, <2>3 DEF ThreadNext
<1>5. ThreadInv /\ [ThreadNext]_threadVars => [\A s \in Slot : A(s)]_threadVars
  BY <1>4
<1> QED BY <1>5, ThreadInvHolds, PTL DEF ThreadSpec, CallProtocol
=============================================================================
