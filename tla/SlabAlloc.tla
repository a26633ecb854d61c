----------------------------- MODULE SlabAlloc -----------------------------
(***************************************************************************)
(* The slab allocator of src/slaballoc.c: a chain of slabs of equal items, *)
(* each slab with an intrusive LIFO list of its free items, one mutex (in  *)
(* the first slab) around every change of the lists, and threads that      *)
(* interleave between the steps the mutex does not cover.                  *)
(*                                                                         *)
(* A pointer is <<slab, slot>>.  <<0, 0>> is NULL, <<0, k>> points outside *)
(* every buffer and <<s, 0>> into slab s, but not at an item: the pointers *)
(* CS_slabReturn refuses.  The bytes of an item are not modelled.          *)
(***************************************************************************)
EXTENDS Integers, Sequences, FiniteSets, Functions

CONSTANTS Threads,   (* the threads that share the allocator               *)
          NoThread,  (* owner of an unlocked mutex                         *)
          Capacity,  (* items in one slab                                  *)
          MaxSlabs   (* bound on the slabs the memory has room for         *)

ASSUME SlabAssumption ==
  /\ Capacity \in Nat \ {0}
  /\ MaxSlabs \in Nat \ {0}
  /\ NoThread \notin Threads

VARIABLES
  nSlabs,     (* slabs in the chain, numbered from the first                *)
  free,       (* free[s]: the slots on the free list of slab s, head first  *)
  slabMutex,  (* the thread inside the critical section, or NoThread        *)
  live,       (* items the program holds                                    *)
  pc,         (* what each thread does next                                 *)
  cur,        (* currentSlab of each thread; 0 is NULL                      *)
  ptr,        (* the pointer being taken or returned by each thread         *)
  snap        (* the list a thread has read and will store back             *)

vars == <<nSlabs, free, slabMutex, live, pc, cur, ptr, snap>>

Slabs   == 1..MaxSlabs
Slots   == 1..Capacity
Item    == Slabs \X Slots
Pointer == (0..MaxSlabs) \X (0..Capacity)
NULL    == <<0, 0>>

\* The pointers that are not an item of this allocator: NULL, a pointer
\* outside every slab, and one into a slab of the chain that is misaligned.
BadPointer == {NULL, <<0, 1>>} \cup ((1..nSlabs) \X {0})

\* resetItems links the items of a slab in address order.
FullList == [i \in Slots |-> i]

FreeItems(s) == {<<s, k>> : k \in Range(free[s])}

\* A thread between the two ends of a take, or of a return of an item.
Carries(t) == ptr[t] \in Item

Init ==
  /\ nSlabs = 1
  /\ free = [s \in Slabs |-> IF s = 1 THEN FullList ELSE <<>>]
  /\ slabMutex = NoThread
  /\ live = {}
  /\ pc = [t \in Threads |-> "idle"]
  /\ cur = [t \in Threads |-> 0]
  /\ ptr = [t \in Threads |-> NULL]
  /\ snap = [t \in Threads |-> <<>>]

\* The locals of a call end with it.
Leave(t) ==
  /\ cur' = [cur EXCEPT ![t] = 0]
  /\ ptr' = [ptr EXCEPT ![t] = NULL]
  /\ snap' = [snap EXCEPT ![t] = <<>>]

Goto(t, from, to) == pc[t] = from /\ pc' = [pc EXCEPT ![t] = to]

-----------------------------------------------------------------------------
(* CS_slabTake                                                              *)

\* Mutant: a take that does not lock.
TakeLockUnlocked(t) ==
  /\ Goto(t, "idle", "walk")
  /\ slabMutex' = t
  /\ cur' = [cur EXCEPT ![t] = 1]
  /\ UNCHANGED <<nSlabs, free, live, ptr, snap>>

TakeLock(t) ==
  /\ slabMutex = NoThread
  /\ Goto(t, "idle", "walk")
  /\ slabMutex' = t
  /\ cur' = [cur EXCEPT ![t] = 1]
  /\ UNCHANGED <<nSlabs, free, live, ptr, snap>>

\* The slab is exhausted and has a successor.
TakeNextSlab(t) ==
  /\ pc[t] = "walk"
  /\ free[cur[t]] = <<>>
  /\ cur[t] < nSlabs
  /\ cur' = [cur EXCEPT ![t] = @ + 1]
  /\ UNCHANGED <<nSlabs, free, slabMutex, live, pc, ptr, snap>>

\* Mutant: the chain grows before the free list is consulted.
TakeGrowEager(t) ==
  /\ pc[t] = "walk"
  /\ cur[t] = nSlabs
  /\ nSlabs < MaxSlabs
  /\ nSlabs' = nSlabs + 1
  /\ free' = [free EXCEPT ![nSlabs + 1] = FullList]
  /\ cur' = [cur EXCEPT ![t] = nSlabs + 1]
  /\ UNCHANGED <<slabMutex, live, pc, ptr, snap>>

\* The last slab is exhausted: initSlabAlloc builds another one.
TakeGrow(t) ==
  /\ pc[t] = "walk"
  /\ free[cur[t]] = <<>>
  /\ cur[t] = nSlabs
  /\ nSlabs < MaxSlabs
  /\ nSlabs' = nSlabs + 1
  /\ free' = [free EXCEPT ![nSlabs + 1] = FullList]
  /\ cur' = [cur EXCEPT ![t] = nSlabs + 1]
  /\ UNCHANGED <<slabMutex, live, pc, ptr, snap>>

\* Mutant: gives up at the first exhausted slab.
TakeOOMEarly(t) ==
  /\ Goto(t, "walk", "unlock")
  /\ free[cur[t]] = <<>>
  /\ UNCHANGED <<nSlabs, free, slabMutex, live, cur, ptr, snap>>

\* Mutant: returns NULL without passing RELEASE_LOCK.
TakeOOMKeepsLock(t) ==
  /\ Goto(t, "walk", "idle")
  /\ free[cur[t]] = <<>>
  /\ cur[t] = nSlabs
  /\ Leave(t)
  /\ UNCHANGED <<nSlabs, free, slabMutex, live>>

\* ... or fails to: the take answers NULL through RELEASE_LOCK.
TakeOOM(t) ==
  /\ Goto(t, "walk", "unlock")
  /\ free[cur[t]] = <<>>
  /\ cur[t] = nSlabs
  /\ UNCHANGED <<nSlabs, free, slabMutex, live, cur, ptr, snap>>

\* returnValue = currentSlab->head; the rest of the list hangs on its next.
TakeHead(t) ==
  /\ Goto(t, "walk", "pop")
  /\ free[cur[t]] # <<>>
  /\ ptr' = [ptr EXCEPT ![t] = <<cur[t], Head(free[cur[t]])>>]
  /\ snap' = [snap EXCEPT ![t] = Tail(free[cur[t]])]
  /\ UNCHANGED <<nSlabs, free, slabMutex, live, cur>>

\* currentSlab->head = returnValue->next
TakePop(t) ==
  /\ Goto(t, "pop", "unlock")
  /\ free' = [free EXCEPT ![cur[t]] = snap[t]]
  /\ UNCHANGED <<nSlabs, slabMutex, live, cur, ptr, snap>>

-----------------------------------------------------------------------------
(* CS_slabReturn                                                            *)

\* The caller gives its item up when it calls; the search runs unlocked.
ReturnCall(t, p) ==
  /\ Goto(t, "idle", "scan")
  /\ p \in live \cup BadPointer
  /\ ptr' = [ptr EXCEPT ![t] = p]
  /\ cur' = [cur EXCEPT ![t] = IF p = NULL THEN 0 ELSE 1]
  /\ live' = live \ {p}
  /\ UNCHANGED <<nSlabs, free, slabMutex, snap>>

Within(t) == cur[t] # 0 /\ ptr[t][1] = cur[t]

\* Mutant: the end of the chain is noticed one slab late.
ReturnScanPastEnd(t) ==
  /\ pc[t] = "scan"
  /\ cur[t] # 0 /\ ~Within(t)
  /\ cur' = [cur EXCEPT ![t] = IF @ <= nSlabs THEN @ + 1 ELSE 0]
  /\ UNCHANGED <<nSlabs, free, slabMutex, live, pc, ptr, snap>>

\* Mutant: only the first slab is searched.
ReturnScanFirstOnly(t) ==
  /\ pc[t] = "scan"
  /\ cur[t] # 0 /\ ~Within(t)
  /\ cur' = [cur EXCEPT ![t] = 0]
  /\ UNCHANGED <<nSlabs, free, slabMutex, live, pc, ptr, snap>>

ReturnScan(t) ==
  /\ pc[t] = "scan"
  /\ cur[t] # 0 /\ ~Within(t)
  /\ cur' = [cur EXCEPT ![t] = IF @ < nSlabs THEN @ + 1 ELSE 0]
  /\ UNCHANGED <<nSlabs, free, slabMutex, live, pc, ptr, snap>>

\* NULL, not in any slab, or misaligned: the call answers true.
ReturnReject(t) ==
  /\ cur[t] = 0 \/ (Within(t) /\ ptr[t][2] = 0)
  /\ Goto(t, "scan", "idle")
  /\ Leave(t)
  /\ UNCHANGED <<nSlabs, free, slabMutex, live>>

\* Mutant: the return pushes without locking.
ReturnLinkUnlocked(t) ==
  /\ Within(t) /\ ptr[t][2] # 0
  /\ Goto(t, "scan", "push")
  /\ snap' = [snap EXCEPT ![t] = free[cur[t]]]
  /\ UNCHANGED <<nSlabs, free, slabMutex, live, cur, ptr>>

\* Lock; itemToReturn->next = currentSlab->head
ReturnLink(t) ==
  /\ Within(t) /\ ptr[t][2] # 0
  /\ slabMutex = NoThread
  /\ Goto(t, "scan", "push")
  /\ slabMutex' = t
  /\ snap' = [snap EXCEPT ![t] = free[cur[t]]]
  /\ UNCHANGED <<nSlabs, free, live, cur, ptr>>

\* currentSlab->head = itemToReturn
ReturnPush(t) ==
  /\ Goto(t, "push", "unlock")
  /\ free' = [free EXCEPT ![cur[t]] = <<ptr[t][2]>> \o snap[t]]
  /\ ptr' = [ptr EXCEPT ![t] = NULL]
  /\ UNCHANGED <<nSlabs, slabMutex, live, cur, snap>>

-----------------------------------------------------------------------------
\* CS_slabReset re-links every item of every slab, held or not.  Its one
\* caller, CS_listReset, has dropped every node by then: no item is on its
\* way in or out, and those the list held are dead.
ResetAll(t) ==
  /\ slabMutex = NoThread
  /\ \A u \in Threads : ~Carries(u)
  /\ Goto(t, "idle", "unlock")
  /\ slabMutex' = t
  /\ free' = [s \in Slabs |-> IF s <= nSlabs THEN FullList ELSE free[s]]
  /\ live' = {}
  /\ UNCHANGED <<nSlabs, cur, ptr, snap>>

\* The end of every critical section.  A take hands its item to the caller.
Unlock(t) ==
  /\ Goto(t, "unlock", "idle")
  /\ slabMutex' = NoThread
  /\ live' = live \cup ({ptr[t]} \cap Item)
  /\ Leave(t)
  /\ UNCHANGED <<nSlabs, free>>

Take(t) == TakeLock(t) \/ TakeNextSlab(t) \/ TakeGrow(t) \/ TakeOOM(t)
             \/ TakeHead(t) \/ TakePop(t)

Return(t) == (\E p \in Pointer : ReturnCall(t, p)) \/ ReturnScan(t)
               \/ ReturnReject(t) \/ ReturnLink(t) \/ ReturnPush(t)

Next == \E t \in Threads : Take(t) \/ Return(t) \/ ResetAll(t) \/ Unlock(t)

Spec == Init /\ [][Next]_vars

\* The steps a thread takes with the mutex held wait for nobody.
HoldingStep(t) == TakeNextSlab(t) \/ TakeGrow(t) \/ TakeOOM(t) \/ TakeHead(t)
                    \/ TakePop(t) \/ ReturnPush(t) \/ Unlock(t)

FairSpec == Spec /\ \A t \in Threads : WF_vars(HoldingStep(t))

-----------------------------------------------------------------------------
TypeOK ==
  /\ nSlabs \in Slabs
  /\ free \in [Slabs -> Seq(Slots)]
  /\ slabMutex \in Threads \cup {NoThread}
  /\ live \in SUBSET Item
  /\ pc \in [Threads -> {"idle", "walk", "pop", "unlock", "scan", "push"}]
  /\ cur \in [Threads -> 0..MaxSlabs]
  /\ ptr \in [Threads -> Pointer]
  /\ snap \in [Threads -> Seq(Slots)]

Outstanding == live \cup {ptr[t] : t \in {u \in Threads : Carries(u)}}

\* No item has two owners: what one thread carries is held by nobody else
\* and carried by nobody else, and an item the program holds is on no free
\* list (slaballoc.c, CS_slabTake against CS_slabReturn on every slab).
ExclusiveOwnership ==
  /\ \A t \in Threads : Carries(t) =>
       /\ ptr[t] \notin live
       /\ \A u \in Threads \ {t} : Carries(u) => ptr[u] # ptr[t]
  /\ \A s \in Slabs : FreeItems(s) \cap live = {}

\* No item is lost: every slot of every slab of the chain is on its free
\* list, held by the program, or on its way in or out.
NothingLost ==
  ((1..nSlabs) \X Slots) \subseteq
     (Outstanding \cup UNION {FreeItems(s) : s \in Slabs})

\* The unlocked search of CS_slabReturn finds the slab of every item the
\* allocator handed out, whatever the chain grows to meanwhile: only a
\* pointer that is no item is refused.
OwnReturnAccepted ==
  [][\A t \in Threads :
       (pc[t] = "scan" /\ pc'[t] = "idle") => ~Carries(t)]_vars

\* A take answers NULL only when no slab had a free item at that moment.
FailsOnlyWhenExhausted ==
  [][\A t \in Threads :
       (pc[t] = "walk" /\ pc'[t] = "unlock") =>
          \A s \in 1..nSlabs : free[s] = <<>>]_vars

\* The mutex is given back on every path, the out-of-memory one included.
MutexReleased == \A t \in Threads : (slabMutex = t) ~> (slabMutex # t)

Pool == INSTANCE SlabPool WITH slabs <- nSlabs, out <- Outstanding

\* The allocator implements the pool: exclusive items, and growth only when
\* every item is out.
ImplementsPool == Pool!PoolSpec

-----------------------------------------------------------------------------
(* The inductive invariant behind the safety properties, in named parts.    *)

Holds(t) == pc[t] \in {"walk", "pop", "push", "unlock"}

\* The mutex belongs to the one thread inside a critical section.
MutexInv == \A t \in Threads : Holds(t) <=> slabMutex = t

\* A slot is on a free list once, and only slabs of the chain have one.
FreeListInv ==
  /\ \A s \in Slabs : s > nSlabs => free[s] = <<>>
  /\ \A s \in Slabs : \A i, j \in 1..Len(free[s]) :
       free[s][i] = free[s][j] => i = j

\* What each control point knows of the thread's locals.
LocalsInv ==
  \A t \in Threads :
    /\ pc[t] = "idle" => ptr[t] = NULL
    /\ pc[t] = "walk" => /\ ptr[t] = NULL
                         /\ cur[t] \in 1..nSlabs
                         /\ \A s \in 1..(cur[t] - 1) : free[s] = <<>>
    /\ pc[t] = "pop"  => /\ cur[t] \in 1..nSlabs
                         /\ free[cur[t]] # <<>>
                         /\ ptr[t] = <<cur[t], Head(free[cur[t]])>>
                         /\ snap[t] = Tail(free[cur[t]])
    /\ pc[t] = "push" => /\ cur[t] \in 1..nSlabs
                         /\ Carries(t) /\ ptr[t][1] = cur[t]
                         /\ snap[t] = free[cur[t]]
    /\ (pc[t] = "scan" /\ Carries(t)) => cur[t] \in 1..ptr[t][1]

\* Items out of the pool belong to the chain and to one owner; only the
\* item a thread is about to unlink is carried and listed at once.
OwnerInv ==
  /\ live \subseteq (1..nSlabs) \X Slots
  /\ \A t \in Threads : Carries(t) => ptr[t][1] <= nSlabs
  /\ \A t \in Threads :
       (Carries(t) /\ pc[t] # "pop") => ptr[t] \notin FreeItems(ptr[t][1])
  /\ ExclusiveOwnership

IInv == TypeOK /\ MutexInv /\ FreeListInv /\ LocalsInv /\ OwnerInv
=============================================================================
