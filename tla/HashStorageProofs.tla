-------------------------- MODULE HashStorageProofs --------------------------
(***************************************************************************)
(* What HashStorage promises, for any number of threads, keys and          *)
(* addresses: the table holds live items under their own keys, every item  *)
(* has one owner, and the table is a versioned store.  That needs to know  *)
(* what a put carries between its two steps (Carries): the item of its     *)
(* caller and a copy of it, that nobody else has.                          *)
(***************************************************************************)
EXTENDS HashStorage, TLAPS

\* OneOwner, by kinds of owners: no item has two, ...
Once ==
  /\ \A k, j \in Key : table[k] # NONE /\ table[k] = table[j] => k = j
  /\ \A t, u \in Threads : item[t] # NONE /\ item[t] = item[u] => t = u
  /\ \A t, u \in Threads : copy[t] # NONE /\ copy[t] = copy[u] => t = u
  /\ \A k \in Key, t \in Threads :
       table[k] # NONE => table[k] # item[t] /\ table[k] # copy[t]
  /\ \A t, u \in Threads : item[t] # NONE => item[t] # copy[u]

\* ... and the addresses that have one are those that are taken.
Taken ==
  /\ \A k \in Key : table[k] # NONE => table[k] \in allocated
  /\ \A t \in Threads : item[t] # NONE => item[t] \in allocated
  /\ \A t \in Threads : copy[t] # NONE => copy[t] \in allocated
NoLeak ==
  \A a \in allocated : \/ \E k \in Key : table[k] = a
                       \/ \E t \in Threads : item[t] = a \/ copy[t] = a

Keyed ==
  /\ \A k \in Key : table[k] # NONE => heap[table[k]].key = k
  /\ \A t \in Threads : item[t] # NONE => heap[item[t]].key \in Key

\* A thread is in a put exactly when it has a copy, of its own item; a get
\* that is under way has found an address.
Carries ==
  \A t \in Threads :
    /\ pc[t] = "put" <=> copy[t] # NONE
    /\ pc[t] = "put" => /\ item[t] # NONE
                        /\ heap[copy[t]].key = heap[item[t]].key
                        /\ heap[copy[t]].cas = heap[item[t]].cas
    /\ pc[t] \in {"judge", "copy", "remove"} =>
         ptr[t] # NONE /\ key[t] \in Key /\ item[t] = NONE

Inv == TypeOK /\ Once /\ Taken /\ NoLeak /\ Keyed /\ Carries

-----------------------------------------------------------------------------
LEMMA WatchTyped ==
  ASSUME Watch
  PROVE  missed' \in [Threads -> BOOLEAN]
<1> DEFINE seen(t) == \E k \in Key : key'[t] = k /\ (missed[t] \/ Missing(k)')
<1>1. ASSUME NEW t \in Threads PROVE seen(t) \in BOOLEAN
  <2>1. CASE seen(t)
    <3>1. seen(t) = TRUE
      BY <2>1, Zenon
    <3> HIDE DEF seen
    <3> QED BY <3>1
  <2>2. CASE ~seen(t)
    <3>1. seen(t) = FALSE
      BY <2>2, Zenon
    <3> HIDE DEF seen
    <3> QED BY <3>1
  <2> QED BY <2>1, <2>2
<1>2. missed' = [t \in Threads |-> seen(t)]
  BY DEF Watch
<1> HIDE DEF seen
<1> QED BY <1>1, <1>2

LEMMA InitInv == Init => Inv
<1> SUFFICES ASSUME Init PROVE Inv
  OBVIOUS
<1>1. [key |-> NoKey, cas |-> 0, expires |-> 0] \in Item /\ 1 \in 1..MaxTime
  BY StorageAssumption DEF Item, Time
<1>2. TypeOK
  BY <1>1 DEF Init, TypeOK
<1>3. Once /\ Taken /\ NoLeak /\ Keyed /\ Carries
  BY StorageAssumption DEF Init, Once, Taken, NoLeak, Keyed, Carries
<1> QED BY <1>2, <1>3 DEF Inv

\* Steps that move no item.
LEMMA LookStep ==
  ASSUME Inv, NEW t \in Threads,
         \/ \E k \in Key : GetLookup(t, k)
         \/ GetJudge(t)
  PROVE  Inv'
<1> USE DEF Inv
<1>w. missed' \in [Threads -> BOOLEAN]
  BY WatchTyped DEF GetLookup, GetJudge
<1>1. TypeOK'
  BY <1>w DEF TypeOK, GetLookup, GetJudge, Goto, store
<1>2. Once' /\ Taken' /\ NoLeak' /\ Keyed'
  BY DEF Once, Taken, NoLeak, Keyed, GetLookup, GetJudge, store
<1>3. Carries'
  BY DEF TypeOK, Carries, GetLookup, GetJudge, Goto, store
<1> QED BY <1>1, <1>2, <1>3

LEMMA TickStep ==
  ASSUME Inv, Tick PROVE Inv'
<1> USE DEF Inv
<1>w. missed' \in [Threads -> BOOLEAN]
  BY WatchTyped DEF Tick
<1>1. TypeOK'
  BY <1>w, StorageAssumption DEF TypeOK, Tick, store, thread
<1>2. Once' /\ Taken' /\ NoLeak' /\ Keyed' /\ Carries'
  BY DEF Once, Taken, NoLeak, Keyed, Carries, Tick, store, thread
<1> QED BY <1>1, <1>2

LEMMA StutterStep ==
  ASSUME Inv, UNCHANGED vars PROVE Inv'
BY DEF Inv, TypeOK, Once, Taken, NoLeak, Keyed, Carries, vars, store, thread

LEMMA GetCopyStep ==
  ASSUME Inv, NEW t \in Threads, GetCopy(t)
  PROVE  Inv'
<1> USE DEF Inv
<1>w. missed' \in [Threads -> BOOLEAN]
  BY WatchTyped DEF GetCopy
<1>1. CASE heap[ptr[t]].key = NoKey
  <2>1. TypeOK'
    BY <1>1, <1>w DEF TypeOK, GetCopy, GetEnds, Goto
  <2>2. Once' /\ Taken' /\ NoLeak' /\ Keyed' /\ Carries'
    BY <1>1 DEF TypeOK, Once, Taken, NoLeak, Keyed, Carries, GetCopy, GetEnds, Goto
  <2> QED BY <2>1, <2>2
<1>2. CASE heap[ptr[t]].key # NoKey
  <2>1. PICK a \in Addr \ allocated :
          /\ heap' = [heap EXCEPT ![a] = heap[ptr[t]]]
          /\ allocated' = allocated \cup {a}
          /\ item' = [item EXCEPT ![t] = a]
    BY <1>2 DEF GetCopy
  <2> USE <2>1
  <2>0. /\ ptr[t] \in Addr /\ a \in Addr /\ a # NONE
        /\ UNCHANGED <<table, copy>>
        /\ pc[t] = "copy" /\ pc' = [pc EXCEPT ![t] = "idle"]
    BY StorageAssumption DEF TypeOK, Carries, GetCopy, Goto
  <2>2. TypeOK'
    BY <1>w, <2>0 DEF TypeOK, GetCopy, GetEnds, Goto
  <2>3. Once'
    BY <2>0 DEF TypeOK, Once, Taken
  <2>4. Taken'
    BY <2>0 DEF TypeOK, Taken
  <2>5. NoLeak'
    BY <2>0 DEF TypeOK, NoLeak, Carries
  <2>6. Keyed'
    BY <1>2, <2>0 DEF TypeOK, Keyed, Taken, Item
  <2>7. Carries'
    BY <2>0 DEF TypeOK, Carries, Taken, GetCopy, GetEnds
  <2> QED BY <2>2, <2>3, <2>4, <2>5, <2>6, <2>7
<1> QED BY <1>1, <1>2
\* An item that is given back is an item without a key.
LEMMA FreedIsItem ==
  ASSUME TypeOK, NEW a \in Addr
  PROVE  /\ Freed(a) \in Item
         /\ [heap EXCEPT ![a] = Freed(a)] \in [Addr -> Item]
<1>1. Freed(a) \in Item
  BY StorageAssumption DEF TypeOK, Freed, Item
<1> QED BY <1>1 DEF TypeOK

\* Taking an item out of the table and freeing it, for a get or a remove.
LEMMA TableFreed ==
  ASSUME Inv, NEW k \in Key, table[k] # NONE,
         table' = [table EXCEPT ![k] = NONE],
         heap' = [heap EXCEPT ![table[k]] = Freed(table[k])],
         allocated' = allocated \ {table[k]},
         UNCHANGED <<item, copy, now, crashed>>,
         NEW t \in Threads, pc' = [pc EXCEPT ![t] = "idle"],
         \/ UNCHANGED <<key, ptr>>
         \/ key' = [key EXCEPT ![t] = NoKey] /\ ptr' = [ptr EXCEPT ![t] = NONE],
         missed' \in [Threads -> BOOLEAN]
  PROVE  TypeOK' /\ Once' /\ Taken' /\ NoLeak' /\ Keyed'
<1> USE DEF Inv
<1>1. TypeOK'
  BY FreedIsItem DEF TypeOK
<1>2. Once'
  BY DEF TypeOK, Once
<1>3. Taken'
  BY DEF TypeOK, Once, Taken
<1>4. NoLeak'
  BY DEF TypeOK, NoLeak
<1>5. Keyed'
  BY DEF TypeOK, Keyed, Once, Taken
<1> QED BY <1>1, <1>2, <1>3, <1>4, <1>5

LEMMA GetRemoveStep ==
  ASSUME Inv, NEW t \in Threads, GetRemove(t)
  PROVE  Inv'
<1> USE DEF Inv
<1>w. missed' \in [Threads -> BOOLEAN]
  BY WatchTyped DEF GetRemove
<1> DEFINE a == table[key[t]]
<1>0. /\ key[t] \in Key /\ UNCHANGED <<now, item, copy>>
      /\ pc[t] = "remove" /\ pc' = [pc EXCEPT ![t] = "idle"]
      /\ key' = [key EXCEPT ![t] = NoKey] /\ ptr' = [ptr EXCEPT ![t] = NONE]
  BY DEF Carries, GetRemove, GetEnds, Goto
<1>1. CASE a = NONE
  <2>1. crashed' = TRUE /\ UNCHANGED store
    BY <1>1 DEF GetRemove
  <2>2. TypeOK'
    BY <1>0, <1>w, <2>1 DEF TypeOK, store
  <2>3. Once' /\ Taken' /\ NoLeak' /\ Keyed' /\ Carries'
    BY <1>0, <2>1 DEF TypeOK, Once, Taken, NoLeak, Keyed, Carries, store
  <2> QED BY <2>2, <2>3
<1>2. CASE a # NONE
  <2>1. /\ table' = [table EXCEPT ![key[t]] = NONE]
        /\ heap' = [heap EXCEPT ![a] = Freed(a)]
        /\ allocated' = allocated \ {a}
        /\ UNCHANGED crashed
    BY <1>2 DEF GetRemove
  <2>2. TypeOK' /\ Once' /\ Taken' /\ NoLeak' /\ Keyed'
    BY <1>0, <1>2, <1>w, <2>1, TableFreed
  <2>3. Carries'
    BY <1>0, <1>2, <2>1 DEF TypeOK, Carries, Once, Taken
  <2> QED BY <2>2, <2>3
<1> QED BY <1>1, <1>2

LEMMA RemoveStep ==
  ASSUME Inv, NEW t \in Threads, NEW k \in Key, Remove(t, k)
  PROVE  Inv'
<1> USE DEF Inv
<1>w. missed' \in [Threads -> BOOLEAN]
  BY WatchTyped DEF Remove
<1>1. /\ table[k] # NONE
      /\ table' = [table EXCEPT ![k] = NONE]
      /\ heap' = [heap EXCEPT ![table[k]] = Freed(table[k])]
      /\ allocated' = allocated \ {table[k]}
      /\ UNCHANGED <<now, crashed, key, ptr, item, copy>>
      /\ pc[t] = "idle" /\ pc' = [pc EXCEPT ![t] = "idle"]
  BY DEF Remove, Goto
<1>2. TypeOK' /\ Once' /\ Taken' /\ NoLeak' /\ Keyed'
  BY <1>1, <1>w, TableFreed
<1>3. Carries'
  BY <1>1 DEF TypeOK, Carries, Once, Taken
<1> QED BY <1>2, <1>3

LEMMA ReturnItemStep ==
  ASSUME Inv, NEW t \in Threads, ReturnItem(t)
  PROVE  Inv'
<1> USE DEF Inv
<1>w. missed' \in [Threads -> BOOLEAN]
  BY WatchTyped DEF ReturnItem
<1>1. /\ item[t] # NONE
      /\ heap' = [heap EXCEPT ![item[t]] = Freed(item[t])]
      /\ allocated' = allocated \ {item[t]}
      /\ item' = [item EXCEPT ![t] = NONE]
      /\ UNCHANGED <<table, now, crashed, key, ptr, copy>>
      /\ pc[t] = "idle" /\ pc' = [pc EXCEPT ![t] = "idle"]
  BY DEF ReturnItem, Goto
<1>2. TypeOK'
  BY <1>1, <1>w, FreedIsItem DEF TypeOK
<1>3. Once' /\ Taken'
  BY <1>1 DEF TypeOK, Once, Taken
<1>4. NoLeak'
  BY <1>1 DEF TypeOK, NoLeak
<1>5. Keyed'
  BY <1>1 DEF TypeOK, Keyed, Once, Taken
<1>6. Carries'
  BY <1>1 DEF TypeOK, Carries, Once, Taken
<1> QED BY <1>2, <1>3, <1>4, <1>5, <1>6

LEMMA ChangeStep ==
  ASSUME Inv, NEW t \in Threads, NEW e \in Time, ItemChangeData(t, e)
  PROVE  Inv'
<1> USE DEF Inv
<1>w. missed' \in [Threads -> BOOLEAN]
  BY WatchTyped DEF ItemChangeData
<1>1. /\ item[t] # NONE
      /\ heap' = [heap EXCEPT ![item[t]].expires = e]
      /\ UNCHANGED <<table, allocated, now, crashed, key, ptr, item, copy>>
      /\ pc[t] = "idle" /\ pc' = [pc EXCEPT ![t] = "idle"]
  BY DEF ItemChangeData, Goto
<1>2. TypeOK'
  BY <1>1, <1>w DEF TypeOK, Item
<1>3. Once' /\ Taken' /\ NoLeak'
  BY <1>1 DEF Once, Taken, NoLeak
<1>4. \A b \in Addr : heap'[b].key = heap[b].key /\ heap'[b].cas = heap[b].cas
  BY <1>1 DEF TypeOK, Item
<1>5. Keyed'
  BY <1>1, <1>4 DEF TypeOK, Keyed
<1>6. Carries'
  BY <1>1, <1>4 DEF TypeOK, Carries
<1> QED BY <1>2, <1>3, <1>5, <1>6
LEMMA PutStartStep ==
  ASSUME Inv, NEW t \in Threads, NEW k \in Key, NEW e \in Time, PutStart(t, k, e)
  PROVE  Inv'
<1> USE DEF Inv
<1>w. missed' \in [Threads -> BOOLEAN]
  BY WatchTyped DEF PutStart
<1> DEFINE new == [key |-> k, cas |-> 1, expires |-> e]
<1>1. PICK a \in Addr \ allocated, b \in Addr \ allocated :
        /\ a # b
        /\ heap' = [heap EXCEPT ![a] = new, ![b] = new]
        /\ allocated' = allocated \cup {a, b}
        /\ item' = [item EXCEPT ![t] = a]
        /\ copy' = [copy EXCEPT ![t] = b]
  BY DEF PutStart
<1>2. /\ item[t] = NONE /\ copy[t] = NONE
      /\ a # NONE /\ b # NONE
      /\ UNCHANGED <<table, now, crashed, key, ptr>>
      /\ pc[t] = "idle" /\ pc' = [pc EXCEPT ![t] = "put"]
  BY StorageAssumption DEF PutStart, Goto, Carries
<1>3. TypeOK'
  <2>1. new \in Item
    BY StorageAssumption DEF Item
  <2>2. heap' \in [Addr -> Item]
    BY <1>1, <2>1 DEF TypeOK
  <2> QED BY <1>w, <1>1, <1>2, <2>2 DEF TypeOK
<1>4. /\ heap'[a] = new /\ heap'[b] = new
      /\ \A c \in allocated : heap'[c] = heap[c]
  BY <1>1 DEF TypeOK
<1>5. Once'
  BY <1>1, <1>2 DEF TypeOK, Once, Taken
<1>6. Taken'
  BY <1>1, <1>2 DEF TypeOK, Taken
<1>7. NoLeak'
  <2>1. item'[t] = a /\ copy'[t] = b
    BY <1>1 DEF TypeOK
  <2>2. \A u \in Threads : u # t => item'[u] = item[u] /\ copy'[u] = copy[u]
    BY <1>1 DEF TypeOK
  <2>3. ASSUME NEW c \in allocated
        PROVE  \/ \E j \in Key : table'[j] = c
               \/ \E u \in Threads : item'[u] = c \/ copy'[u] = c
    BY <1>2, <2>2, StorageAssumption DEF TypeOK, NoLeak
  <2> QED BY <1>1, <2>1, <2>3 DEF NoLeak
<1>8. Keyed'
  BY <1>1, <1>2, <1>4 DEF TypeOK, Keyed, Taken
<1>9. Carries'
  BY <1>1, <1>2, <1>4 DEF TypeOK, Carries, Taken
<1> QED BY <1>3, <1>5, <1>6, <1>7, <1>8, <1>9

LEMMA UpdateStartStep ==
  ASSUME Inv, NEW t \in Threads, UpdateStart(t)
  PROVE  Inv'
<1> USE DEF Inv
<1>w. missed' \in [Threads -> BOOLEAN]
  BY WatchTyped DEF UpdateStart
<1> DEFINE new == [heap[item[t]] EXCEPT !.cas = @ + 1]
<1>1. PICK b \in Addr \ allocated :
        /\ heap' = [heap EXCEPT ![item[t]] = new, ![b] = new]
        /\ allocated' = allocated \cup {b}
        /\ copy' = [copy EXCEPT ![t] = b]
  BY DEF UpdateStart
<1>2. /\ item[t] # NONE /\ item[t] \in Addr /\ copy[t] = NONE /\ b # NONE
      /\ heap[item[t]].cas < MaxCas
      /\ UNCHANGED <<table, now, crashed, key, ptr, item>>
      /\ pc[t] = "idle" /\ pc' = [pc EXCEPT ![t] = "put"]
  BY StorageAssumption DEF TypeOK, UpdateStart, Goto, Carries
<1>3. new \in Item /\ new.key = heap[item[t]].key
  <2>1. heap[item[t]] \in Item
    BY <1>2 DEF TypeOK
  <2>2. heap[item[t]].cas + 1 \in 0..(MaxCas + 1)
    BY <1>2, <2>1, StorageAssumption DEF Item
  <2> QED BY <2>1, <2>2 DEF Item
<1> HIDE DEF new
<1>4. /\ heap'[item[t]] = new /\ heap'[b] = new
      /\ \A c \in allocated : c # item[t] => heap'[c] = heap[c]
      /\ heap' \in [Addr -> Item]
  BY <1>1, <1>2, <1>3 DEF TypeOK, Taken
<1>5. TypeOK'
  BY <1>w, <1>1, <1>2, <1>4 DEF TypeOK
<1>6. Once'
  BY <1>1, <1>2 DEF TypeOK, Once, Taken
<1>7. Taken'
  BY <1>1, <1>2 DEF TypeOK, Taken
<1>8. NoLeak'
  <2>1. copy'[t] = b
    BY <1>1 DEF TypeOK
  <2>2. \A u \in Threads : u # t => copy'[u] = copy[u]
    BY <1>1 DEF TypeOK
  <2>3. ASSUME NEW c \in allocated
        PROVE  \/ \E j \in Key : table'[j] = c
               \/ \E u \in Threads : item'[u] = c \/ copy'[u] = c
    BY <1>2, <2>2, StorageAssumption DEF TypeOK, NoLeak
  <2> QED BY <1>1, <2>1, <2>3 DEF NoLeak
<1>9. Keyed'
  BY <1>1, <1>2, <1>3, <1>4 DEF TypeOK, Keyed, Taken, Once
<1>10. Carries'
  BY <1>1, <1>2, <1>3, <1>4 DEF TypeOK, Carries, Taken, Once
<1> QED BY <1>5, <1>6, <1>7, <1>8, <1>9, <1>10

\* What a thread holds in a put.
LEMMA PutHolds ==
  ASSUME Inv, NEW t \in Threads, pc[t] = "put"
  PROVE  /\ item[t] \in Addr /\ item[t] \in allocated /\ item[t] # NONE
         /\ copy[t] \in Addr /\ copy[t] \in allocated /\ copy[t] # NONE
         /\ item[t] # copy[t]
         /\ PutKey(t) \in Key
         /\ heap[copy[t]].key = PutKey(t)
         /\ heap[copy[t]].cas = casToCheck(t) + 1
         /\ casToCheck(t) \in Int
<1>1. /\ item[t] \in Addr /\ item[t] \in allocated /\ item[t] # NONE
      /\ copy[t] \in Addr /\ copy[t] \in allocated /\ copy[t] # NONE
      /\ item[t] # copy[t]
  BY DEF Inv, TypeOK, Carries, Taken, Once
<1>2. heap[item[t]] \in Item
  BY <1>1 DEF Inv, TypeOK
<1>3. heap[item[t]].cas \in Int
  BY <1>2, StorageAssumption DEF Item
<1> QED BY <1>1, <1>3 DEF Inv, Carries, Keyed, PutKey, casToCheck

LEMMA PutSucceedsStep ==
  ASSUME Inv, NEW t \in Threads, PutSucceeds(t)
  PROVE  Inv'
<1> USE DEF Inv
<1>w. missed' \in [Threads -> BOOLEAN]
  BY WatchTyped DEF PutSucceeds
<1> DEFINE k == PutKey(t)
           a == table[k]
<1>1. /\ pc[t] = "put" /\ pc' = [pc EXCEPT ![t] = "idle"]
      /\ table' = [table EXCEPT ![k] = copy[t]]
      /\ heap' = IF a = NONE THEN heap ELSE [heap EXCEPT ![a] = Freed(a)]
      /\ allocated' = allocated \ {a}
      /\ copy' = [copy EXCEPT ![t] = NONE]
      /\ UNCHANGED <<now, crashed, key, ptr, item>>
  BY DEF PutSucceeds, Goto
<1>2. /\ k \in Key /\ item[t] # NONE
      /\ copy[t] \in Addr /\ copy[t] \in allocated /\ copy[t] # NONE
      /\ heap[copy[t]].key = k
  BY <1>1, PutHolds
<1>3. a \in Addr \cup {NONE} /\ a # copy[t] /\ a # item[t]
  BY <1>2 DEF TypeOK, Once
<1> HIDE DEF k
<1>4. TypeOK'
  <2>1. heap' \in [Addr -> Item]
    BY <1>1, <1>3, FreedIsItem DEF TypeOK
  <2> QED BY <1>w, <1>1, <1>2, <2>1 DEF TypeOK
<1>5. Once'
  BY <1>1, <1>2, <1>3 DEF TypeOK, Once
<1>6. Taken'
  BY <1>1, <1>2, <1>3 DEF TypeOK, Once, Taken
<1>7. NoLeak'
  <2>1. table'[k] = copy[t]
    BY <1>1, <1>2 DEF TypeOK
  <2>2. \A j \in Key : j # k => table'[j] = table[j]
    BY <1>1 DEF TypeOK
  <2>3. \A u \in Threads : u # t => copy'[u] = copy[u]
    BY <1>1 DEF TypeOK
  <2> QED BY <1>1, <1>2, <2>1, <2>2, <2>3 DEF TypeOK, NoLeak
<1>8. \A b \in Addr : b # a => heap'[b] = heap[b]
  BY <1>1, <1>3 DEF TypeOK
<1>9. Keyed'
  BY <1>1, <1>2, <1>3, <1>8 DEF TypeOK, Keyed, Once
<1>10. Carries'
  <2>1. \A u \in Threads : u # t => copy'[u] = copy[u] /\ pc'[u] = pc[u]
    BY <1>1 DEF TypeOK
  <2>2. copy'[t] = NONE /\ pc'[t] = "idle"
    BY <1>1 DEF TypeOK
  <2>3. \A u \in Threads : copy[u] # NONE => heap'[copy[u]] = heap[copy[u]]
    BY <1>2, <1>8 DEF TypeOK, Once
  <2>4. \A u \in Threads : item[u] # NONE => heap'[item[u]] = heap[item[u]]
    BY <1>2, <1>8 DEF TypeOK, Once
  <2> QED BY <1>1, <2>1, <2>2, <2>3, <2>4 DEF TypeOK, Carries
<1> QED BY <1>4, <1>5, <1>6, <1>7, <1>9, <1>10

LEMMA PutFailsStep ==
  ASSUME Inv, NEW t \in Threads, PutFails(t)
  PROVE  Inv'
<1> USE DEF Inv
<1>w. missed' \in [Threads -> BOOLEAN]
  BY WatchTyped DEF PutFails
<1> DEFINE b == copy[t]
           i == item[t]
           present == heap[table[PutKey(t)]]
<1>1. /\ pc[t] = "put" /\ pc' = [pc EXCEPT ![t] = "idle"]
      /\ copy' = [copy EXCEPT ![t] = NONE]
      /\ UNCHANGED <<table, now, crashed, key, ptr>>
      /\ table[PutKey(t)] # NONE
  BY DEF PutFails, Goto
<1>2. /\ i \in Addr /\ i \in allocated /\ i # NONE
      /\ b \in Addr /\ b \in allocated /\ b # NONE
      /\ i # b
  BY <1>1, PutHolds
<1>3. present \in Item /\ present.key \in Key
  BY <1>1, PutHolds DEF TypeOK, Keyed
<1>4. Freed(b) \in Item /\ Freed(i) \in Item
  BY <1>2, FreedIsItem
<1>5. /\ copy'[t] = NONE /\ pc'[t] = "idle"
      /\ \A u \in Threads : u # t => copy'[u] = copy[u] /\ pc'[u] = pc[u]
  BY <1>1 DEF TypeOK
<1>6. /\ \A k \in Key : table[k] \notin {b, i}
      /\ \A u \in Threads : u # t => item[u] \notin {b, i} /\ copy[u] \notin {b, i}
  BY <1>2 DEF TypeOK, Once
<1> HIDE DEF b, i, present
\* Whatever the caller is left with, what others own is as it was.
<1>7. ASSUME NEW mine \in Addr \cup {NONE},
             item' = [item EXCEPT ![t] = mine],
             allocated' = (allocated \ {b, i}) \cup ({mine} \ {NONE}),
             mine = i \/ mine \notin allocated,
             heap' \in [Addr -> Item],
             \A c \in allocated \ {b, i} : heap'[c] = heap[c],
             mine # NONE => heap'[mine].key \in Key
      PROVE  Inv'
  <2>1. /\ item'[t] = mine
        /\ \A u \in Threads : u # t => item'[u] = item[u]
    BY <1>7 DEF TypeOK
  <2>2. TypeOK'
    BY <1>w, <1>1, <1>7, StorageAssumption DEF TypeOK
  <2>3. /\ \A k \in Key : table[k] # NONE => table[k] # mine
        /\ \A u \in Threads : u # t /\ item[u] # NONE => item[u] # mine
        /\ \A u \in Threads : u # t /\ copy[u] # NONE => copy[u] # mine
    BY <1>6, <1>7 DEF Taken
  <2>4. Once'
    BY <1>1, <1>5, <2>1, <2>3 DEF Once
  <2>5. Taken'
    BY <1>1, <1>5, <1>6, <1>7, <2>1 DEF Taken
  <2>6. NoLeak'
    BY <1>1, <1>5, <1>7, <2>1 DEF NoLeak, b, i
  <2>7. Keyed'
    BY <1>1, <1>6, <1>7, <2>1 DEF Keyed, Taken
  <2>8. Carries'
    BY <1>1, <1>5, <1>6, <1>7, <2>1 DEF Carries, Taken
  <2> QED BY <2>2, <2>4, <2>5, <2>6, <2>7, <2>8
<1>8. CASE \E a \in Addr \ allocated :
             /\ heap' = [heap EXCEPT ![a] = present, ![b] = Freed(b), ![i] = Freed(i)]
             /\ allocated' = (allocated \ {b, i}) \cup {a}
             /\ item' = [item EXCEPT ![t] = a]
  <2>1. PICK a \in Addr \ allocated :
             /\ heap' = [heap EXCEPT ![a] = present, ![b] = Freed(b), ![i] = Freed(i)]
             /\ allocated' = (allocated \ {b, i}) \cup {a}
             /\ item' = [item EXCEPT ![t] = a]
    BY <1>8
  <2>2. /\ a # NONE /\ a # b /\ a # i
    BY <1>2, StorageAssumption
  <2>3. /\ heap' \in [Addr -> Item] /\ heap'[a] = present
        /\ \A c \in allocated \ {b, i} : heap'[c] = heap[c]
    BY <1>2, <1>3, <1>4, <2>1, <2>2 DEF TypeOK
  <2> QED BY <1>3, <1>7, <2>1, <2>2, <2>3
<1>9. CASE /\ heap' = [heap EXCEPT ![b] = Freed(b)]
           /\ allocated' = allocated \ {b}
           /\ UNCHANGED item
  <2>1. item' = [item EXCEPT ![t] = i] /\ allocated' = (allocated \ {b, i}) \cup ({i} \ {NONE})
    BY <1>2, <1>9 DEF TypeOK, i
  <2>2. /\ heap' \in [Addr -> Item] /\ heap'[i] = heap[i]
        /\ \A c \in allocated \ {b, i} : heap'[c] = heap[c]
    BY <1>2, <1>4, <1>9 DEF TypeOK
  <2>3. heap[i].key \in Key
    BY <1>2 DEF Keyed, i
  <2> QED BY <1>2, <1>7, <2>1, <2>2, <2>3
<1>10. CASE /\ heap' = [heap EXCEPT ![b] = Freed(b), ![i] = Freed(i)]
            /\ allocated' = allocated \ {b, i}
            /\ item' = [item EXCEPT ![t] = NONE]
  <2>1. /\ heap' \in [Addr -> Item]
        /\ \A c \in allocated \ {b, i} : heap'[c] = heap[c]
    BY <1>2, <1>4, <1>10 DEF TypeOK
  <2>2. NONE \notin allocated
    BY StorageAssumption DEF TypeOK
  <2> QED BY <1>7, <1>10, <2>1, <2>2
<1>11. \/ \E a \in Addr \ allocated :
             /\ heap' = [heap EXCEPT ![a] = present, ![b] = Freed(b), ![i] = Freed(i)]
             /\ allocated' = (allocated \ {b, i}) \cup {a}
             /\ item' = [item EXCEPT ![t] = a]
       \/ /\ heap' = [heap EXCEPT ![b] = Freed(b)]
          /\ allocated' = allocated \ {b}
          /\ UNCHANGED item
       \/ /\ heap' = [heap EXCEPT ![b] = Freed(b), ![i] = Freed(i)]
          /\ allocated' = allocated \ {b, i}
          /\ item' = [item EXCEPT ![t] = NONE]
  BY DEF PutFails, b, i, present
<1> QED BY <1>8, <1>9, <1>10, <1>11


LEMMA PutMissingStep ==
  ASSUME Inv, NEW t \in Threads, PutMissing(t)
  PROVE  Inv'
<1> USE DEF Inv
<1>w. missed' \in [Threads -> BOOLEAN]
  BY WatchTyped DEF PutMissing
<1>1. pc' = pc /\ crashed' = TRUE /\ UNCHANGED <<table, heap, allocated, now, key, ptr, item, copy>>
  BY DEF PutMissing, Goto, store, TypeOK
<1>2. TypeOK'
  BY <1>w, <1>1 DEF TypeOK
<1>3. Once' /\ Taken' /\ NoLeak' /\ Keyed' /\ Carries'
  BY <1>1 DEF Once, Taken, NoLeak, Keyed, Carries
<1> QED BY <1>2, <1>3

LEMMA NextInv ==
  ASSUME Inv, [Next]_vars
  PROVE  Inv'
<1>1. ASSUME NEW t \in Threads, Step(t)
      PROVE  Inv'
  BY <1>1, LookStep, GetCopyStep, GetRemoveStep, RemoveStep, ReturnItemStep, ChangeStep,
     PutStartStep, UpdateStartStep, PutSucceedsStep, PutFailsStep, PutMissingStep DEF Step
<1>2. CASE Tick
  BY <1>2, TickStep
<1>3. CASE UNCHANGED vars
  BY <1>3, StutterStep
<1> QED BY <1>1, <1>2, <1>3 DEF Next

\* Inv holds in every behaviour, for any threads, keys and addresses.
THEOREM InvHolds == Spec => []Inv
<1>1. Init => Inv
  BY InitInv
<1>2. Inv /\ [Next]_vars => Inv'
  BY NextInv
<1> QED BY <1>1, <1>2, PTL DEF Spec

\* The items of the table are alive and under their own keys, whatever gets,
\* puts and removals of expired items free at the same time.
THEOREM ItemsAlive == Spec => []TableItemsAlive
<1>1. Inv => TableItemsAlive
  BY DEF Inv, TypeOK, Taken, Keyed, TableItemsAlive
<1> QED BY <1>1, InvHolds, PTL

\* Every item has exactly one owner, and none is lost: on no path of a put, a
\* get or a removal (storage.c:617-686).
THEOREM OwnedOnce == Spec => []OneOwner
<1>1. Inv => OneOwner
  <2> SUFFICES ASSUME Inv PROVE OneOwner
    OBVIOUS
  <2> USE DEF Inv
  <2>1. ASSUME NEW o \in Owners, NEW p \in Owners, Owned(o) = Owned(p)
        PROVE  o = p
    <3>1. \A q \in Owners :
            \/ \E k \in Key : q = <<"table", k>> /\ table[k] # NONE /\ Owned(q) = table[k]
            \/ \E t \in Threads : q = <<"item", t>> /\ item[t] # NONE /\ Owned(q) = item[t]
            \/ \E t \in Threads : q = <<"copy", t>> /\ copy[t] # NONE /\ Owned(q) = copy[t]
      BY DEF Owners, Owned
    <3> HIDE DEF Owners, Owned
    <3> QED BY <2>1, <3>1 DEF Once
  <2>2. ASSUME NEW a \in allocated
        PROVE  \E o \in Owners : Owned(o) = a
    <3>0. a # NONE
      BY StorageAssumption DEF TypeOK
    <3>1. ASSUME NEW k \in Key, table[k] = a
          PROVE  <<"table", k>> \in Owners /\ Owned(<<"table", k>>) = a
      BY <3>0, <3>1 DEF Owners, Owned
    <3>2. ASSUME NEW t \in Threads, item[t] = a
          PROVE  <<"item", t>> \in Owners /\ Owned(<<"item", t>>) = a
      BY <3>0, <3>2 DEF Owners, Owned
    <3>3. ASSUME NEW t \in Threads, copy[t] = a
          PROVE  <<"copy", t>> \in Owners /\ Owned(<<"copy", t>>) = a
      BY <3>0, <3>3 DEF Owners, Owned
    <3> QED BY <3>1, <3>2, <3>3 DEF NoLeak
  <2>3. \A o \in Owners : Owned(o) \in allocated
    BY DEF Owners, Owned, Taken
  <2>4. allocated = {Owned(o) : o \in Owners}
    BY <2>2, <2>3
  <2> QED BY <2>1, <2>4 DEF OneOwner
<1> QED BY <1>1, InvHolds, PTL

-----------------------------------------------------------------------------
(* The table is a versioned store.                                          *)

\* The item under a key is never mistaken for NONE.
LEMMA ItemThere ==
  ASSUME TypeOK, NEW k \in Key, table[k] # NONE
  PROVE  /\ items[k] # NONE
         /\ items[k].cas = heap[table[k]].cas
         /\ items[k].expires = heap[table[k]].expires
<1>1. heap[table[k]] \in Item
  BY DEF TypeOK
<1>2. /\ heap[table[k]].cas \in 0..(MaxCas + 1)
      /\ heap[table[k]].expires \in 0..MaxTime
  BY <1>1 DEF Item, Time
<1> QED BY <1>2, StorageAssumption DEF items

\* What happens to items outside the table does not matter to it.
LEMMA TableUntouched ==
  ASSUME table' = table,
         \A k \in Key : table[k] # NONE => heap'[table[k]] = heap[table[k]]
  PROVE  items' = items
BY DEF items

\* Taking an item out of the table leaves the others.
LEMMA TakenOut ==
  ASSUME Inv, NEW k \in Key, table[k] # NONE, now' = now,
         table' = [table EXCEPT ![k] = NONE],
         heap' = [heap EXCEPT ![table[k]] = Freed(table[k])]
  PROVE  Store!Remove(k)
<1>1. \A j \in Key : j # k => items'[j] = items[j]
  BY DEF Inv, TypeOK, Once, items
<1>2. items'[k] = NONE
  BY DEF Inv, TypeOK, items
<1>3. /\ items = [j \in Key |-> items[j]]
      /\ items' = [j \in Key |-> items'[j]]
  BY DEF items
<1>4. items' = [items EXCEPT ![k] = NONE]
  BY <1>1, <1>2, <1>3
<1> QED BY <1>4 DEF Store!Remove

LEMMA PutRefines ==
  ASSUME Inv, NEW t \in Threads, PutSucceeds(t)
  PROVE  \E k \in Key : Store!Insert(k) \/ Store!Update(k)
<1> DEFINE k == PutKey(t)
           a == table[k]
<1>1. /\ pc[t] = "put" /\ MayPut(t)
      /\ table' = [table EXCEPT ![k] = copy[t]]
      /\ heap' = IF a = NONE THEN heap ELSE [heap EXCEPT ![a] = Freed(a)]
      /\ now' = now
  BY DEF PutSucceeds, Goto
<1>2. /\ k \in Key
      /\ copy[t] \in Addr /\ copy[t] # NONE
      /\ heap[copy[t]].cas = casToCheck(t) + 1
      /\ casToCheck(t) \in Int
  BY <1>1, PutHolds
<1>3. /\ a # NONE => /\ items[k] # NONE
                     /\ items[k].cas = heap[a].cas
                     /\ items[k].expires = heap[a].expires
      /\ a = NONE => items[k] = NONE
  BY <1>2, ItemThere DEF Inv, items
<1>4. casToCheck(t) = 0 => Store!Missing(k)
  BY <1>1, <1>3 DEF MayPut, Missing, Store!Missing, Fresh, Store!Fresh
<1>5. casToCheck(t) # 0 => a # NONE /\ heap[a].cas = casToCheck(t)
  BY <1>1 DEF MayPut
<1> HIDE DEF k
<1>6. /\ table'[k] = copy[t] /\ heap'[copy[t]] = heap[copy[t]]
      /\ TypeOK'
  BY <1>1, <1>2, PutSucceedsStep DEF Inv, TypeOK, Once
<1>7. items'[k] # NONE /\ items'[k].cas = casToCheck(t) + 1
  <2>1. /\ heap[copy[t]].cas \in 0..(MaxCas + 1)
        /\ heap[copy[t]].expires \in 0..MaxTime
    BY <1>2 DEF Inv, TypeOK, Item, Time
  <2>2. items'[k] = [cas |-> heap[copy[t]].cas, expires |-> heap[copy[t]].expires]
    BY <1>2, <1>6 DEF items
  <2> QED BY <1>2, <2>1, <2>2, StorageAssumption
<1>8. \A j \in Key : j # k => items'[j] = items[j]
  BY <1>1, <1>2 DEF Inv, TypeOK, Once, items
<1>9. items' = [items EXCEPT ![k] = items'[k]]
  BY <1>8, ZenonT(40) DEF items
<1>10. Store!Becomes(k, casToCheck(t) + 1)
  BY <1>1, <1>7, <1>9 DEF Store!Becomes
<1>11. CASE casToCheck(t) = 0
  BY <1>2, <1>4, <1>10, <1>11 DEF Store!Insert
<1>12. CASE casToCheck(t) # 0
  BY <1>2, <1>3, <1>5, <1>10, <1>12 DEF Store!Update
<1> QED BY <1>11, <1>12

\* The steps that leave the table as it is.
LEMMA OthersRefine ==
  ASSUME Inv, NEW t \in Threads,
         \/ \E k \in Key : GetLookup(t, k) \/ \E e \in Time : PutStart(t, k, e)
         \/ GetJudge(t) \/ GetCopy(t) \/ UpdateStart(t) \/ PutFails(t) \/ PutMissing(t)
         \/ ReturnItem(t) \/ \E e \in Time : ItemChangeData(t, e)
  PROVE  UNCHANGED <<items, now>>
<1> USE DEF Inv
<1>1. now' = now /\ table' = table
  BY DEF GetLookup, PutStart, GetJudge, GetCopy, UpdateStart, PutFails, PutMissing,
     ReturnItem, ItemChangeData, store
<1>2. CASE \/ \E k \in Key : GetLookup(t, k) \/ \E e \in Time : PutStart(t, k, e)
           \/ GetJudge(t) \/ GetCopy(t) \/ PutMissing(t)
  <2>1. \A c \in allocated : heap'[c] = heap[c]
    BY <1>2 DEF TypeOK, GetLookup, PutStart, GetJudge, GetCopy, PutMissing, store
  <2> QED BY <1>1, <2>1, TableUntouched DEF Taken
<1>3. CASE \/ UpdateStart(t) \/ PutFails(t) \/ ReturnItem(t)
           \/ \E e \in Time : ItemChangeData(t, e)
  <2>1. \A c \in allocated \ {item[t], copy[t]} : heap'[c] = heap[c]
    BY <1>3 DEF TypeOK, UpdateStart, PutFails, ReturnItem, ItemChangeData
  <2>2. \A k \in Key : table[k] # NONE => table[k] \in allocated \ {item[t], copy[t]}
    BY DEF Taken, Once
  <2> QED BY <1>1, <2>1, <2>2, TableUntouched
<1> QED BY <1>2, <1>3

LEMMA NextRefines ==
  ASSUME Inv, [Next]_vars
  PROVE  [Store!Next]_<<items, now>>
<1>1. ASSUME NEW t \in Threads, PutSucceeds(t)
      PROVE  Store!Next
  BY <1>1, PutRefines DEF Store!Next
<1>2. ASSUME NEW t \in Threads, NEW k \in Key, Remove(t, k)
      PROVE  Store!Next
  BY <1>2, TakenOut DEF Remove, Store!Next
<1>3. ASSUME NEW t \in Threads, GetRemove(t)
      PROVE  Store!Next \/ UNCHANGED <<items, now>>
  <2>1. key[t] \in Key /\ now' = now
    BY <1>3 DEF Inv, Carries, GetRemove, Goto
  <2>2. CASE table[key[t]] = NONE
    BY <1>3, <2>1, <2>2, TableUntouched DEF GetRemove, store
  <2>3. CASE table[key[t]] # NONE
    BY <1>3, <2>1, <2>3, TakenOut DEF GetRemove, Store!Next
  <2> QED BY <2>2, <2>3
<1>4. CASE Tick
  <2>1. now' \in Nat /\ now' > now /\ items' = items
    BY <1>4, StorageAssumption, TableUntouched DEF Inv, TypeOK, Tick, store
  <2> QED BY <2>1 DEF Store!Next, Store!Tick
<1>5. CASE UNCHANGED vars
  BY <1>5, TableUntouched DEF vars, store
<1>6. ASSUME NEW t \in Threads, Step(t)
      PROVE  Store!Next \/ UNCHANGED <<items, now>>
  BY <1>1, <1>2, <1>3, <1>6, OthersRefine DEF Step
<1> QED BY <1>4, <1>5, <1>6 DEF Next

\* The table is a versioned store (include/crankshaft/storage.h) for any number
\* of threads, keys and addresses: a live item is replaced by its next version
\* only, whatever the threads do at once.
THEOREM ImplementsVersionedStore == Spec => ImplementsStore
<1>1. Init => Store!Init
  BY DEF Init, Store!Init, items
<1>2. Inv /\ [Next]_vars => [Store!Next]_<<items, now>>
  BY NextRefines
<1> QED BY <1>1, <1>2, InvHolds, PTL DEF Spec, ImplementsStore, Store!Spec
=============================================================================
