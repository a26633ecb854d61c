---------------------------- MODULE HashStorage ----------------------------
(***************************************************************************)
(* The key-value storage of src/storage.c on its hashtable backend, shared *)
(* by threads: CS_storageGet, Put, Update, Remove, ReturnItem and          *)
(* ItemChangeData.  The hashtable (src/hashtable.c) locks every lookup,    *)
(* removal and PutMaybe; what the backend does with the items it found,    *)
(* it does before or after, unlocked.                                      *)
(*                                                                         *)
(* An item lives at an address of the item slab.  An item that is given    *)
(* back keeps its expiry and loses its key and cas; the address may then be*)
(* taken again.  An item taken out of the table is freed in the same step: *)
(* nobody finds it any more, and a get that already has its address may    *)
(* take its step before.  Values are left out (an item is its key, version *)
(* and expiry); a copy is one step.                                        *)
(***************************************************************************)
EXTENDS Integers, FiniteSets

CONSTANTS Threads,  (* threads of the program that use the storage          *)
          Key, NoKey,
          Addr,     (* addresses of the item slab                           *)
          NONE,     (* no item: NULL, and CS_HASHTABLE_ERROR in the table   *)
          MaxCas,   (* bound on the versions of an item                     *)
          MaxTime   (* bound on the clock                                   *)

ASSUME StorageAssumption ==
  /\ NoKey \notin Key
  /\ NONE \notin Addr \cup [cas : 0..(MaxCas + 1), expires : 0..MaxTime]
  /\ MaxCas \in Nat /\ MaxTime \in Nat \ {0}

VARIABLES
  table,      (* the address stored under each key                          *)
  heap,       (* the contents of every address                              *)
  allocated,  (* the addresses taken from the slab                          *)
  now,        (* time(NULL)                                                 *)
  crashed,    (* a pointer that is none was followed                        *)
  pc,         (* what each thread does next                                 *)
  key,        (* the key of its get                                         *)
  ptr,        (* the address its get has found in the table                 *)
  item,       (* the item it holds, or passes to put                        *)
  copy,       (* itemCopy of privateHashtablePut                            *)
  missed      (* its key was missing at some time of the get (history)      *)

store == <<table, heap, allocated>>
thread == <<pc, key, ptr, item, copy>>
vars == <<store, now, crashed, thread, missed>>

Time  == 0..MaxTime
Item  == [key : Key \cup {NoKey}, cas : 0..(MaxCas + 1), expires : Time]

Init ==
  /\ table = [k \in Key |-> NONE]
  /\ heap = [a \in Addr |-> [key |-> NoKey, cas |-> 0, expires |-> 0]]
  /\ allocated = {}
  /\ now = 1 /\ crashed = FALSE
  /\ pc = [t \in Threads |-> "idle"]
  /\ key = [t \in Threads |-> NoKey]
  /\ ptr = [t \in Threads |-> NONE]
  /\ item = [t \in Threads |-> NONE]
  /\ copy = [t \in Threads |-> NONE]
  /\ missed = [t \in Threads |-> FALSE]

Fresh(e) == e = 0 \/ e > now
Missing(k) == table[k] # NONE => ~Fresh(heap[table[k]].expires)

\* privateReturnStorageItem
Freed(a) == [key |-> NoKey, cas |-> 0, expires |-> heap[a].expires]

\* A crashed program takes no step.
Goto(t, from, to) == ~crashed /\ pc[t] = from /\ pc' = [pc EXCEPT ![t] = to]

\* While a get runs, its key has been missing once it has been at any time.
Watch ==
  missed' = [t \in Threads |->
    \E k \in Key : key'[t] = k /\ (missed[t] \/ Missing(k)')]

-----------------------------------------------------------------------------
(* CS_storageGet: privateHashtableGet                                       *)

\* CS_hashtableGet, under the mutex of the table.
GetLookup(t, k) ==
  /\ item[t] = NONE
  /\ IF table[k] = NONE
     THEN Goto(t, "idle", "idle") /\ UNCHANGED <<key, ptr>>
     ELSE /\ Goto(t, "idle", "judge")
          /\ key' = [key EXCEPT ![t] = k]
          /\ ptr' = [ptr EXCEPT ![t] = table[k]]
  /\ UNCHANGED <<store, now, crashed, item, copy>>
  /\ Watch

\* old->expires, unlocked
GetJudge(t) ==
  /\ Goto(t, "judge", IF Fresh(heap[ptr[t]].expires) THEN "copy" ELSE "remove")
  /\ UNCHANGED <<store, now, crashed, key, ptr, item, copy>>
  /\ Watch

\* The call ends; its locals go.
GetEnds(t) ==
  /\ key' = [key EXCEPT ![t] = NoKey]
  /\ ptr' = [ptr EXCEPT ![t] = NONE]

\* privateDeepCopyStorageItem, unlocked: NULL if the address has lost its key
\* (the slab item taken for the copy goes back).
GetCopy(t) ==
  /\ Goto(t, "copy", "idle")
  /\ LET old == heap[ptr[t]] IN
     IF old.key = NoKey
     THEN UNCHANGED <<heap, allocated, item>>
     ELSE \E a \in Addr \ allocated :
            /\ heap' = [heap EXCEPT ![a] = old]
            /\ allocated' = allocated \cup {a}
            /\ item' = [item EXCEPT ![t] = a]
  /\ GetEnds(t)
  /\ UNCHANGED <<table, now, crashed, copy>>
  /\ Watch

\* Mutant: what is freed is the item the get has found, not the one removed.
GetRemoveFound(t) ==
  /\ Goto(t, "remove", "idle")
  /\ heap' = [heap EXCEPT ![ptr[t]] = Freed(ptr[t])]
  /\ allocated' = allocated \ {ptr[t]}
  /\ GetEnds(t)
  /\ UNCHANGED <<table, now, crashed, item, copy>>
  /\ Watch

\* The item had expired: CS_hashtableRemove of the key, whatever is there
\* now.  If nothing is, its CS_HASHTABLE_ERROR is freed like an item.
GetRemove(t) ==
  /\ Goto(t, "remove", "idle")
  /\ LET a == table[key[t]] IN
     IF a = NONE
     THEN crashed' = TRUE /\ UNCHANGED store
     ELSE /\ table' = [table EXCEPT ![key[t]] = NONE]
          /\ heap' = [heap EXCEPT ![a] = Freed(a)]
          /\ allocated' = allocated \ {a}
          /\ UNCHANGED crashed
  /\ GetEnds(t)
  /\ UNCHANGED <<now, item, copy>>
  /\ Watch

-----------------------------------------------------------------------------
(* CS_storagePut and CS_storageUpdate: privateHashtablePut                  *)

\* CS_storagePut makes an item with cas 0; privateHashtablePut counts it up
\* and makes the copy for the table.
PutStart(t, k, e) ==
  /\ item[t] = NONE
  /\ Goto(t, "idle", "put")
  /\ \E a, b \in Addr \ allocated :
       /\ a # b
       /\ heap' = [heap EXCEPT ![a] = [key |-> k, cas |-> 1, expires |-> e],
                               ![b] = [key |-> k, cas |-> 1, expires |-> e]]
       /\ allocated' = allocated \cup {a, b}
       /\ item' = [item EXCEPT ![t] = a]
       /\ copy' = [copy EXCEPT ![t] = b]
  /\ UNCHANGED <<table, now, crashed, key, ptr>>
  /\ Watch

\* CS_storageUpdate counts the caller's own item up.
UpdateStart(t) ==
  /\ item[t] # NONE
  /\ heap[item[t]].cas < MaxCas
  /\ Goto(t, "idle", "put")
  /\ \E b \in Addr \ allocated :
       LET new == [heap[item[t]] EXCEPT !.cas = @ + 1] IN
       /\ heap' = [heap EXCEPT ![item[t]] = new, ![b] = new]
       /\ allocated' = allocated \cup {b}
       /\ copy' = [copy EXCEPT ![t] = b]
  /\ UNCHANGED <<table, now, crashed, key, ptr, item>>
  /\ Watch

casToCheck(t) == heap[item[t]].cas - 1
PutKey(t) == heap[item[t]].key

\* Mutant: privateHashtableCheckPutMaybe does not compare the versions.
UnversionedMayPut(t) ==
  LET a == table[PutKey(t)] IN
  IF casToCheck(t) = 0 THEN Missing(PutKey(t)) ELSE a # NONE

\* privateHashtableCheckPutMaybe lets the copy in.
MayPut(t) ==
  LET a == table[PutKey(t)] IN
  IF casToCheck(t) = 0 THEN Missing(PutKey(t))
  ELSE a # NONE /\ heap[a].cas = casToCheck(t)

\* The copy takes the place of what was there, which is freed; the caller
\* keeps its item.
PutSucceeds(t) ==
  /\ Goto(t, "put", "idle")
  /\ MayPut(t)
  /\ LET a == table[PutKey(t)] IN
       /\ table' = [table EXCEPT ![PutKey(t)] = copy[t]]
       /\ heap' = IF a = NONE THEN heap ELSE [heap EXCEPT ![a] = Freed(a)]
       /\ allocated' = allocated \ {a}
  /\ copy' = [copy EXCEPT ![t] = NONE]
  /\ UNCHANGED <<now, crashed, key, ptr, item>>
  /\ Watch

\* Mutant: a refused put forgets the copy it made for the table.
PutFailsLeaks(t) ==
  /\ Goto(t, "put", "idle")
  /\ ~MayPut(t)
  /\ table[PutKey(t)] # NONE
  /\ copy' = [copy EXCEPT ![t] = NONE]
  /\ UNCHANGED <<store, now, crashed, key, ptr, item>>
  /\ Watch

\* Refused: what is there is copied for the caller, the copy for the table
\* freed.  A put frees its item too; an update leaves it, counted up, to the
\* caller.  A caller that wants none of the two items gives it back.
PutFails(t) ==
  /\ Goto(t, "put", "idle")
  /\ ~MayPut(t)
  /\ table[PutKey(t)] # NONE
  /\ LET b == copy[t]
         present == heap[table[PutKey(t)]]
         adopt(a) ==
           /\ heap' = [heap EXCEPT ![a] = present, ![b] = Freed(b),
                                   ![item[t]] = Freed(item[t])]
           /\ allocated' = (allocated \ {b, item[t]}) \cup {a}
           /\ item' = [item EXCEPT ![t] = a]
         keep ==
           /\ heap' = [heap EXCEPT ![b] = Freed(b)]
           /\ allocated' = allocated \ {b}
           /\ UNCHANGED item
         giveUp ==
           /\ heap' = [heap EXCEPT ![b] = Freed(b), ![item[t]] = Freed(item[t])]
           /\ allocated' = allocated \ {b, item[t]}
           /\ item' = [item EXCEPT ![t] = NONE]
     IN \/ \E a \in Addr \ allocated : adopt(a)
        \/ casToCheck(t) # 0 /\ keep
        \/ casToCheck(t) = 0 /\ giveUp
  /\ copy' = [copy EXCEPT ![t] = NONE]
  /\ UNCHANGED <<table, now, crashed, key, ptr>>
  /\ Watch

\* An update of a key that is not there: PutMaybe passes CS_HASHTABLE_ERROR,
\* the check looks for NULL and reads the cas of the error value.
PutMissing(t) ==
  /\ Goto(t, "put", "put")
  /\ ~MayPut(t)
  /\ table[PutKey(t)] = NONE
  /\ crashed' = TRUE
  /\ UNCHANGED <<store, now, key, ptr, item, copy>>
  /\ Watch

-----------------------------------------------------------------------------
\* CS_storageRemove
Remove(t, k) ==
  /\ Goto(t, "idle", "idle")
  /\ table[k] # NONE
  /\ table' = [table EXCEPT ![k] = NONE]
  /\ heap' = [heap EXCEPT ![table[k]] = Freed(table[k])]
  /\ allocated' = allocated \ {table[k]}
  /\ UNCHANGED <<now, crashed, key, ptr, item, copy>>
  /\ Watch

\* CS_storageReturnItem
ReturnItem(t) ==
  /\ item[t] # NONE
  /\ Goto(t, "idle", "idle")
  /\ heap' = [heap EXCEPT ![item[t]] = Freed(item[t])]
  /\ allocated' = allocated \ {item[t]}
  /\ item' = [item EXCEPT ![t] = NONE]
  /\ UNCHANGED <<table, now, crashed, key, ptr, copy>>
  /\ Watch

\* CS_storageItemChangeData
ItemChangeData(t, e) ==
  /\ item[t] # NONE
  /\ Goto(t, "idle", "idle")
  /\ heap' = [heap EXCEPT ![item[t]].expires = e]
  /\ UNCHANGED <<table, allocated, now, crashed, key, ptr, item, copy>>
  /\ Watch

\* A second passes.
Tick ==
  /\ ~crashed /\ now < MaxTime
  /\ now' = now + 1
  /\ UNCHANGED <<store, crashed, thread>>
  /\ Watch

Step(t) ==
  \/ \E k \in Key : GetLookup(t, k) \/ Remove(t, k) \/ \E e \in Time : PutStart(t, k, e)
  \/ GetJudge(t) \/ GetCopy(t) \/ GetRemove(t)
  \/ UpdateStart(t) \/ PutSucceeds(t) \/ PutFails(t) \/ PutMissing(t)
  \/ ReturnItem(t) \/ \E e \in Time : ItemChangeData(t, e)

Next == (\E t \in Threads : Step(t)) \/ Tick

Spec == Init /\ [][Next]_vars

-----------------------------------------------------------------------------
TypeOK ==
  /\ table \in [Key -> Addr \cup {NONE}]
  /\ heap \in [Addr -> Item]
  /\ allocated \in SUBSET Addr
  /\ now \in 1..MaxTime /\ crashed \in BOOLEAN
  /\ pc \in [Threads -> {"idle", "judge", "copy", "remove", "put"}]
  /\ key \in [Threads -> Key \cup {NoKey}]
  /\ ptr \in [Threads -> Addr \cup {NONE}]
  /\ item \in [Threads -> Addr \cup {NONE}]
  /\ copy \in [Threads -> Addr \cup {NONE}]
  /\ missed \in [Threads -> BOOLEAN]

\* The state is well formed, and the items of the table are alive and under
\* their own keys, whatever gets, puts and removals of expired items free at
\* the same time.
TableItemsAlive ==
  TypeOK /\ \A k \in Key : table[k] # NONE =>
    table[k] \in allocated /\ heap[table[k]].key = k

\* Every item taken from the slab has exactly one owner: the table, the
\* program, or a put on its way.  None is lost on the paths that fail.
Owners == {<<"table", k>> : k \in {j \in Key : table[j] # NONE}}
            \cup {<<"item", t>> : t \in {u \in Threads : item[u] # NONE}}
            \cup {<<"copy", t>> : t \in {u \in Threads : copy[u] # NONE}}
Owned(o) == IF o[1] = "table" THEN table[o[2]]
            ELSE IF o[1] = "item" THEN item[o[2]] ELSE copy[o[2]]

OneOwner ==
  /\ \A o, p \in Owners : Owned(o) = Owned(p) => o = p
  /\ allocated = {Owned(o) : o \in Owners}

\* The table is a versioned store: whatever the threads do at once, an item
\* that is alive is replaced by its next version only.
items == [k \in Key |-> IF table[k] = NONE THEN NONE
                        ELSE [cas |-> heap[table[k]].cas, expires |-> heap[table[k]].expires]]
Store == INSTANCE VersionedStore WITH NoItem <- NONE
ImplementsStore == Store!Spec

\* storage.h, get: "returns a 'new' copy of a CS_StorageItem with the data.
\* NULL if missing."
NullMeansMissing ==
  [][\A t \in Threads :
       (pc[t] = "copy" /\ pc'[t] = "idle" /\ item'[t] = NONE) => missed[t]]_vars
=============================================================================
