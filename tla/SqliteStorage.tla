--------------------------- MODULE SqliteStorage ---------------------------
(***************************************************************************)
(* The SQLite backend of src/storage.c, for one call at a time: its        *)
(* prepared statements belong to the storage, and a call binds, steps and  *)
(* resets them.  A step runs one SQL statement, that is done as a whole,   *)
(* for good, or fails (SQLITE_BUSY, SQLITE_FULL, ...); between two steps   *)
(* time passes, and the program may crash and be started again.            *)
(*                                                                         *)
(* An item is its key, version and expiry, its value is left out; the      *)
(* program has one it passes to the calls, and may have another.           *)
(***************************************************************************)
EXTENDS Integers

CONSTANTS Key, NoItem,
          MaxCas,   (* bound on the versions of an item                    *)
          MaxTime   (* bound on the clock                                  *)

ASSUME SqliteAssumption ==
  /\ MaxCas \in Nat \ {0} /\ MaxTime \in Nat \ {0}
  /\ NoItem \notin [cas : 1..MaxCas, expires : 0..MaxTime]
  /\ NoItem \notin [key : Key, cas : 1..MaxCas, expires : 0..MaxTime]

VARIABLES
  rows,    (* the table: under each key [cas, expires] or NoItem           *)
  now,
  pc,      (* the statement that is stepped next, or "idle"                *)
  key,     (* of the call                                                  *)
  item,    (* the item the program passes to put, or gets                  *)
  other,   (* another item of the program                                  *)
  before,  (* the row of the key when the call began (history)             *)
  answer   (* of the last call: "item", "refused", "null" (history)        *)

call == <<pc, key, item, other, before, answer>>
vars == <<rows, now, call>>

Time == 0..MaxTime
Row == [cas : 1..MaxCas, expires : Time]
Item == [key : Key, cas : 1..MaxCas, expires : Time]

RowOf(i) == [cas |-> i.cas, expires |-> i.expires]
ItemOf(k, r) == [key |-> k, cas |-> r.cas, expires |-> r.expires]

Init ==
  /\ rows = [k \in Key |-> NoItem]
  /\ now = 1
  /\ pc = "idle" /\ key \in Key /\ item = NoItem /\ other = NoItem
  /\ before = NoItem /\ answer = "null"

Fresh(e) == e = 0 \/ e > now
Live(r) == IF r # NoItem /\ Fresh(r.expires) THEN r ELSE NoItem

Steps(statement) == pc = statement /\ UNCHANGED <<now, key, other, before>>

Calls(k) == pc = "idle" /\ key' = k /\ before' = rows[k] /\ UNCHANGED <<now, other>>

\* A DELETE removes the row of k, or fails.
Deletes(k) == rows' \in {rows, [rows EXCEPT ![k] = NoItem]}

Goes(to) == pc' = to /\ UNCHANGED answer
Answers(a) == pc' = "idle" /\ answer' = a

-----------------------------------------------------------------------------
(* privateSqliteGet                                                         *)

Get(k) ==
  /\ Calls(k) /\ item = NoItem
  /\ Goes("select")
  /\ UNCHANGED <<rows, item>>

\* The SELECT gives a row that is fresh: a copy for the caller.
SelectFresh ==
  /\ Steps("select")
  /\ Live(rows[key]) # NoItem
  /\ item' = ItemOf(key, rows[key])
  /\ Answers("item")
  /\ UNCHANGED rows

SelectExpired ==
  /\ Steps("select")
  /\ rows[key] # NoItem /\ Live(rows[key]) = NoItem
  /\ Goes("expire")
  /\ UNCHANGED <<rows, item>>

\* No row, or the step fails.
SelectNothing ==
  /\ Steps("select")
  /\ Answers("null")
  /\ UNCHANGED <<rows, item>>

\* privateSqliteRemove of a row that has expired, done or not.
Expire ==
  /\ Steps("expire")
  /\ Deletes(key)
  /\ Answers("null")
  /\ UNCHANGED item

-----------------------------------------------------------------------------
(* privateSqlitePut                                                         *)

\* CS_storagePut makes an item with cas 0, that is counted up.
Put(k, e) ==
  /\ Calls(k) /\ item = NoItem
  /\ item' = [key |-> k, cas |-> 1, expires |-> e]
  /\ Goes("insert")
  /\ UNCHANGED rows

\* CS_storageUpdate counts the item of the caller up.
Update ==
  /\ item # NoItem /\ item.cas < MaxCas
  /\ Calls(item.key)
  /\ item' = [item EXCEPT !.cas = @ + 1]
  /\ Goes("update")
  /\ UNCHANGED rows

\* INSERT, the first time or again: the key must not have a row.
Insert ==
  /\ pc \in {"insert", "reinsert"} /\ Steps(pc)
  /\ rows[key] = NoItem
  /\ rows' = [rows EXCEPT ![key] = RowOf(item)]
  /\ Answers("item")
  /\ UNCHANGED item

\* Mutant: the statement forceUpdate, that does not look at the cas.
MatchesForce == rows[key] # NoItem

\* UPDATE ... WHERE key = ? AND cas = ?
Matches == rows[key] # NoItem /\ rows[key].cas = item.cas - 1

\* An UPDATE that matches no row is done as well.
UpdateDone ==
  /\ Steps("update")
  /\ rows' = IF Matches THEN [rows EXCEPT ![key] = RowOf(item)] ELSE rows
  /\ Answers("item")
  /\ UNCHANGED item

\* The key has a row, or the step fails: what is there is looked up.
PutFails ==
  /\ pc \in {"insert", "update"} /\ Steps(pc)
  /\ Goes("look")
  /\ UNCHANGED <<rows, item>>

\* Of its own item and the one that is there, the caller keeps one: a refused
\* CS_storagePut has freed its item, CS_storageUpdate leaves it counted up.
Own == IF item.cas = 1 THEN NoItem ELSE item

LookFresh ==
  /\ Steps("look")
  /\ Live(rows[key]) # NoItem
  /\ item' \in {ItemOf(key, rows[key]), Own}
  /\ Answers("refused")
  /\ UNCHANGED rows

\* Nothing is there: only a new item is put again.
GoesOn == IF item.cas = 1 THEN Goes("reinsert") /\ UNCHANGED item
          ELSE Answers("null") /\ UNCHANGED item

\* Mutant: what is removed is not looked at once more.
LookExpireAny ==
  /\ Steps("look")
  /\ rows' = [rows EXCEPT ![key] = NoItem]
  /\ GoesOn

LookExpired ==
  /\ Steps("look")
  /\ rows[key] # NoItem /\ Live(rows[key]) = NoItem
  /\ Goes("lookexpire")
  /\ UNCHANGED <<rows, item>>

LookNothing ==
  /\ Steps("look")
  /\ GoesOn
  /\ UNCHANGED rows

LookExpire ==
  /\ Steps("lookexpire")
  /\ Deletes(key)
  /\ GoesOn

ReinsertFails ==
  /\ Steps("reinsert")
  /\ item' = NoItem
  /\ Answers("null")
  /\ UNCHANGED rows

-----------------------------------------------------------------------------
\* CS_storageRemove
Remove(k) ==
  /\ pc = "idle"
  /\ Deletes(k)
  /\ UNCHANGED <<now, call>>

\* CS_storageReturnItem
ReturnItem ==
  /\ pc = "idle" /\ item # NoItem
  /\ item' = NoItem
  /\ UNCHANGED <<rows, now, pc, key, other, before, answer>>

\* CS_storageItemChangeData
ItemChangeData(e) ==
  /\ pc = "idle" /\ item # NoItem
  /\ item' = [item EXCEPT !.expires = e]
  /\ UNCHANGED <<rows, now, pc, key, other, before, answer>>

\* CS_storageDuplicateItem
DuplicateItem ==
  /\ pc = "idle" /\ other = NoItem
  /\ other' = item
  /\ UNCHANGED <<rows, now, pc, key, item, before, answer>>

\* The program turns to its other item.
Exchange ==
  /\ pc = "idle"
  /\ item' = other /\ other' = item
  /\ UNCHANGED <<rows, now, pc, key, before, answer>>

\* The program is gone, with all but the table; privateSqliteOpen finds the
\* table as it was.
Crash ==
  /\ pc' = "idle" /\ item' = NoItem /\ other' = NoItem /\ answer' = "null"
  /\ UNCHANGED <<rows, now, key, before>>

Tick ==
  /\ now < MaxTime
  /\ now' = now + 1
  /\ UNCHANGED <<rows, call>>

Next ==
  \/ \E k \in Key : Get(k) \/ Remove(k) \/ \E e \in Time : Put(k, e)
  \/ SelectFresh \/ SelectExpired \/ SelectNothing \/ Expire
  \/ Update \/ Insert \/ UpdateDone \/ PutFails
  \/ LookFresh \/ LookExpired \/ LookNothing \/ LookExpire \/ ReinsertFails
  \/ ReturnItem \/ (\E e \in Time : ItemChangeData(e)) \/ DuplicateItem
  \/ Exchange \/ Crash \/ Tick

Spec == Init /\ [][Next]_vars

-----------------------------------------------------------------------------
TypeOK ==
  /\ rows \in [Key -> Row \cup {NoItem}]
  /\ now \in 1..MaxTime
  /\ pc \in {"idle", "select", "expire", "insert", "update", "look", "lookexpire", "reinsert"}
  /\ key \in Key
  /\ {item, other} \subseteq Item \cup {NoItem}
  /\ before \in Row \cup {NoItem}
  /\ answer \in {"item", "refused", "null"}

\* The state is well formed, and up to the statement that ends a call the
\* live row of its key is what it was: a put that fails or crashes between
\* its INSERT, the removal of an expired row and the second INSERT loses
\* nothing (privateSqlitePut).
NothingLostUnderWay ==
  TypeOK /\ (pc # "idle" => Live(rows[key]) = Live(before))

\* storage.h, put: the passed in item is the answer when it is stored, an
\* update of a key that is missing or of another version has another answer.
Accepts == pc \in {"insert", "reinsert", "update"} /\ pc' = "idle" /\ answer' = "item"
AcceptedIsStored == [][Accepts => rows'[key] = RowOf(item)]_vars

\* The table is a versioned store, whatever fails, and across crashes.
Store == INSTANCE VersionedStore WITH items <- rows
ImplementsStore == Store!Spec
=============================================================================
