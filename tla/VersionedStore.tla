--------------------------- MODULE VersionedStore ---------------------------
(***************************************************************************)
(* What include/crankshaft/storage.h promises of a backend: under each key *)
(* at most one item, with a version (cas) that begins at 1 and is counted  *)
(* up by every update.  An item that has expired is as good as missing: it *)
(* may be removed, or make place for a new one, at any time.               *)
(***************************************************************************)
EXTENDS Integers

CONSTANTS Key, NoItem

VARIABLES
  items,  (* under each key [cas, expires] or NoItem                       *)
  now

Fresh(e) == e = 0 \/ e > now
Missing(k) == items[k] # NoItem => ~Fresh(items[k].expires)

Init == items = [k \in Key |-> NoItem] /\ now \in Nat

\* Under key k there is an item with this version then.
Becomes(k, cas) ==
  /\ items'[k] # NoItem /\ items'[k].cas = cas
  /\ items' = [items EXCEPT ![k] = items'[k]]
  /\ UNCHANGED now

Insert(k) == Missing(k) /\ Becomes(k, 1)
Update(k) == items[k] # NoItem /\ Becomes(k, items[k].cas + 1)
Remove(k) == items' = [items EXCEPT ![k] = NoItem] /\ UNCHANGED now
Tick == now' \in Nat /\ now' > now /\ UNCHANGED items

Next == (\E k \in Key : Insert(k) \/ Update(k) \/ Remove(k)) \/ Tick

Spec == Init /\ [][Next]_<<items, now>>
=============================================================================
