------------------------------ MODULE SlabPool ------------------------------
(***************************************************************************)
(* What a slab allocator promises to its callers, with none of its means:  *)
(* a pool of equal items that grows by whole slabs, hands an item to one   *)
(* holder at a time and takes it back.  SlabAlloc (slaballoc.c) is shown   *)
(* to implement this specification.                                        *)
(***************************************************************************)
EXTENDS Integers

CONSTANTS Capacity,  (* items in one slab                                  *)
          MaxSlabs   (* bound on the slabs the memory has room for         *)

VARIABLES slabs,     (* number of slabs the pool has grown to              *)
          out        (* the items that are out of the pool                 *)

poolVars == <<slabs, out>>

Item == (1..MaxSlabs) \X (1..Capacity)

ItemsOf(n) == (1..n) \X (1..Capacity)

PoolInit == slabs = 1 /\ out = {}

\* An item that is not out goes out.
HandOut(i) ==
  /\ i \in ItemsOf(slabs) \ out
  /\ out' = out \cup {i}
  /\ UNCHANGED slabs

\* Only an item that is out comes back.
GiveBack(i) ==
  /\ i \in out
  /\ out' = out \ {i}
  /\ UNCHANGED slabs

\* The pool asks for memory only when every item it has is out.
Grow ==
  /\ out = ItemsOf(slabs)
  /\ slabs < MaxSlabs
  /\ slabs' = slabs + 1
  /\ UNCHANGED out

\* A reset brings every item home at once.
Reset ==
  /\ out' = {}
  /\ UNCHANGED slabs

PoolNext == (\E i \in Item : HandOut(i) \/ GiveBack(i)) \/ Grow \/ Reset

PoolSpec == PoolInit /\ [][PoolNext]_poolVars
=============================================================================
