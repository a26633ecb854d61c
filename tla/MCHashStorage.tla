--------------------------- MODULE MCHashStorage ---------------------------
(* The instance of HashStorage that TLC checks.                             *)
EXTENDS HashStorage, TLC

Symmetry == Permutations(Threads) \cup Permutations(Key) \cup Permutations(Addr)
=============================================================================
