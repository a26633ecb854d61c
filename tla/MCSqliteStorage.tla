-------------------------- MODULE MCSqliteStorage --------------------------
(* The instance of SqliteStorage that TLC checks.                           *)
EXTENDS SqliteStorage, TLC

Symmetry == Permutations(Key)
=============================================================================
