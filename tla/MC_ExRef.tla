------------------------------ MODULE MC_ExRef ------------------------------
(* Two or three nodes with short export tables and heaps. *)
EXTENDS ExRef, TLC

Everything == Permutations(Node) \cup Permutations(Index) \cup Permutations(Slot)
=============================================================================
