------------------------------ MODULE MC_ShmNet ------------------------------
(* A few processes with small buffers. *)
EXTENDS ShmNet, TLC
=============================================================================
