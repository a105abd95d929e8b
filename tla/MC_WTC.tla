------------------------------- MODULE MC_WTC -------------------------------
(* Two nodes, and units scaled down so that a node runs short of weight    *)
(* after one or two messages and exceeds the limit after one supply.       *)
EXTENDS WTC

CONSTANTS n0, n1
=============================================================================
