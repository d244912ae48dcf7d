----------------------------- MODULE MCObserver -----------------------------
(* Observer for TLC: the connections are model values. *)
EXTENDS Observer

CONSTANTS c1, c2, c3
=============================================================================
