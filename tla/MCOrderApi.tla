----------------------------- MODULE MCOrderApi -----------------------------
(* OrderApi for TLC: threads and orders are model values. *)
EXTENDS OrderApi, TLC

CONSTANTS t1, t2, t3, o1, o2, o3

PoolSymmetry == Permutations(Thread) \cup Permutations(Order)
=============================================================================
