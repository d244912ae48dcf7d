---------------------------- MODULE MCTransport -----------------------------
(* Transport for TLC: events, relays and replicas are model values. *)
EXTENDS Transport, TLC

CONSTANTS e1, e2, g, r1, r2, w1, w2

LinkSymmetry == Permutations(EventId) \cup Permutations(Relay) \cup Permutations(Worker)
=============================================================================
