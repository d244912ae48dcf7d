---------------------------- MODULE MCFailureLab ----------------------------
(* FailureLab for TLC: the replicas of one service.  A command for another service is posted
   too, and must be ignored. *)
EXTENDS FailureLab

CONSTANTS p1, p2

MCServiceOf == [r \in {p1, p2} |-> "payment-service"]

MCCommand == {[target |-> "all", action |-> "pause_relay", value |-> v] : v \in BOOLEAN}
    \cup {[target |-> t, action |-> "fail", value |-> TRUE] : t \in {"payment", "shipping"}}
=============================================================================
