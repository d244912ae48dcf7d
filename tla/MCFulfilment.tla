---------------------------- MODULE MCFulfilment ----------------------------
(* Fulfilment for TLC: the orders are model values, their totals differ, and every run
   chooses its orders and the faults that may strike each of them. *)
EXTENDS Fulfilment

CONSTANTS o1, o2

LOCAL Sums == INSTANCE FiniteSetsExt

MCTotalCents == [o \in Order |-> IF o = o1 THEN 5 ELSE 8]

(* Counting cents adds the totals up. *)
ASSUME TotalIsTheSum ==
    \A orders \in SUBSET Order :
        Total(orders) = Sums!MapThenSumSet(LAMBDA o : TotalCents[o], orders)

(* The first order meets every fault there is; the second, which shares the stock, the
   ledger, the consumer thread and the scans of the watchdog with it, only some. *)
EveryFault == [o \in Order |-> IF o = o1 THEN FaultKinds ELSE {"timeout"}]

LostReplies == [o \in Order |-> {"silent", "timeout", "crash"}]
Declines == [o \in Order |-> {"decline", "timeout"}]
Timeouts == [o \in Order |-> {"timeout"}]
Scans == [o \in Order |-> {"timeout", "race"}]
=============================================================================
