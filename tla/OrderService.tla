---------------------------- MODULE OrderService ----------------------------
(***************************************************************************)
(* order-service as the saga sees it: POST /orders stages order.placed     *)
(* with the order row, and the consumer of order.q writes the outcome the  *)
(* orchestrator announces.                                                 *)
(***************************************************************************)
EXTENDS EventBus

VARIABLE status     \* orders.status; "ABSENT" before the row exists

OrderStatus == {"ABSENT", "PENDING", "SHIPPED", "CANCELLED"}

OrderTypeOK == status \in [Order -> OrderStatus]

OrderInit == status = [o \in Order |-> "ABSENT"]

PlaceOrder(o) ==
    /\ status[o] = "ABSENT"
    /\ status' = [status EXCEPT ![o] = "PENDING"]
    /\ staged' = [staged EXCEPT ![o] = @ \cup {"order.placed"}]
    /\ UNCHANGED <<processed, dead>>

(* order.shipped or order.cancelled: UPDATE orders SET status, whatever it was. *)
CloseOrder(o, e) ==
    /\ e \in {"order.shipped", "order.cancelled"}
    /\ FirstTime(o, e)
    /\ status' = [status EXCEPT ![o] = IF e = "order.shipped" THEN "SHIPPED" ELSE "CANCELLED"]
    /\ CommitUnit(o, e, {})

OrderStep(o) == \E e \in {"order.shipped", "order.cancelled"} : CloseOrder(o, e)
=============================================================================
