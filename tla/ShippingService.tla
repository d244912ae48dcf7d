-------------------------- MODULE ShippingService ---------------------------
(***************************************************************************)
(* shipping-service: the handler of shipping.cmd.q.  Dispatch is the last  *)
(* forward step and has no compensation.                                   *)
(***************************************************************************)
EXTENDS EventBus

VARIABLE shipments      \* the orders with a row in shipments

ShippingTypeOK == shipments \subseteq Order

ShippingInit == shipments = {}

Dispatch(o) ==
    /\ FirstTime(o, "cmd.shipping.dispatch")
    /\ shipments' = shipments \cup {o}
    /\ CommitUnit(o, "cmd.shipping.dispatch", {"reply.shipping.dispatched"})

(* Bug: the early return for the toggle comes after the reply. *)
NoCourierReplies(o) ==
    /\ "nocourier" \in Faults[o]
    /\ FirstTime(o, "cmd.shipping.dispatch")
    /\ CommitUnit(o, "cmd.shipping.dispatch", {"reply.shipping.dispatched"})
    /\ UNCHANGED shipments

(* cmd.shipping.dispatch while the fail toggle is on. *)
NoCourier(o) ==
    /\ "nocourier" \in Faults[o]
    /\ FirstTime(o, "cmd.shipping.dispatch")
    /\ CommitUnit(o, "cmd.shipping.dispatch", {"reply.shipping.failed"})
    /\ UNCHANGED shipments

ShippingStep(o) == Dispatch(o) \/ NoCourier(o)
=============================================================================
