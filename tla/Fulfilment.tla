----------------------------- MODULE Fulfilment -----------------------------
(***************************************************************************)
(* The whole saga: order-service, orchestrator, payment, inventory and     *)
(* shipping composed over the event bus.                                   *)
(***************************************************************************)
EXTENDS OrderService, Orchestrator, PaymentService, InventoryService, ShippingService

vars == <<busVars, status, sagaVars, paymentVars, inventoryVars, shipments>>

Init ==
    /\ BusInit
    /\ OrderInit
    /\ SagaInit
    /\ PaymentInit
    /\ InventoryInit
    /\ ShippingInit

Place(o) == PlaceOrder(o) /\ UNCHANGED <<sagaVars, paymentVars, inventoryVars, shipments>>

Close(o) == OrderStep(o) /\ UNCHANGED <<sagaVars, paymentVars, inventoryVars, shipments>>

Pay(o) == PaymentStep(o) /\ UNCHANGED <<status, sagaVars, inventoryVars, shipments>>

Stock(o) == InventoryStep(o) /\ UNCHANGED <<status, sagaVars, paymentVars, shipments>>

Ship(o) == ShippingStep(o) /\ UNCHANGED <<status, sagaVars, paymentVars, inventoryVars>>

Begin(o) ==
    /\ \E e \in Reply \cup {"order.placed"} : BeginHandle(o, e)
    /\ UNCHANGED <<status, paymentVars, inventoryVars, shipments>>

Commit(o) == CommitStep(o) /\ UNCHANGED <<status, paymentVars, inventoryVars, shipments>>

Abort(o) == AbortHandle(o) /\ UNCHANGED <<status, paymentVars, inventoryVars, shipments>>

Timeout(S) == Watchdog(S) /\ UNCHANGED <<status, paymentVars, inventoryVars, shipments>>

(* A poison event.  While the orchestrator's transaction is open the event is not lost. *)
Lose(o, e) ==
    /\ DeadLetter(o, e)
    /\ txn[o].event # e
    /\ UNCHANGED <<status, sagaVars, paymentVars, inventoryVars, shipments>>

Next ==
    \/ \E o \in Order : \/ Place(o) \/ Close(o) \/ Pay(o) \/ Stock(o) \/ Ship(o)
                        \/ Begin(o) \/ Commit(o) \/ Abort(o)
                        \/ \E e \in Event : Lose(o, e)
    \/ \E S \in SUBSET Order : Timeout(S)

Spec == Init /\ [][Next]_vars

(***************************************************************************)
(* Relays poll for ever, RabbitMQ redelivers what is not acknowledged, and *)
(* the watchdog scans every three seconds: whatever can be handled is      *)
(* handled.  A handler that keeps dying is given up after a few attempts,  *)
(* so one that is not given up (Lose) commits in the end.  Nobody has to   *)
(* place an order, raise or lose an event.                                 *)
(***************************************************************************)
Fairness ==
    /\ \A o \in Order :
        /\ WF_vars(Close(o)) /\ WF_vars(Pay(o)) /\ WF_vars(Stock(o)) /\ WF_vars(Ship(o))
        /\ WF_vars(Begin(o)) /\ SF_vars(Commit(o))
    /\ WF_vars(\E S \in SUBSET Order : Timeout(S))

FairSpec == Spec /\ Fairness

-----------------------------------------------------------------------------
TypeOK ==
    /\ BusTypeOK
    /\ OrderTypeOK
    /\ SagaTypeOK
    /\ PaymentTypeOK
    /\ InventoryTypeOK
    /\ ShippingTypeOK

(***************************************************************************)
(* observer's stats.py, read in one instant (the code reads five databases *)
(* one after the other): the counts, and what it calls consistent.         *)
(***************************************************************************)
Shipped == {o \in Order : status[o] = "SHIPPED"}

(* The totals of a set of orders, added up cent by cent: SUM(total_cents). *)
Cents(orders) == UNION {{o} \X (1 .. TotalCents[o]) : o \in orders}

Total(orders) == Cardinality(Cents(orders))

Consistent ==
    /\ \A rows \in {payments, reservations, shipments} : Cardinality(rows) = Cardinality(Shipped)
    /\ ledger = Total(Shipped)

Pending(o, events) == events \cap (staged[o] \ processed[o])

Releases == {"cmd.inventory.release", "cmd.inventory.release.late"}

(* The steps whose compensation was sent and not yet answered. *)
Due(o) == {s \in {"charge", "reserve"} : /\ STEP_COMPENSATE[s] \in staged[o]
                                         /\ CompReply[s] \notin processed[o]}

(* An order gets one verdict: order.shipped and order.cancelled are never both staged, and
   the status the client polls is the one the saga ended in.  Timeouts, late replies and a
   watchdog racing the handler all try to end a saga twice. *)
OneVerdict ==
    \A o \in Order :
        /\ ~({"order.shipped", "order.cancelled"} \subseteq staged[o])
        /\ status[o] = "SHIPPED" => sagas[o].state = "COMPLETED"
        /\ status[o] = "CANCELLED" => sagas[o].state = "CANCELLED"

(* The inventory neither makes nor loses units, whatever the order in which a reservation,
   its release and the late release reach it. *)
StockConserved == stock + Cardinality(reservations) = InitialStock

(* A step is commanded only when the saga has seen all the earlier ones succeed, also when
   a timeout was applied behind the handler's back. *)
StepsInOrder ==
    \A o \in Order :
        \A step \in Step : STEP_COMMAND[step] \in staged[o] =>
            \A s \in Before(step) : STEP_OK[s] \in processed[o]

(* A saga that ended stays as it ended: no later reply and no scan reopens it. *)
TerminalIsFinal ==
    [][\A o \in Order : sagas[o].state \in {"COMPLETED", "CANCELLED"} =>
            sagas'[o].state = sagas[o].state]_vars

(* The countdown of a compensation is exact, unless a handler overwrote the saga: it equals
   the number of compensating replies still to come, although a late release answers with
   the reply of the first, so the last of them, and no earlier one, cancels the order. *)
CountdownExact ==
    \A o \in Order \ overwritten :
        /\ sagas[o].state = "COMPENSATING" => sagas[o].comp_pending = Cardinality(Due(o))
        /\ sagas[o].state = "CANCELLED" => Due(o) = {}

(* The footprint of a shipped order, unless a handler overwrote its saga: paid for, taken
   from stock, dispatched, and nothing on its way that would undo one of these. *)
CompletedIsKept ==
    \A o \in Order \ overwritten : sagas[o].state = "COMPLETED" =>
        /\ o \in payments \cap reservations \cap shipments
        /\ Pending(o, Releases \cup {"cmd.payment.refund"}) = {}

(* Every failure that a service reports is undone before the client reads CANCELLED: only a
   timeout can leave something behind. *)
CancelledIsUndone ==
    \A o \in Order \ timedOut : status[o] = "CANCELLED" =>
        o \notin payments \cup reservations \cup shipments

(* Stock reserved for an order that was given up is on its way back, provided inventory
   answered: a release is pending, or the reply that will trigger the late one is. *)
NoStrandedStock ==
    \A o \in reservations :
        /\ sagas[o].state \in {"COMPENSATING", "CANCELLED"}
        /\ "reply.inventory.reserved" \in staged[o]
        => Pending(o, Releases \cup {"reply.inventory.reserved"}) # {}

(* The dashboard's verdict holds when no order is in progress, as long as none timed out:
   declined, refused and undone orders leave all sums as they were. *)
ConsistentAtRest ==
    timedOut = {} /\ (\A o \in Order : status[o] # "PENDING") => Consistent

(* The orders for which e is in some outbox. *)
Sent(e) == {o \in Order : e \in staged[o]}

(* The ledger tells what was paid: an order that never timed out counts by its payment row,
   a timed-out one by the charge and the refund that payment answered, whichever came first.
   Three replicas, refunds without a row and rows without a refund all move this sum. *)
LedgerBalances ==
    ledger = Total(payments \ timedOut)
             + Total(Sent("reply.payment.charged") \cap timedOut)
             - Total(Sent("reply.payment.refunded") \cap timedOut)

(* A compensation finds what it undoes, unless the order timed out: the services do not look
   before they undo, so the saga must not command it for a step that did not happen. *)
CompensationUndoes ==
    [][\A o \in Order \ timedOut :
        LET now == processed'[o] \ processed[o]
        IN  /\ "cmd.payment.refund" \in now => o \in payments
            /\ "cmd.inventory.release" \in now => o \in reservations]_vars

(* An order in progress is in somebody's hands, unless a handler overwrote its saga: an event
   is still to be handled or lies in a dead-letter queue, or the watchdog looks at the saga.
   A COMPENSATING saga, which no scan finds, has nothing but its events. *)
NoOrderForgotten ==
    \A o \in Order \ overwritten :
        status[o] = "PENDING" => Pending(o, Event) # {} \/ sagas[o].awaiting # "none"

(* Every order placed is shipped or cancelled in the end, with replies lost in silence,
   steps timing out and handlers dying on the way. *)
EveryOrderCloses ==
    \A o \in Order : status[o] = "PENDING" ~> status[o] \in {"SHIPPED", "CANCELLED"}

(* However late inventory reserved (and answered) for a cancelled order, it ends up
   holding nothing. *)
CancelledStockComesBack ==
    \A o \in Order :
        (sagas[o].state = "CANCELLED" /\ "reply.inventory.reserved" \in staged[o])
            ~> (o \notin reservations)

(* docs/stage-5.md: compensating handlers are no-ops when the forward action never
   happened.  The refund of a charge that was declined, or that has not come yet, is not. *)
CompensationIsNoOp ==
    [][\A o \in Order : (o \notin payments /\ "cmd.payment.refund" \in processed'[o] \ processed[o])
            => UNCHANGED paymentVars]_vars

(* stats.py: CANCELLED orders leave nothing behind.  A dispatch processed after its timeout
   leaves a shipment, a charge processed after its refund a payment. *)
CancelledLeavesNothing ==
    \A o \in Order : status[o] = "CANCELLED" /\ Pending(o, Event) = {} =>
        o \notin payments \cup reservations \cup shipments

(* stats.py: the footprint of COMPLETED orders lines up.  A scan of the watchdog between the
   read and the write of the reply handler is overwritten, and its refund and release still
   run while the order is shipped. *)
ShippedLinesUp ==
    \A o \in Order : status[o] = "SHIPPED" /\ Pending(o, Event) = {} =>
        o \in payments \cap reservations \cap shipments

-----------------------------------------------------------------------------
(* The system implements the lifecycle: a step is performed when a service processed its
   command and did not answer that it failed. *)
Performed(o) == {s \in Step : STEP_COMMAND[s] \in processed[o] /\ STEP_FAIL[s] \notin staged[o]}

Phase(o) ==
    IF "order.shipped" \in staged[o] THEN "SHIPPED"
    ELSE IF "order.cancelled" \in staged[o] THEN "CANCELLED"
    ELSE IF status[o] = "ABSENT" THEN "new" ELSE "open"

Lifecycle == INSTANCE OrderLifecycle WITH
    phase <- [o \in Order |-> Phase(o)],
    performed <- [o \in Order |-> Performed(o)],
    answer <- status

(* Under every fault, what clients and auditors see is the lifecycle OrderLifecycle states. *)
ImplementsLifecycle == Lifecycle!LifecycleSpec
=============================================================================
