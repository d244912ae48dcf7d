------------------------- MODULE FulfilmentInvariant -------------------------
(***************************************************************************)
(* The inductive invariant behind the theorems of FulfilmentProofs, in     *)
(* named parts, for one order at a time: orders share only the stock, the  *)
(* ledger and the orchestrator's consumer thread.                          *)
(***************************************************************************)
EXTENDS Fulfilment

Running == {"STARTED", "CHARGED", "RESERVED"}

(* A saga awaits a reply exactly while it is running, in the state of the awaited step,
   and the command of that step has been staged. *)
RowInv(row, events) ==
    /\ row.state \in Running <=> row.awaiting # "none"
    /\ \A step \in Step : row.awaiting = step =>
            /\ row.state = AwaitingState[step]
            /\ STEP_COMMAND[step] \in events

(* The handler decides from the committed row, or from a running one that the watchdog has
   turned into COMPENSATING behind its back. *)
TxnInv(o) ==
    /\ RowInv(sagas[o], staged[o])
    /\ RowInv(txn[o].row, staged[o])
    /\ txn[o].event # "none" =>
        /\ txn[o].event \in staged[o]
        /\ \/ txn[o].row = sagas[o]
           \/ txn[o].row.state \in Running /\ sagas[o].state = "COMPENSATING"

(* The announced verdict is the saga's state. *)
VerdictInv(o) ==
    /\ "order.shipped" \in staged[o] <=> sagas[o].state = "COMPLETED"
    /\ "order.cancelled" \in staged[o] <=> sagas[o].state = "CANCELLED"
    /\ status[o] = "SHIPPED" => "order.shipped" \in processed[o]
    /\ status[o] = "CANCELLED" => "order.cancelled" \in processed[o]

(* What had to happen before an event could be staged. *)
CausalInv(o) ==
    /\ processed[o] \subseteq staged[o]
    /\ status[o] = "ABSENT" => staged[o] = {}
    /\ \A step \in Step :
        /\ STEP_COMMAND[step] \in staged[o] => \A s \in Before(step) : STEP_OK[s] \in processed[o]
        /\ STEP_OK[step] \in staged[o] => STEP_COMMAND[step] \in processed[o]
        /\ STEP_FAIL[step] \in staged[o] =>
            STEP_COMMAND[step] \in processed[o] /\ STEP_OK[step] \notin staged[o]

(* A reservation comes from its command. *)
ReservedInv(o) == o \in reservations => "cmd.inventory.reserve" \in processed[o]

(* What holds of each order. *)
OrderInv(o) == TxnInv(o) /\ VerdictInv(o) /\ CausalInv(o) /\ ReservedInv(o)

(* What the orders share. *)
StockInv == IsFiniteSet(reservations) /\ StockConserved

(* The inductive invariant of the saga. *)
IInv == TypeOK /\ StockInv /\ \A o \in Order : OrderInv(o)
-----------------------------------------------------------------------------
(* What the payment, the reservation, the shipment and the countdown of an *)
(* order rest on.  These parts are kept by the steps that keep IInv.       *)

(* The event being handled is one the orchestrator consumes and has not processed. *)
OpenInv(o) ==
    /\ txn[o].event = "none" => txn[o].row = NoRow
    /\ txn[o].event # "none" =>
        txn[o].event \in Reply \cup {"order.placed"} /\ txn[o].event \notin processed[o]

(* An order without a saga has not been acted upon. *)
FreshInv(o) == sagas[o].state = "NONE" => Command \cap staged[o] = {}

(* The answer to the step that a row awaits is not among the events. *)
Unanswered(row, events) ==
    /\ row.awaiting = "charge" => {"reply.payment.charged", "reply.payment.failed"} \cap events = {}
    /\ row.awaiting = "reserve" =>
        {"reply.inventory.reserved", "reply.inventory.failed"} \cap events = {}
    /\ row.awaiting = "dispatch" =>
        {"reply.shipping.dispatched", "reply.shipping.failed"} \cap events = {}

(* Neither the row nor the one its handler read awaits what has been answered. *)
AwaitedInv(o) == Unanswered(sagas[o], processed[o]) /\ Unanswered(txn[o].row, processed[o])

(* What the tables of the services tell about the events, and the other way round. *)
TablesInv(o) ==
    /\ o \in payments =>
        "cmd.payment.charge" \in processed[o] /\ "reply.payment.failed" \notin staged[o]
    /\ "reply.payment.charged" \in staged[o] =>
        o \in payments \/ "cmd.payment.refund" \in processed[o]
    /\ "reply.payment.refunded" \in staged[o] => "cmd.payment.refund" \in processed[o]
    /\ o \in reservations => "reply.inventory.failed" \notin staged[o]
    /\ "reply.inventory.reserved" \in staged[o] =>
        o \in reservations \/ Releases \cap processed[o] # {}
    /\ "reply.inventory.released" \in staged[o] => Releases \cap processed[o] # {}
    /\ o \in shipments =>
        "cmd.shipping.dispatch" \in processed[o] /\ "reply.shipping.failed" \notin staged[o]
    /\ "reply.shipping.dispatched" \in staged[o] => o \in shipments

(* A release is sent when a saga that awaited the reservation or its dispatch is given up;
   if it arrives first, the reply to the reservation finds the saga given up and sends the
   late one. *)
ReleaseInv(o) ==
    /\ "cmd.inventory.release.late" \in staged[o] => "reply.inventory.reserved" \in processed[o]
    /\ sagas[o].awaiting \in {"charge", "reserve"} => "cmd.inventory.release" \notin staged[o]
    /\ txn[o].row.awaiting = "charge" => "cmd.inventory.release" \notin staged[o]
    /\ "cmd.inventory.release" \in processed[o] /\ o \in reservations =>
        /\ ~(txn[o].event = "reply.inventory.reserved" /\ txn[o].row.awaiting = "reserve")
        /\ ~(sagas[o].state \in Running /\ "reply.inventory.reserved" \in processed[o])
    /\ /\ sagas[o].state \in {"COMPENSATING", "CANCELLED"}
       /\ o \in reservations
       /\ "reply.inventory.reserved" \in processed[o]
       => Pending(o, Releases) # {}

(* A saga completes on the answer of shipping. *)
CompletedInv(o) == sagas[o].state = "COMPLETED" => "reply.shipping.dispatched" \in processed[o]

(* The saga is being undone or is undone. *)
GivenUp(o) == sagas[o].state \in {"COMPENSATING", "CANCELLED"}

(* Unless the saga was overwritten, compensations are staged once it is given up, and
   counted.  A late release is staged only where the first one was. *)
CountInv(o) ==
    /\ ~GivenUp(o) => (Releases \cup {"cmd.payment.refund"}) \cap staged[o] = {}
    /\ GivenUp(o) /\ "cmd.payment.charge" \in staged[o] =>
        "cmd.payment.refund" \in staged[o] \/ "reply.payment.failed" \in staged[o]
    /\ GivenUp(o) /\ "cmd.inventory.reserve" \in staged[o] =>
        "cmd.inventory.release" \in staged[o] \/ "reply.inventory.failed" \in staged[o]
    /\ txn[o].event \in COMP_OK => txn[o].row.state \in {"COMPENSATING", "CANCELLED"}
    /\ "cmd.inventory.release.late" \in staged[o] => "cmd.inventory.release" \in staged[o]
    /\ sagas[o].state = "COMPENSATING" => sagas[o].comp_pending = Cardinality(Due(o))
    /\ sagas[o].state = "CANCELLED" => Due(o) = {}

(* Unless it timed out, the saga is the one its handler read, and it is given up because a
   step is known to have failed: what is undone has been done. *)
TimelyInv(o) ==
    /\ o \notin overwritten
    /\ txn[o].event # "none" => txn[o].row = sagas[o]
    /\ "cmd.payment.refund" \in staged[o] => "reply.payment.charged" \in processed[o]
    /\ "cmd.inventory.release" \in staged[o] => "reply.inventory.reserved" \in processed[o]
    /\ "cmd.inventory.release.late" \notin staged[o]
    /\ "cmd.payment.refund" \in processed[o] => o \notin payments
    /\ "cmd.inventory.release" \in processed[o] => o \notin reservations
    /\ GivenUp(o) =>
        /\ "cmd.inventory.reserve" \in staged[o] =>
            "reply.inventory.reserved" \in processed[o] \/ "reply.inventory.failed" \in staged[o]
        /\ "cmd.shipping.dispatch" \in staged[o] => "reply.shipping.failed" \in staged[o]

(* The three degrees of what is known: of every saga, of one that no handler overwrote, and of
   one that never timed out. *)
FootprintInv(o) ==
    /\ OpenInv(o) /\ FreshInv(o) /\ AwaitedInv(o) /\ TablesInv(o) /\ ReleaseInv(o) /\ CompletedInv(o)
    /\ o \notin overwritten => CountInv(o)
    /\ o \notin timedOut => TimelyInv(o)

(* The inductive invariant of what an order leaves behind. *)
FInv == IInv /\ \A o \in Order : FootprintInv(o)
-----------------------------------------------------------------------------
(* What the books and the progress of an order rest on: who has handled an event has left its *)
(* trace.                                                                                     *)

(* The services answer what they handled, and payment keeps no row that it did not announce. *)
AnsweredInv(o) ==
    /\ o \in payments => "reply.payment.charged" \in staged[o]
    /\ "cmd.payment.refund" \in processed[o] => "reply.payment.refunded" \in staged[o]
    /\ Releases \cap processed[o] # {} => "reply.inventory.released" \in staged[o]

(* An order that was placed has its event until it has a saga; a saga that is undone waits for
   at least one reply; a verdict that was handled is the status. *)
ProgressInv(o) ==
    /\ status[o] # "ABSENT" => "order.placed" \in staged[o]
    /\ "order.placed" \in processed[o] => sagas[o].state # "NONE"
    /\ sagas[o].state = "COMPENSATING" => sagas[o].comp_pending >= 1
    /\ {"order.shipped", "order.cancelled"} \cap processed[o] # {} => status[o] # "PENDING"

(* The ledger is the sum of the charges and refunds that payment answered. *)
LedgerInv ==
    /\ IsFiniteSet(Sent("reply.payment.charged")) /\ IsFiniteSet(Sent("reply.payment.refunded"))
    /\ ledger = Total(Sent("reply.payment.charged")) - Total(Sent("reply.payment.refunded"))

(* The inductive invariant of what rests when every order is closed. *)
SInv == FInv /\ LedgerInv /\ \A o \in Order : AnsweredInv(o) /\ ProgressInv(o)
=============================================================================
