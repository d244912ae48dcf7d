--------------------------- MODULE PaymentService ---------------------------
(***************************************************************************)
(* payment-service: the handler of payment.cmd.q.  Three replicas share    *)
(* payment_db; each handler is one transaction, and two of them on the     *)
(* same order (a charge and its refund) serialise on the ledger row with   *)
(* the outcome of one of the two sequential orders.                        *)
(***************************************************************************)
EXTENDS EventBus

CONSTANT TotalCents     \* TotalCents[o]: orders.total_cents, amount_cents of every command

ASSUME TotalCentsAssumption == TotalCents \in [Order -> Nat]

VARIABLES
    payments,   \* the orders with a row in payments
    ledger      \* ledger.total_charged_cents

paymentVars == <<payments, ledger>>

PaymentTypeOK ==
    /\ payments \subseteq Order
    /\ ledger \in Int

PaymentInit ==
    /\ payments = {}
    /\ ledger = 0

(* cmd.payment.charge: INSERT the row, add to the ledger, reply. *)
Charge(o) ==
    /\ FirstTime(o, "cmd.payment.charge")
    /\ payments' = payments \cup {o}
    /\ ledger' = ledger + TotalCents[o]
    /\ CommitUnit(o, "cmd.payment.charge", {"reply.payment.charged"})

(* cmd.payment.charge while the fail toggle is on. *)
Decline(o) ==
    /\ "decline" \in Faults[o]
    /\ FirstTime(o, "cmd.payment.charge")
    /\ CommitUnit(o, "cmd.payment.charge", {"reply.payment.failed"})
    /\ UNCHANGED paymentVars

(* Bug: the row is deleted and the ledger left as it was. *)
RefundKeepsLedger(o) ==
    /\ FirstTime(o, "cmd.payment.refund")
    /\ payments' = payments \ {o}
    /\ CommitUnit(o, "cmd.payment.refund", {"reply.payment.refunded"})
    /\ UNCHANGED ledger

(* cmd.payment.refund: DELETE the row if any; the ledger UPDATE does not ask whether
   there was one. *)
Refund(o) ==
    /\ FirstTime(o, "cmd.payment.refund")
    /\ payments' = payments \ {o}
    /\ ledger' = ledger - TotalCents[o]
    /\ CommitUnit(o, "cmd.payment.refund", {"reply.payment.refunded"})

PaymentStep(o) == Charge(o) \/ Decline(o) \/ Refund(o)
=============================================================================
