------------------------------ MODULE EventBus ------------------------------
(***************************************************************************)
(* What the services share: the events they exchange and the way an event  *)
(* travels from the transaction that stages it to the handler that takes   *)
(* effect.                                                                 *)
(*                                                                         *)
(* Every service stages its outgoing events in an outbox table, a relay    *)
(* publishes the rows at least once, and every consumer runs its handler   *)
(* inside handle_once/process_once, which inserts the event_id in          *)
(* processed_events in the same transaction as the work.  Here an event is *)
(* named by its event_id without the order number: "rk:order_id" in the    *)
(* code, "rk:order_id.late" for the second release, and for order.placed   *)
(* the uuid that its one POST drew.  staged[o] holds the events of order o *)
(* some committed transaction staged, processed[o] those whose handler     *)
(* committed.  An event that is staged and not processed can reach its     *)
(* handler at any time and in any order: relays republish after a crash,   *)
(* three payment replicas compete, and a handler that raised sends the     *)
(* message through a retry queue behind younger ones.  A delivery of a     *)
(* processed event changes nothing, so it is a stuttering step.            *)
(*                                                                         *)
(* Each routing key is bound to one queue of one deciding service, so the  *)
(* five processed_events tables never hold the same event_id and their     *)
(* union stands for them.                                                  *)
(***************************************************************************)
EXTENDS Integers, FiniteSets

CONSTANTS
    Order,      \* the order ids
    Faults      \* Faults[o]: which of FaultKinds may strike order o

(***************************************************************************)
(* "decline"   payment's fail toggle: a charge is declined                 *)
(* "refuse"    inventory's fail toggle: a reservation is refused           *)
(* "nocourier" shipping's fail toggle: a dispatch is refused               *)
(* "silent"    inventory's silent toggle: reserves without replying        *)
(* "timeout"   a step may outlast STEP_TIMEOUT_S, however slow the cause   *)
(* "race"      the watchdog may scan while a reply handler's transaction   *)
(*             is open on the same saga                                    *)
(* "dead"      a handler may raise on every attempt: the event goes to the *)
(*             dead-letter queue                                           *)
(* "crash"     a handler may die or raise before its COMMIT                *)
(***************************************************************************)
FaultKinds == {"decline", "refuse", "nocourier", "silent", "timeout", "race", "dead", "crash"}

ASSUME FaultsAssumption == Faults \in [Order -> SUBSET FaultKinds]

Command == {"cmd.payment.charge", "cmd.payment.refund", "cmd.inventory.reserve",
            "cmd.inventory.release", "cmd.inventory.release.late", "cmd.shipping.dispatch"}

Reply == {"reply.payment.charged", "reply.payment.failed", "reply.payment.refunded",
          "reply.inventory.reserved", "reply.inventory.failed", "reply.inventory.released",
          "reply.shipping.dispatched", "reply.shipping.failed"}

OrderEvent == {"order.placed", "order.shipped", "order.cancelled"}

Event == Command \cup Reply \cup OrderEvent

VARIABLES
    staged,     \* staged[o]: events of o that have a row in some outbox
    processed,  \* processed[o]: events of o in their consumer's processed_events
    dead        \* dead[o]: events of o of which only the dead-letter copy is left

busVars == <<staged, processed, dead>>

BusTypeOK ==
    /\ staged \in [Order -> SUBSET Event]
    /\ processed \in [Order -> SUBSET Event]
    /\ dead \in [Order -> SUBSET Event]

BusInit ==
    /\ staged = [o \in Order |-> {}]
    /\ processed = [o \in Order |-> {}]
    /\ dead = [o \in Order |-> {}]

(* The delivery whose INSERT INTO processed_events affects a row. *)
FirstTime(o, e) == e \in staged[o] \ (processed[o] \cup dead[o])

(* The commit of a handler: the event_id and the rows it staged, together.  The outbox takes
   a second row with the same event_id, so an event that is staged again is published again. *)
CommitUnit(o, e, events) ==
    /\ processed' = [processed EXCEPT ![o] = @ \cup {e}]
    /\ staged' = [staged EXCEPT ![o] = @ \cup events]
    /\ dead' = [dead EXCEPT ![o] = @ \ events]

(* The last attempt on every copy of e raised: what is left sits in <queue>.dlq. *)
DeadLetter(o, e) ==
    /\ "dead" \in Faults[o]
    /\ FirstTime(o, e)
    /\ dead' = [dead EXCEPT ![o] = @ \cup {e}]
    /\ UNCHANGED <<staged, processed>>
=============================================================================
