---------------------------- MODULE Orchestrator ----------------------------
(***************************************************************************)
(* orchestrator: the saga of every order, run by two threads with a        *)
(* database connection each.                                               *)
(*                                                                         *)
(* The consumer thread handles one event at a time: it opens a             *)
(* transaction, reads the saga with a plain SELECT (BeginHandle), decides  *)
(* from what it read, and commits the event_id, the new row and the staged *)
(* events together (StartSaga ... IgnoreEvent).  The watchdog thread scans *)
(* for sagas that wait too long, FOR UPDATE SKIP LOCKED, and turns them    *)
(* all in one transaction.  The SELECT takes no lock, so a scan may commit *)
(* between the read and the write of the handler.                          *)
(***************************************************************************)
EXTENDS EventBus

Step == {"charge", "reserve", "dispatch"}

STEP_COMMAND == [s \in Step |->
    CASE s = "charge"   -> "cmd.payment.charge"
      [] s = "reserve"  -> "cmd.inventory.reserve"
      [] s = "dispatch" -> "cmd.shipping.dispatch"]

STEP_OK == [s \in Step |->
    CASE s = "charge"   -> "reply.payment.charged"
      [] s = "reserve"  -> "reply.inventory.reserved"
      [] s = "dispatch" -> "reply.shipping.dispatched"]

STEP_FAIL == [s \in Step |->
    CASE s = "charge"   -> "reply.payment.failed"
      [] s = "reserve"  -> "reply.inventory.failed"
      [] s = "dispatch" -> "reply.shipping.failed"]

STEP_COMPENSATE == [s \in {"charge", "reserve"} |->
    IF s = "charge" THEN "cmd.payment.refund" ELSE "cmd.inventory.release"]

CompReply == [s \in {"charge", "reserve"} |->
    IF s = "charge" THEN "reply.payment.refunded" ELSE "reply.inventory.released"]

(* The values of the dict of that name. *)
COMP_OK == {CompReply["charge"], CompReply["reserve"]}

(* Bug: an index off by one, the step just before the failed one is not undone. *)
BeforeOffByOne(step) ==
    CASE step = "charge"   -> {}
      [] step = "reserve"  -> {}
      [] step = "dispatch" -> {"charge"}

(* The order of STEPS: what precedes a step, and what follows it. *)
Before(step) ==
    CASE step = "charge"   -> {}
      [] step = "reserve"  -> {"charge"}
      [] step = "dispatch" -> {"charge", "reserve"}

(* Bug: the reservation is skipped. *)
NextStepSkips == [s \in {"charge", "reserve"} |-> "dispatch"]

NextStep == [s \in {"charge", "reserve"} |-> IF s = "charge" THEN "reserve" ELSE "dispatch"]

(* The state in which the saga awaits the reply to a step. *)
AwaitingState == [s \in Step |->
    CASE s = "charge" -> "STARTED" [] s = "reserve" -> "CHARGED" [] s = "dispatch" -> "RESERVED"]

(* "NONE" is a missing row.  CANCELLING is overwritten in the transaction that sets it. *)
SagaState == {"NONE", "STARTED", "CHARGED", "RESERVED", "COMPENSATING", "COMPLETED", "CANCELLED"}

(* awaiting is "none" for NULL; comp_pending counts the compensating replies due. *)
SagaRow == [state : SagaState, awaiting : Step \cup {"none"}, comp_pending : Int]

NoRow == [state |-> "NONE", awaiting |-> "none", comp_pending |-> 0]

VARIABLES
    sagas,  \* sagas[o]: the committed row of o
    txn,    \* txn[o]: the event of o the consumer thread is handling ("none" if it is
            \* not) and the row saga.load returned to it
    timedOut,   \* the orders with a 'timeout' entry in saga_log
    overwritten \* history, which nothing reads: the orders whose row a handler wrote
                \* although it was no longer the row it had read

sagaVars == <<sagas, txn, timedOut, overwritten>>

Closed == [event |-> "none", row |-> NoRow]

SagaTypeOK ==
    /\ sagas \in [Order -> SagaRow]
    /\ txn \in [Order -> [event : Event \cup {"none"}, row : SagaRow]]
    /\ timedOut \subseteq Order
    /\ overwritten \subseteq Order

SagaInit ==
    /\ sagas = [o \in Order |-> NoRow]
    /\ txn = [o \in Order |-> Closed]
    /\ timedOut = {}
    /\ overwritten = {}

(* set_state without and with a comp_pending. *)
SetState(row, state, awaiting) == [row EXCEPT !.state = state, !.awaiting = awaiting]

SetPending(row, state, n) ==
    [row EXCEPT !.state = state, !.awaiting = "none", !.comp_pending = n]

(* Bug: the step that failed is undone as well. *)
CompensationsAlwaysIncluding(step, include_failed_step) ==
    {STEP_COMPENSATE[s] : s \in (Before(step) \cup {step}) \ {"dispatch"}}

(* _begin_compensation: what it stages, and the row it leaves.  The forward steps
   before the one that failed are undone, and that one too after a timeout. *)
Compensations(step, include_failed_step) ==
    LET to_undo == Before(step) \cup (IF include_failed_step THEN {step} ELSE {})
    IN  {STEP_COMPENSATE[s] : s \in to_undo \ {"dispatch"}}

CompensationEvents(comps) == IF comps = {} THEN {"order.cancelled"} ELSE comps

(* Bug: nothing to undo, and the row is left in the passing state. *)
CompensationRowCancelling(row, comps) ==
    IF comps = {} THEN SetPending(row, "CANCELLING", 0)
                  ELSE SetPending(row, "COMPENSATING", Cardinality(comps))

(* Bug: the forgotten dispatch, which has no compensation, is counted. *)
CompensationRowMiscounts(row, comps) ==
    IF comps = {} THEN SetPending(row, "CANCELLED", 0)
                  ELSE SetPending(row, "COMPENSATING", Cardinality(comps) + 1)

(* Bug: set_state without the count. *)
CompensationRowForgetsCount(row, comps) ==
    IF comps = {} THEN SetPending(row, "CANCELLED", 0)
                  ELSE SetState(row, "COMPENSATING", "none")

CompensationRow(row, comps) ==
    IF comps = {} THEN SetPending(row, "CANCELLED", 0)
                  ELSE SetPending(row, "COMPENSATING", Cardinality(comps))

-----------------------------------------------------------------------------
(* The consumer thread. *)

(* Delivery of e: INSERT the event_id, SELECT the saga. *)
BeginHandle(o, e) ==
    /\ e \in Reply \cup {"order.placed"}
    /\ \A p \in Order : txn[p] = Closed
    /\ FirstTime(o, e)
    /\ txn' = [txn EXCEPT ![o] = [event |-> e, row |-> sagas[o]]]
    /\ UNCHANGED <<busVars, sagas, timedOut, overwritten>>

(* COMMIT: the row, the staged events and the event_id. *)
CommitHandle(o, row, events) ==
    /\ sagas' = [sagas EXCEPT ![o] = row]
    /\ txn' = [txn EXCEPT ![o] = Closed]
    /\ overwritten' = IF row # sagas[o] /\ txn[o].row # sagas[o] THEN overwritten \cup {o}
                                                               ELSE overwritten
    /\ CommitUnit(o, txn[o].event, events)
    /\ UNCHANGED timedOut

(* order.placed and no row yet: create it and send the first step. *)
StartSaga(o) ==
    /\ txn[o].event = "order.placed"
    /\ txn[o].row.state = "NONE"
    /\ CommitHandle(o, SetState(sagas[o], "STARTED", "charge"), {STEP_COMMAND["charge"]})

(* The step that a saga in progress, as it was read, awaits. *)
Forward(o, step) ==
    /\ txn[o].event \in Reply
    /\ txn[o].row.state \in {"STARTED", "CHARGED", "RESERVED"}
    /\ txn[o].row.awaiting = step

(* Bug: any reply is taken for the awaited one. *)
StepSucceededAnyReply(o, step) ==
    /\ Forward(o, step)
    /\ step # "dispatch"
    /\ LET next == NextStep[step]
       IN  CommitHandle(o, SetState(sagas[o], AwaitingState[next], next), {STEP_COMMAND[next]})

(* The awaited step succeeded and is not the last: send the next one. *)
StepSucceeded(o, step) ==
    /\ Forward(o, step)
    /\ step # "dispatch"
    /\ txn[o].event = STEP_OK[step]
    /\ LET next == NextStep[step]
       IN  CommitHandle(o, SetState(sagas[o], AwaitingState[next], next), {STEP_COMMAND[next]})

(* Bug: awaiting is left set, and the watchdog finds the completed saga. *)
FinishCompletedAwaiting(o) ==
    /\ Forward(o, "dispatch")
    /\ txn[o].event = STEP_OK["dispatch"]
    /\ CommitHandle(o, SetState(sagas[o], "COMPLETED", "dispatch"), {"order.shipped"})

(* The last step succeeded. *)
FinishCompleted(o) ==
    /\ Forward(o, "dispatch")
    /\ txn[o].event = STEP_OK["dispatch"]
    /\ CommitHandle(o, SetState(sagas[o], "COMPLETED", "none"), {"order.shipped"})

(* The awaited step failed, and is known not to have happened. *)
StepFailed(o, step) ==
    /\ Forward(o, step)
    /\ txn[o].event = STEP_FAIL[step]
    /\ LET comps == Compensations(step, FALSE)
       IN  CommitHandle(o, CompensationRow(sagas[o], comps), CompensationEvents(comps))

(* A compensating reply, not the last one expected. *)
CountDown(o) ==
    /\ txn[o].event \in COMP_OK
    /\ txn[o].row.state = "COMPENSATING"
    /\ sagas[o].comp_pending > 1
    /\ CommitHandle(o, [sagas[o] EXCEPT !.comp_pending = @ - 1], {})

(* Bug: compensating replies are counted whatever the saga's state. *)
FinishCancelledAnyState(o) ==
    /\ txn[o].event \in COMP_OK
    /\ sagas[o].comp_pending <= 1
    /\ CommitHandle(o, SetPending(sagas[o], "CANCELLED", sagas[o].comp_pending - 1),
                    {"order.cancelled"})

(* The last compensating reply expected. *)
FinishCancelled(o) ==
    /\ txn[o].event \in COMP_OK
    /\ txn[o].row.state = "COMPENSATING"
    /\ sagas[o].comp_pending <= 1
    /\ CommitHandle(o, SetPending(sagas[o], "CANCELLED", sagas[o].comp_pending - 1),
                    {"order.cancelled"})

(* Bug: the second release has the event_id of the first, and inventory drops it. *)
LateReserveSameId(o) ==
    /\ txn[o].event = "reply.inventory.reserved"
    /\ txn[o].row.state \in {"COMPENSATING", "CANCELLED", "COMPLETED"}
    /\ CommitHandle(o, sagas[o], {"cmd.inventory.release"})

(* The reply to a reservation whose step was given up: release again, under an event_id
   that inventory has not seen. *)
LateReserve(o) ==
    /\ txn[o].event = "reply.inventory.reserved"
    /\ txn[o].row.state \in {"COMPENSATING", "CANCELLED", "COMPLETED"}
    /\ CommitHandle(o, sagas[o], {"cmd.inventory.release.late"})

(* Every other event is recorded as processed and has no effect. *)
Ignored(event, row) ==
    \/ event = "order.placed" /\ row.state # "NONE"
    \/ event \in Reply /\ row.state = "NONE"
    \/ event \in Reply \ (COMP_OK \cup {"reply.inventory.reserved"}) /\ row.state = "COMPENSATING"
    \/ event \in Reply \ {"reply.inventory.reserved"} /\ row.state \in {"CANCELLED", "COMPLETED"}
    \/ /\ event \in Reply
       /\ row.state \in {"STARTED", "CHARGED", "RESERVED"}
       /\ row.awaiting = "none" \/ event \notin {STEP_OK[row.awaiting], STEP_FAIL[row.awaiting]}

IgnoreEvent(o) ==
    /\ Ignored(txn[o].event, txn[o].row)
    /\ CommitHandle(o, sagas[o], {})

CommitStep(o) ==
    \/ StartSaga(o)
    \/ \E step \in Step : StepSucceeded(o, step) \/ StepFailed(o, step)
    \/ FinishCompleted(o)
    \/ CountDown(o)
    \/ FinishCancelled(o)
    \/ LateReserve(o)
    \/ IgnoreEvent(o)

(* The process dies, or the handler raises and handle_once rolls back: a later delivery
   of the event starts again. *)
AbortHandle(o) ==
    /\ "crash" \in Faults[o]
    /\ txn[o].event # "none"
    /\ txn' = [txn EXCEPT ![o] = Closed]
    /\ UNCHANGED <<busVars, sagas, timedOut, overwritten>>

-----------------------------------------------------------------------------
(* The watchdog thread: S are the sagas that waited longer than STEP_TIMEOUT_S. *)

TimedOut(o) == Compensations(sagas[o].awaiting, TRUE)

Watchdog(S) ==
    /\ S # {}
    /\ \A o \in S : /\ sagas[o].awaiting # "none"
                    /\ "timeout" \in Faults[o]
                    /\ "race" \in Faults[o] \/ txn[o] = Closed
    /\ timedOut' = timedOut \cup S
    /\ sagas' = [o \in Order |->
                    IF o \in S THEN CompensationRow(sagas[o], TimedOut(o)) ELSE sagas[o]]
    /\ staged' = [o \in Order |->
                    IF o \in S THEN staged[o] \cup CompensationEvents(TimedOut(o)) ELSE staged[o]]
    /\ dead' = [o \in Order |->
                    IF o \in S THEN dead[o] \ CompensationEvents(TimedOut(o)) ELSE dead[o]]
    /\ UNCHANGED <<processed, txn, overwritten>>
=============================================================================
