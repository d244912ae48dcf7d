-------------------------- MODULE LifecycleProofs --------------------------
(***************************************************************************)
(* The composed system implements OrderLifecycle, under every fault: each  *)
(* step of a service, the orchestrator or the watchdog is one step of the  *)
(* lifecycle, or none.                                                     *)
(***************************************************************************)
EXTENDS FulfilmentProofs

Verdicts == {"order.shipped", "order.cancelled"}

(* What the client and the auditor see of one order changes only with these. *)
LEMMA PhaseKept ==
    ASSUME NEW o \in Order,
           "order.shipped" \in staged'[o] <=> "order.shipped" \in staged[o],
           "order.cancelled" \in staged'[o] <=> "order.cancelled" \in staged[o],
           status'[o] = "ABSENT" <=> status[o] = "ABSENT"
    PROVE  Phase(o)' = Phase(o)
BY DEF Phase

LEMMA PerformedKept ==
    ASSUME NEW o \in Order,
           \A s \in Step : STEP_COMMAND[s] \in processed'[o] <=> STEP_COMMAND[s] \in processed[o],
           \A s \in Step : STEP_FAIL[s] \in staged'[o] <=> STEP_FAIL[s] \in staged[o]
    PROVE  Performed(o)' = Performed(o)
BY DEF Performed

(* The abstract step of one order, from its effect on that order and on the others. *)
LEMMA StutterOnAll ==
    ASSUME status' = status,
           \A o \in Order : Phase(o)' = Phase(o) /\ Performed(o)' = Performed(o)
    PROVE  UNCHANGED Lifecycle!lifecycleVars
BY DEF Lifecycle!lifecycleVars

LEMMA StepOfOne ==
    ASSUME TypeOK, NEW o \in Order,
           \A q \in Order \ {o} : /\ Phase(q)' = Phase(q) /\ Performed(q)' = Performed(q)
                                  /\ status'[q] = status[q],
           TypeOK',
           NEW ph, NEW pf, NEW an,
           Phase(o)' = ph, Performed(o)' = pf, status'[o] = an
    PROVE  /\ [q \in Order |-> Phase(q)]' = [[q \in Order |-> Phase(q)] EXCEPT ![o] = ph]
           /\ [q \in Order |-> Performed(q)]' = [[q \in Order |-> Performed(q)] EXCEPT ![o] = pf]
           /\ status' = [status EXCEPT ![o] = an]
BY DEF TypeOK, OrderTypeOK

(* A service carries out a step: all the earlier ones had been carried out, and no other. *)
LEMMA PerformedInOrder ==
    ASSUME NEW o \in Order, OrderInv(o), NEW step \in Step, FirstTime(o, STEP_COMMAND[step]),
           NEW replies \in SUBSET Reply, \A s \in Step : STEP_FAIL[s] \notin replies,
           staged'[o] = staged[o] \cup replies,
           processed'[o] = processed[o] \cup {STEP_COMMAND[step]}
    PROVE  /\ Performed(o) = Before(step)
           /\ Performed(o)' = Before(step) \cup {step}
<1> USE DEF OrderInv, CausalInv, FirstTime
<1>1. \A s \in Before(step) : s \in Step /\ s \in Performed(o)
  <2>1. TAKE s \in Before(step)
  <2>2. s \in Step
    BY StepTables DEF Step
  <2>3. STEP_OK[s] \in staged[o]
    OBVIOUS
  <2>4. STEP_COMMAND[s] \in processed[o] /\ STEP_FAIL[s] \notin staged[o]
    BY <2>2, <2>3
  <2>5. QED
    BY <2>2, <2>4 DEF Performed
<1>2. \A s \in Step : s = step \/ s \in Before(step) \/ step \in Before(s)
  BY StepTables DEF Step
<1>3. ASSUME NEW s \in Step, step \in Before(s)
      PROVE  STEP_COMMAND[s] \notin processed[o]
  BY <1>3
<1>4. Performed(o) = Before(step)
  BY <1>1, <1>2, <1>3 DEF Performed
<1>5. \A s \in Step : STEP_COMMAND[s] = STEP_COMMAND[step] => s = step
  BY StepTables DEF Step
<1>6. STEP_FAIL[step] \notin staged[o]
  OBVIOUS
<1>7. Performed(o)' = Performed(o) \cup {step}
  BY <1>5, <1>6 DEF Performed
<1>8. QED
  BY <1>4, <1>7

(* Once an event is staged the order exists. *)
LEMMA NotNew ==
    ASSUME NEW o \in Order, OrderInv(o), staged[o] # {}
    PROVE  Phase(o) # "new" /\ status[o] # "ABSENT"
BY DEF OrderInv, CausalInv, Phase

LEMMA OthersKept ==
    ASSUME TypeOK, NEW p \in Order,
           \/ Place(p) \/ Close(p) \/ Pay(p) \/ Stock(p) \/ Ship(p)
           \/ Begin(p) \/ Commit(p) \/ Abort(p) \/ (\E e \in Event : Lose(p, e))
    PROVE  \A q \in Order \ {p} : /\ Phase(q)' = Phase(q) /\ Performed(q)' = Performed(q)
                                  /\ status'[q] = status[q]
<1>1. TAKE q \in Order \ {p}
<1>2. staged'[q] = staged[q] /\ processed'[q] = processed[q] /\ status'[q] = status[q]
  BY OthersUntouched
<1>3. QED
  BY <1>2, PhaseKept, PerformedKept

(* What a commit of the orchestrator announces. *)
LEMMA CommitEffect ==
    ASSUME TypeOK, NEW o \in Order, OrderInv(o), Commit(o)
    PROVE  \E row, events :
            /\ CommitHandle(o, row, events)
            /\ txn[o].event \in Reply \cup {"order.placed"}
            /\ events \cap Reply = {}
            /\ \/ events \cap Verdicts = {}
               \/ /\ events = {"order.shipped"} /\ FinishCompleted(o)
                  /\ "order.shipped" \notin staged[o] /\ "order.cancelled" \notin staged[o]
               \/ /\ events = {"order.cancelled"}
                  /\ "order.shipped" \notin staged[o] /\ "order.cancelled" \notin staged[o]
<1> DEFINE Effect(row, events) ==
            /\ CommitHandle(o, row, events)
            /\ txn[o].event \in Reply \cup {"order.placed"}
            /\ events \cap Reply = {}
            /\ \/ events \cap Verdicts = {}
               \/ /\ events = {"order.shipped"} /\ FinishCompleted(o)
                  /\ "order.shipped" \notin staged[o] /\ "order.cancelled" \notin staged[o]
               \/ /\ events = {"order.cancelled"}
                  /\ "order.shipped" \notin staged[o] /\ "order.cancelled" \notin staged[o]
<1>1. CASE StartSaga(o)
  <2>1. Effect(SetState(sagas[o], "STARTED", "charge"), {STEP_COMMAND["charge"]})
    BY <1>1, StepTables DEF StartSaga, Reply, Verdicts
  <2>2. QED
    BY <2>1
<1>2. ASSUME NEW step \in Step, StepSucceeded(o, step)
      PROVE  \E row, events : Effect(row, events)
  <2> DEFINE next == NextStep[step]
  <2>1. STEP_COMMAND[next] \notin Reply \cup Verdicts
    BY <1>2, StepTables DEF StepSucceeded, Step, Reply, Verdicts
  <2>2. Effect(SetState(sagas[o], AwaitingState[next], next), {STEP_COMMAND[next]})
    BY <1>2, <2>1 DEF StepSucceeded, Forward
  <2>3. QED
    BY <2>2
<1>3. ASSUME NEW step \in Step, StepFailed(o, step)
      PROVE  \E row, events : Effect(row, events)
  <2> DEFINE comps == Compensations(step, FALSE)
  <2>1. comps \subseteq {"cmd.payment.refund", "cmd.inventory.release"}
    BY CompensationsType
  <2>2. "order.shipped" \notin staged[o] /\ "order.cancelled" \notin staged[o]
    BY <1>3, RunningSnapshot DEF StepFailed
  <2>3. /\ CompensationEvents(comps) \cap Reply = {}
        /\ \/ CompensationEvents(comps) \cap Verdicts = {}
           \/ CompensationEvents(comps) = {"order.cancelled"}
    BY <2>1 DEF CompensationEvents, Reply, Verdicts
  <2>4. CommitHandle(o, CompensationRow(sagas[o], comps), CompensationEvents(comps))
    BY <1>3 DEF StepFailed
  <2>5. txn[o].event \in Reply
    BY <1>3 DEF StepFailed, Forward
  <2> HIDE DEF comps
  <2>6. Effect(CompensationRow(sagas[o], comps), CompensationEvents(comps))
    BY <2>2, <2>3, <2>4, <2>5
  <2>7. QED
    BY <2>6
<1>4. CASE FinishCompleted(o)
  <2>1. "order.shipped" \notin staged[o] /\ "order.cancelled" \notin staged[o]
    BY <1>4, RunningSnapshot DEF FinishCompleted, Step
  <2>2. Effect(SetState(sagas[o], "COMPLETED", "none"), {"order.shipped"})
    BY <1>4, <2>1 DEF FinishCompleted, Forward, Reply
  <2>3. QED
    BY <2>2
<1>5. CASE CountDown(o)
  <2>1. Effect([sagas[o] EXCEPT !.comp_pending = @ - 1], {})
    BY <1>5, StepTables DEF CountDown, Reply
  <2>2. QED
    BY <2>1
<1>6. CASE FinishCancelled(o)
  <2>1. txn[o].event # "none" /\ txn[o].row.state = "COMPENSATING"
    BY <1>6, StepTables DEF FinishCancelled
  <2>2. "order.shipped" \notin staged[o] /\ "order.cancelled" \notin staged[o]
    BY <2>1, SettledSnapshot DEF OrderInv, VerdictInv, Running
  <2>3. Effect(SetPending(sagas[o], "CANCELLED", sagas[o].comp_pending - 1), {"order.cancelled"})
    BY <1>6, <2>2, StepTables DEF FinishCancelled, Reply
  <2>4. QED
    BY <2>3
<1>7. CASE LateReserve(o)
  <2>1. Effect(sagas[o], {"cmd.inventory.release.late"})
    BY <1>7 DEF LateReserve, Reply, Verdicts
  <2>2. QED
    BY <2>1
<1>8. CASE IgnoreEvent(o)
  <2>1. Effect(sagas[o], {})
    BY <1>8 DEF IgnoreEvent, Ignored
  <2>2. QED
    BY <2>1
<1>9. QED
  BY <1>1, <1>2, <1>3, <1>4, <1>5, <1>6, <1>7, <1>8 DEF Commit, CommitStep

-----------------------------------------------------------------------------
(* Every action of the system is a step of the lifecycle or a stutter. *)

LEMMA PlaceOpens ==
    ASSUME TypeOK, TypeOK', NEW o \in Order, OrderInv(o), Place(o)
    PROVE  Lifecycle!Open(o)
<1>1. /\ status[o] = "ABSENT" /\ status'[o] = "PENDING"
      /\ staged[o] = {} /\ staged'[o] = {"order.placed"} /\ processed' = processed
  BY DEF Place, PlaceOrder, TypeOK, BusTypeOK, OrderTypeOK, OrderInv, CausalInv
<1>2. Phase(o) = "new" /\ Phase(o)' = "open"
  BY <1>1 DEF Phase
<1>3. \A s \in Step : STEP_FAIL[s] # "order.placed"
  BY StepTables DEF Step
<1>4. Performed(o)' = Performed(o)
  BY <1>1, <1>3, PerformedKept
<1>5. \A q \in Order \ {o} : /\ Phase(q)' = Phase(q) /\ Performed(q)' = Performed(q)
                             /\ status'[q] = status[q]
  BY OthersKept
<1>6. \A q \in Order : Performed(q)' = Performed(q)
  BY <1>4, <1>5
<1>7. /\ [q \in Order |-> Phase(q)]' = [[q \in Order |-> Phase(q)] EXCEPT ![o] = "open"]
      /\ status' = [status EXCEPT ![o] = "PENDING"]
  BY <1>1, <1>2, <1>5, StepOfOne
<1>8. QED
  BY <1>2, <1>6, <1>7 DEF Lifecycle!Open

LEMMA CloseTells ==
    ASSUME TypeOK, TypeOK', NEW o \in Order, OrderInv(o), Close(o)
    PROVE  Lifecycle!Tell(o)
<1>1. PICK e \in {"order.shipped", "order.cancelled"} : CloseOrder(o, e)
  BY DEF Close, OrderStep
<1>2. /\ status'[o] = (IF e = "order.shipped" THEN "SHIPPED" ELSE "CANCELLED")
      /\ staged' = staged /\ processed'[o] = processed[o] \cup {e}
      /\ e \in staged[o] /\ e \notin processed[o]
  BY <1>1 DEF CloseOrder, CommitUnit, FirstTime, TypeOK, BusTypeOK, OrderTypeOK
<1>3. status[o] = "PENDING"
  BY <1>2 DEF OrderInv, VerdictInv, CausalInv, TypeOK, OrderTypeOK, OrderStatus
<1>4. Phase(o) = status'[o] /\ Phase(o) \in {"SHIPPED", "CANCELLED"}
  <2>1. CASE e = "order.shipped"
    <3>1. status'[o] = "SHIPPED" /\ "order.shipped" \in staged[o]
      BY <1>2, <2>1
    <3>2. Phase(o) = "SHIPPED"
      BY <3>1 DEF Phase
    <3>3. QED
      BY <3>1, <3>2
  <2>2. CASE e = "order.cancelled"
    <3>1. "order.shipped" \notin staged[o] /\ "order.cancelled" \in staged[o]
      BY <1>2, <2>2 DEF OrderInv, VerdictInv
    <3>2. status'[o] = "CANCELLED"
      BY <1>2, <2>2
    <3>3. Phase(o) = "CANCELLED"
      BY <3>1 DEF Phase
    <3>4. QED
      BY <3>2, <3>3
  <2>3. QED
    BY <2>1, <2>2
<1>5. Phase(o)' = Phase(o)
  BY <1>2, <1>3, PhaseKept
<1>6. \A s \in Step : STEP_COMMAND[s] # e
  BY <1>1, StepTables DEF Step
<1>7. Performed(o)' = Performed(o)
  BY <1>2, <1>6, PerformedKept
<1>8. \A q \in Order \ {o} : /\ Phase(q)' = Phase(q) /\ Performed(q)' = Performed(q)
                             /\ status'[q] = status[q]
  BY OthersKept
<1>9. /\ \A q \in Order : Phase(q)' = Phase(q) /\ Performed(q)' = Performed(q)
      /\ status' = [status EXCEPT ![o] = Phase(o)]
  <2>1. \A q \in Order : Phase(q)' = Phase(q) /\ Performed(q)' = Performed(q)
    BY <1>5, <1>7, <1>8
  <2>2. status'[o] = Phase(o) /\ \A q \in Order \ {o} : status'[q] = status[q]
    BY <1>4, <1>8
  <2>3. status' = [status EXCEPT ![o] = Phase(o)]
    BY <2>2 DEF TypeOK, OrderTypeOK
  <2>4. QED
    BY <2>1, <2>3
<1>10. QED
  BY <1>3, <1>4, <1>9 DEF Lifecycle!Tell

(* The commit of a service that carried out a step. *)
LEMMA ServicePerforms ==
    ASSUME TypeOK, TypeOK', NEW o \in Order, OrderInv(o), Pay(o) \/ Stock(o) \/ Ship(o),
           NEW step \in Step, FirstTime(o, STEP_COMMAND[step]),
           NEW replies \in SUBSET Reply, \A s \in Step : STEP_FAIL[s] \notin replies,
           CommitUnit(o, STEP_COMMAND[step], replies)
    PROVE  Lifecycle!PerformNext(o)
<1>1. /\ staged'[o] = staged[o] \cup replies /\ status' = status
      /\ processed'[o] = processed[o] \cup {STEP_COMMAND[step]}
  BY DEF CommitUnit, TypeOK, BusTypeOK, Pay, Stock, Ship
<1>2. Performed(o) = Before(step) /\ Performed(o)' = Before(step) \cup {step}
  BY <1>1, PerformedInOrder
<1>3. Phase(o) # "new" /\ Phase(o)' = Phase(o)
  <2>1. staged[o] # {}
    BY DEF FirstTime
  <2>2. "order.shipped" \notin replies /\ "order.cancelled" \notin replies
    BY DEF Reply
  <2>3. QED
    BY <1>1, <2>1, <2>2, NotNew, PhaseKept
<1>4. \A q \in Order \ {o} : /\ Phase(q)' = Phase(q) /\ Performed(q)' = Performed(q)
                             /\ status'[q] = status[q]
  BY OthersKept
<1>5. /\ \A q \in Order : Phase(q)' = Phase(q)
      /\ [q \in Order |-> Performed(q)]'
            = [[q \in Order |-> Performed(q)] EXCEPT ![o] = Before(step) \cup {step}]
  <2>1. \A q \in Order : Phase(q)' = Phase(q)
    BY <1>3, <1>4
  <2>2. \A q \in Order \ {o} : Performed(q)' = Performed(q)
    BY <1>4
  <2>3. QED
    BY <1>2, <2>1, <2>2
<1>6. Lifecycle!Perform(o, Before(step), step)
  BY <1>1, <1>2, <1>3, <1>5 DEF Lifecycle!Perform
<1>7. QED
  BY <1>6, StepTables DEF Lifecycle!PerformNext, Step

(* The commit of a service that refused a step or undid one. *)
LEMMA ServiceStutters ==
    ASSUME TypeOK, TypeOK', NEW o \in Order, OrderInv(o), Pay(o) \/ Stock(o) \/ Ship(o),
           NEW e \in Command, FirstTime(o, e), NEW replies \in SUBSET Reply,
           \A s \in Step : e = STEP_COMMAND[s] => STEP_FAIL[s] \in replies,
           \A s \in Step : STEP_FAIL[s] \in replies => e = STEP_COMMAND[s],
           CommitUnit(o, e, replies)
    PROVE  UNCHANGED Lifecycle!lifecycleVars
<1>1. /\ staged'[o] = staged[o] \cup replies /\ status' = status
      /\ processed'[o] = processed[o] \cup {e}
  BY DEF CommitUnit, TypeOK, BusTypeOK, Pay, Stock, Ship
<1>2. Performed(o)' = Performed(o)
  <2>1. ASSUME NEW s \in Step
        PROVE  s \in Performed(o)' <=> s \in Performed(o)
    BY <1>1, <2>1 DEF Performed, FirstTime
  <2>2. QED
    BY <2>1 DEF Performed
<1>3. "order.shipped" \notin replies /\ "order.cancelled" \notin replies
  BY DEF Reply
<1>4. Phase(o)' = Phase(o)
  BY <1>1, <1>3, PhaseKept
<1>5. QED
  BY <1>1, <1>2, <1>4, OthersKept, StutterOnAll

LEMMA ServicesImplement ==
    ASSUME TypeOK, TypeOK', NEW o \in Order, OrderInv(o), Pay(o) \/ Stock(o) \/ Ship(o)
    PROVE  Lifecycle!PerformNext(o) \/ UNCHANGED Lifecycle!lifecycleVars
<1>1. ASSUME NEW step \in Step, NEW replies \in SUBSET Reply, FirstTime(o, STEP_COMMAND[step]),
             CommitUnit(o, STEP_COMMAND[step], replies),
             (\A s \in Step : STEP_FAIL[s] \notin replies) \/ replies = {STEP_FAIL[step]}
      PROVE  Lifecycle!PerformNext(o) \/ UNCHANGED Lifecycle!lifecycleVars
  <2>1. CASE \A s \in Step : STEP_FAIL[s] \notin replies
    BY <1>1, <2>1, ServicePerforms
  <2>2. CASE replies = {STEP_FAIL[step]}
    <3>1. /\ STEP_COMMAND[step] \in Command
          /\ \A s \in Step : STEP_COMMAND[step] = STEP_COMMAND[s] => s = step
          /\ \A s \in Step : STEP_FAIL[step] = STEP_FAIL[s] => s = step
      BY StepTables DEF Step, Command
    <3>2. QED
      BY <1>1, <2>2, <3>1, ServiceStutters
  <2>3. QED
    BY <1>1, <2>1, <2>2
<1>2. ASSUME NEW e \in {"cmd.payment.refund", "cmd.inventory.release", "cmd.inventory.release.late"},
             NEW reply \in COMP_OK, FirstTime(o, e), CommitUnit(o, e, {reply})
      PROVE  Lifecycle!PerformNext(o) \/ UNCHANGED Lifecycle!lifecycleVars
  <2>1. e \in Command /\ {reply} \in SUBSET Reply
    BY StepTables DEF Command, Reply
  <2>2. \A s \in Step : e # STEP_COMMAND[s] /\ STEP_FAIL[s] \notin {reply}
    BY StepTables DEF Step
  <2>3. QED
    BY <1>2, <2>1, <2>2, ServiceStutters
<1>3. CASE Charge(o) \/ Decline(o)
  <2>1. PICK replies \in {{"reply.payment.charged"}, {"reply.payment.failed"}} :
            FirstTime(o, STEP_COMMAND["charge"]) /\ CommitUnit(o, STEP_COMMAND["charge"], replies)
    BY <1>3, StepTables DEF Charge, Decline
  <2>2. /\ (\A s \in Step : STEP_FAIL[s] \notin replies) \/ replies = {STEP_FAIL["charge"]}
        /\ replies \in SUBSET Reply /\ "charge" \in Step
    BY StepTables DEF Step, Reply
  <2>3. QED
    BY <1>1, <2>1, <2>2
<1>4. CASE (\E r \in {{}, {"reply.inventory.reserved"}} : Reserve(o, r)) \/ Refuse(o)
  <2>1. PICK replies \in {{}, {"reply.inventory.reserved"}, {"reply.inventory.failed"}} :
            FirstTime(o, STEP_COMMAND["reserve"]) /\ CommitUnit(o, STEP_COMMAND["reserve"], replies)
    BY <1>4, StepTables DEF Reserve, Refuse
  <2>2. /\ (\A s \in Step : STEP_FAIL[s] \notin replies) \/ replies = {STEP_FAIL["reserve"]}
        /\ replies \in SUBSET Reply /\ "reserve" \in Step
    BY StepTables DEF Step, Reply
  <2>3. QED
    BY <1>1, <2>1, <2>2
<1>5. CASE Dispatch(o) \/ NoCourier(o)
  <2>1. PICK replies \in {{"reply.shipping.dispatched"}, {"reply.shipping.failed"}} :
            FirstTime(o, STEP_COMMAND["dispatch"]) /\ CommitUnit(o, STEP_COMMAND["dispatch"], replies)
    BY <1>5, StepTables DEF Dispatch, NoCourier
  <2>2. /\ (\A s \in Step : STEP_FAIL[s] \notin replies) \/ replies = {STEP_FAIL["dispatch"]}
        /\ replies \in SUBSET Reply /\ "dispatch" \in Step
    BY StepTables DEF Step, Reply
  <2>3. QED
    BY <1>1, <2>1, <2>2
<1>6. CASE Refund(o) \/ \E e \in {"cmd.inventory.release", "cmd.inventory.release.late"} : Release(o, e)
  BY <1>2, <1>6, StepTables DEF Refund, Release
<1>7. QED
  BY <1>3, <1>4, <1>5, <1>6 DEF Pay, PaymentStep, Stock, InventoryStep, Ship, ShippingStep

LEMMA CommitImplements ==
    ASSUME TypeOK, TypeOK', NEW o \in Order, OrderInv(o), Commit(o)
    PROVE  \/ \E verdict \in {"SHIPPED", "CANCELLED"} : Lifecycle!Decide(o, verdict)
           \/ UNCHANGED Lifecycle!lifecycleVars
<1>1. PICK row, events :
        /\ CommitHandle(o, row, events)
        /\ txn[o].event \in Reply \cup {"order.placed"}
        /\ events \cap Reply = {}
        /\ \/ events \cap Verdicts = {}
           \/ /\ events = {"order.shipped"} /\ FinishCompleted(o)
              /\ "order.shipped" \notin staged[o] /\ "order.cancelled" \notin staged[o]
           \/ /\ events = {"order.cancelled"}
              /\ "order.shipped" \notin staged[o] /\ "order.cancelled" \notin staged[o]
  BY CommitEffect
<1>2. /\ staged'[o] = staged[o] \cup events /\ status' = status
      /\ processed'[o] = processed[o] \cup {txn[o].event}
      /\ txn[o].event \in staged[o]
  BY <1>1 DEF Commit, CommitHandle, CommitUnit, TypeOK, BusTypeOK, OrderInv, TxnInv, Reply
<1>3. \A s \in Step : STEP_COMMAND[s] # txn[o].event /\ STEP_FAIL[s] \notin events
  BY <1>1, StepTables DEF Step, Reply
<1>4. Performed(o)' = Performed(o)
  BY <1>2, <1>3, PerformedKept
<1>5. \A q \in Order \ {o} : /\ Phase(q)' = Phase(q) /\ Performed(q)' = Performed(q)
                             /\ status'[q] = status[q]
  BY OthersKept
<1>6. \A q \in Order : Performed(q)' = Performed(q)
  BY <1>4, <1>5
<1>7. CASE events \cap Verdicts = {}
  <2>1. Phase(o)' = Phase(o)
    BY <1>2, <1>7, PhaseKept DEF Verdicts
  <2>2. QED
    BY <1>2, <1>5, <1>6, <2>1, StutterOnAll
<1>8. ASSUME "order.shipped" \notin staged[o], "order.cancelled" \notin staged[o],
             NEW verdict \in {"SHIPPED", "CANCELLED"}, Phase(o)' = verdict,
             verdict = "SHIPPED" => Performed(o) = {"charge", "reserve", "dispatch"}
      PROVE  Lifecycle!Decide(o, verdict)
  <2>1. Phase(o) = "open"
    <3>1. status[o] # "ABSENT"
      BY <1>2, NotNew
    <3>2. QED
      BY <1>8, <3>1 DEF Phase
  <2>2. \A q \in Order \ {o} : Phase(q)' = Phase(q)
    BY <1>5
  <2>3. [q \in Order |-> Phase(q)]' = [[q \in Order |-> Phase(q)] EXCEPT ![o] = verdict]
    BY <1>8, <2>2
  <2>4. QED
    BY <1>2, <1>6, <1>8, <2>1, <2>3 DEF Lifecycle!Decide
<1>9. CASE /\ events = {"order.shipped"} /\ FinishCompleted(o)
           /\ "order.shipped" \notin staged[o] /\ "order.cancelled" \notin staged[o]
  <2>1. Phase(o)' = "SHIPPED"
    BY <1>2, <1>9 DEF Phase
  <2>2. STEP_COMMAND["dispatch"] \in staged[o] /\ STEP_OK["dispatch"] \in staged[o]
    BY <1>2, <1>9, RunningSnapshot DEF FinishCompleted, Step
  <2>3. \A s \in Step : STEP_OK[s] \in staged[o]
    BY <2>2, StepTables DEF OrderInv, CausalInv, Step
  <2>4. \A s \in Step : STEP_COMMAND[s] \in processed[o] /\ STEP_FAIL[s] \notin staged[o]
    BY <2>3 DEF OrderInv, CausalInv
  <2>5. Performed(o) = {"charge", "reserve", "dispatch"}
    BY <2>4 DEF Performed, Step
  <2>6. QED
    BY <1>8, <1>9, <2>1, <2>5
<1>10. CASE /\ events = {"order.cancelled"}
            /\ "order.shipped" \notin staged[o] /\ "order.cancelled" \notin staged[o]
  <2>1. Phase(o)' = "CANCELLED"
    BY <1>2, <1>10 DEF Phase
  <2>2. QED
    BY <1>8, <1>10, <2>1
<1>11. QED
  BY <1>1, <1>7, <1>9, <1>10

LEMMA TimeoutStutters ==
    ASSUME TypeOK, \A o \in Order : OrderInv(o), NEW S \in SUBSET Order, Timeout(S)
    PROVE  UNCHANGED Lifecycle!lifecycleVars
<1>1. status' = status /\ processed' = processed
  BY DEF Timeout, Watchdog
<1>2. ASSUME NEW o \in Order
      PROVE  \E comps \in SUBSET {"cmd.payment.refund", "cmd.inventory.release"} :
                staged'[o] = staged[o] \cup comps
  <2>1. CASE o \in S
    <3>1. sagas[o].awaiting \in Step
      BY <2>1 DEF Timeout, Watchdog, TypeOK, SagaTypeOK, SagaRow
    <3>2. /\ TimedOut(o) \subseteq {"cmd.payment.refund", "cmd.inventory.release"}
          /\ TimedOut(o) # {}
      BY <3>1, CompensationsType DEF TimedOut
    <3>3. staged'[o] = staged[o] \cup TimedOut(o)
      BY <1>2, <2>1, <3>2 DEF Timeout, Watchdog, CompensationEvents
    <3>4. QED
      BY <3>2, <3>3
  <2>2. CASE o \notin S
    <3>1. staged'[o] = staged[o] \cup {}
      BY <1>2, <2>2 DEF Timeout, Watchdog
    <3>2. QED
      BY <3>1
  <2>3. QED
    BY <2>1, <2>2
<1>3. ASSUME NEW o \in Order
      PROVE  Phase(o)' = Phase(o) /\ Performed(o)' = Performed(o)
  <2>1. PICK comps \in SUBSET {"cmd.payment.refund", "cmd.inventory.release"} :
            staged'[o] = staged[o] \cup comps
    BY <1>2
  <2>2. \A s \in Step : STEP_FAIL[s] \notin comps
    BY StepTables DEF Step
  <2>3. QED
    BY <1>1, <2>1, <2>2, PhaseKept, PerformedKept
<1>4. QED
  BY <1>1, <1>3, StutterOnAll

LEMMA NextImplements ==
    ASSUME IInv, [Next]_vars
    PROVE  [Lifecycle!LifecycleNext]_(Lifecycle!lifecycleVars)
<1>1. TypeOK /\ TypeOK' /\ \A o \in Order : OrderInv(o)
  BY NextTypeOK DEF IInv
<1>2. ASSUME NEW o \in Order,
             Place(o) \/ Close(o) \/ Pay(o) \/ Stock(o) \/ Ship(o) \/ Commit(o)
      PROVE  [Lifecycle!LifecycleNext]_(Lifecycle!lifecycleVars)
  BY <1>1, <1>2, PlaceOpens, CloseTells, ServicesImplement, CommitImplements
     DEF Lifecycle!LifecycleNext
<1>3. CASE \E o \in Order : Begin(o) \/ Abort(o) \/ (\E e \in Event : Lose(o, e))
  <2>1. status' = status /\ staged' = staged /\ processed' = processed
    BY <1>3 DEF Begin, BeginHandle, Abort, AbortHandle, Lose, DeadLetter, busVars
  <2>2. \A o \in Order : Phase(o)' = Phase(o) /\ Performed(o)' = Performed(o)
    BY <2>1 DEF Phase, Performed
  <2>3. QED
    BY <2>1, <2>2, StutterOnAll
<1>4. CASE \E S \in SUBSET Order : Timeout(S)
  BY <1>1, <1>4, TimeoutStutters
<1>5. CASE UNCHANGED vars
  <2>1. status' = status /\ staged' = staged /\ processed' = processed
    BY <1>5 DEF vars, busVars
  <2>2. \A o \in Order : Phase(o)' = Phase(o) /\ Performed(o)' = Performed(o)
    BY <2>1 DEF Phase, Performed
  <2>3. QED
    BY <2>1, <2>2, StutterOnAll
<1>6. QED
  BY <1>2, <1>3, <1>4, <1>5 DEF Next

(* The composed system, under every fault, is an implementation of OrderLifecycle. *)
THEOREM Refinement == Spec => ImplementsLifecycle
<1>1. Init => Lifecycle!LifecycleInit
  BY StepTables DEF Init, BusInit, OrderInit, Lifecycle!LifecycleInit, Phase, Performed
<1>2. IInv /\ [Next]_vars => [Lifecycle!LifecycleNext]_(Lifecycle!lifecycleVars)
  BY NextImplements
<1>3. QED
  BY <1>1, <1>2, Inductive, PTL DEF Spec, ImplementsLifecycle, Lifecycle!LifecycleSpec
=============================================================================
