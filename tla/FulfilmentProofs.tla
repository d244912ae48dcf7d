-------------------------- MODULE FulfilmentProofs --------------------------
(***************************************************************************)
(* The safety of the saga for every set of orders, every combination of    *)
(* faults, all totals and every initial stock.                             *)
(***************************************************************************)
EXTENDS FulfilmentInvariant, FiniteSetTheorems, TLAPS

-----------------------------------------------------------------------------
(* The tables of saga.py, entry by entry. *)
LEMMA StepTables ==
    /\ STEP_COMMAND["charge"] = "cmd.payment.charge"
    /\ STEP_COMMAND["reserve"] = "cmd.inventory.reserve"
    /\ STEP_COMMAND["dispatch"] = "cmd.shipping.dispatch"
    /\ STEP_OK["charge"] = "reply.payment.charged"
    /\ STEP_OK["reserve"] = "reply.inventory.reserved"
    /\ STEP_OK["dispatch"] = "reply.shipping.dispatched"
    /\ STEP_FAIL["charge"] = "reply.payment.failed"
    /\ STEP_FAIL["reserve"] = "reply.inventory.failed"
    /\ STEP_FAIL["dispatch"] = "reply.shipping.failed"
    /\ AwaitingState["charge"] = "STARTED"
    /\ AwaitingState["reserve"] = "CHARGED"
    /\ AwaitingState["dispatch"] = "RESERVED"
    /\ NextStep["charge"] = "reserve"
    /\ NextStep["reserve"] = "dispatch"
    /\ Before("charge") = {}
    /\ Before("reserve") = {"charge"}
    /\ Before("dispatch") = {"charge", "reserve"}
    /\ COMP_OK = {"reply.payment.refunded", "reply.inventory.released"}
BY DEF Step, STEP_COMMAND, STEP_OK, STEP_FAIL, AwaitingState, NextStep, Before, COMP_OK, CompReply

(* A compensation stages at most the two compensating commands, and after a timeout
   always one of them: a timeout never cancels an order at once. *)
LEMMA CompensationsType ==
    ASSUME NEW step \in Step, NEW include \in BOOLEAN
    PROVE  /\ Compensations(step, include) \subseteq {"cmd.payment.refund", "cmd.inventory.release"}
           /\ Cardinality(Compensations(step, include)) \in Nat
           /\ include => Compensations(step, include) # {}
<1> DEFINE Both == {"cmd.payment.refund", "cmd.inventory.release"}
           Undo == Before(step) \cup (IF include THEN {step} ELSE {})
<1>1. Undo \ {"dispatch"} \subseteq {"charge", "reserve"}
  BY StepTables DEF Step
<1>2. \A s \in {"charge", "reserve"} : STEP_COMPENSATE[s] \in Both
  BY DEF STEP_COMPENSATE
<1>3. Compensations(step, include) \subseteq Both
  BY <1>1, <1>2 DEF Compensations
<1>4. IsFiniteSet(Both)
  <2>1. IsFiniteSet({"cmd.inventory.release"})
    BY FS_Singleton
  <2>2. IsFiniteSet({"cmd.inventory.release"} \cup {"cmd.payment.refund"})
    BY <2>1, FS_AddElement
  <2>3. Both = {"cmd.inventory.release"} \cup {"cmd.payment.refund"}
    OBVIOUS
  <2>4. QED
    BY <2>2, <2>3
<1>5. Cardinality(Compensations(step, include)) \in Nat
  BY <1>3, <1>4, FS_Subset, FS_CardinalityType
<1>6. include => "charge" \in Undo \ {"dispatch"} \/ "reserve" \in Undo \ {"dispatch"}
  BY StepTables DEF Step
<1>7. include => Compensations(step, include) # {}
  BY <1>6 DEF Compensations
<1>8. QED
  BY <1>3, <1>5, <1>7

-----------------------------------------------------------------------------
(* The invariant of one order is kept by what happens to the others. *)
LEMMA OtherOrder ==
    ASSUME NEW o \in Order, OrderInv(o),
           sagas'[o] = sagas[o], txn'[o] = txn[o], status'[o] = status[o],
           staged'[o] = staged[o], processed'[o] = processed[o],
           o \in reservations' <=> o \in reservations
    PROVE  OrderInv(o)'
BY DEF OrderInv, TxnInv, RowInv, VerdictInv, CausalInv, ReservedInv

(* Only the command of a step is answered, with one of the step's two answers. *)
Answers(e, replies) ==
    \A step \in Step :
        /\ STEP_OK[step] \in replies => e = STEP_COMMAND[step] /\ STEP_FAIL[step] \notin replies
        /\ STEP_FAIL[step] \in replies => e = STEP_COMMAND[step] /\ STEP_OK[step] \notin replies

(* A service handles a command for the first time. *)
LEMMA ServiceKeepsOrderInv ==
    ASSUME NEW o \in Order, OrderInv(o),
           NEW e \in Command, FirstTime(o, e),
           NEW replies \in SUBSET Reply,
           Answers(e, replies),
           sagas'[o] = sagas[o], txn'[o] = txn[o], status'[o] = status[o],
           staged'[o] = staged[o] \cup replies,
           processed'[o] = processed[o] \cup {e},
           o \in reservations' => o \in reservations \/ e = "cmd.inventory.reserve"
    PROVE  OrderInv(o)'
<1>1. TxnInv(o)'
  BY DEF OrderInv, TxnInv, RowInv
<1>2. VerdictInv(o)'
  BY DEF OrderInv, VerdictInv, Reply
<1>3. CausalInv(o)'
  <2>1. (processed[o] \subseteq staged[o])'
    BY DEF OrderInv, CausalInv, FirstTime
  <2>2. (status[o] = "ABSENT" => staged[o] = {})'
    BY DEF OrderInv, CausalInv, FirstTime
  <2>3. ASSUME NEW step \in Step
        PROVE  /\ STEP_COMMAND[step] \in staged'[o] => \A s \in Before(step) : STEP_OK[s] \in processed'[o]
               /\ STEP_OK[step] \in staged'[o] => STEP_COMMAND[step] \in processed'[o]
               /\ STEP_FAIL[step] \in staged'[o] =>
                    STEP_COMMAND[step] \in processed'[o] /\ STEP_OK[step] \notin staged'[o]
    <3>1. STEP_COMMAND[step] \notin Reply
      BY StepTables DEF Step, Reply
    <3>2. QED
      BY <2>3, <3>1 DEF OrderInv, CausalInv, FirstTime, Answers
  <2>4. QED
    BY <2>1, <2>2, <2>3 DEF CausalInv
<1>4. ReservedInv(o)'
  BY DEF OrderInv, ReservedInv
<1>5. QED
  BY <1>1, <1>2, <1>3, <1>4 DEF OrderInv

(* What the new row and the staged events of an orchestrator's commit must satisfy. *)
SoundCommit(o, row, events) ==
    /\ events \cap Reply = {}
    /\ RowInv(row, staged[o] \cup events)
    /\ \A step \in Step : STEP_COMMAND[step] \in events =>
            \A s \in Before(step) : STEP_OK[s] \in processed[o] \cup {txn[o].event}
    /\ "order.shipped" \in staged[o] \cup events <=> row.state = "COMPLETED"
    /\ "order.cancelled" \in staged[o] \cup events <=> row.state = "CANCELLED"

(* The orchestrator commits the handling of an event. *)
LEMMA HandlerKeepsOrderInv ==
    ASSUME TypeOK, NEW o \in Order, OrderInv(o),
           txn[o].event # "none",
           NEW row, NEW events, CommitHandle(o, row, events), SoundCommit(o, row, events),
           UNCHANGED <<status, inventoryVars>>
    PROVE  OrderInv(o)'
<1> USE DEF SoundCommit
<1>0. /\ sagas'[o] = row /\ txn'[o] = Closed /\ status'[o] = status[o]
      /\ staged'[o] = staged[o] \cup events
      /\ processed'[o] = processed[o] \cup {txn[o].event}
      /\ reservations' = reservations
  BY DEF CommitHandle, CommitUnit, TypeOK, BusTypeOK, SagaTypeOK, inventoryVars
<1>1. TxnInv(o)'
  BY <1>0 DEF OrderInv, TxnInv, RowInv, Closed, NoRow, Running, Step
<1>2. VerdictInv(o)'
  BY <1>0 DEF OrderInv, VerdictInv
<1>3. CausalInv(o)'
  <2>1. (processed[o] \subseteq staged[o])'
    BY <1>0 DEF OrderInv, CausalInv, TxnInv
  <2>2. (status[o] = "ABSENT" => staged[o] = {})'
    BY <1>0 DEF OrderInv, CausalInv, TxnInv
  <2>3. ASSUME NEW step \in Step
        PROVE  /\ STEP_COMMAND[step] \in staged'[o] => \A s \in Before(step) : STEP_OK[s] \in processed'[o]
               /\ STEP_OK[step] \in staged'[o] => STEP_COMMAND[step] \in processed'[o]
               /\ STEP_FAIL[step] \in staged'[o] =>
                    STEP_COMMAND[step] \in processed'[o] /\ STEP_OK[step] \notin staged'[o]
    <3>1. STEP_OK[step] \in Reply /\ STEP_FAIL[step] \in Reply
      BY StepTables DEF Step, Reply
    <3>2. QED
      BY <1>0, <2>3, <3>1 DEF OrderInv, CausalInv
  <2>4. QED
    BY <2>1, <2>2, <2>3 DEF CausalInv
<1>4. ReservedInv(o)'
  BY <1>0 DEF OrderInv, ReservedInv
<1>5. QED
  BY <1>1, <1>2, <1>3, <1>4 DEF OrderInv

(* What a handler that found the saga running may rely on when it commits: the saga has not
   ended, and the step it awaited had been commanded. *)
LEMMA RunningSnapshot ==
    ASSUME NEW o \in Order, OrderInv(o), NEW step \in Step, Forward(o, step)
    PROVE  /\ txn[o].event \in staged[o]
           /\ STEP_COMMAND[step] \in staged[o]
           /\ sagas[o].state \notin {"COMPLETED", "CANCELLED"}
           /\ "order.shipped" \notin staged[o] /\ "order.cancelled" \notin staged[o]
BY StepTables DEF Forward, OrderInv, TxnInv, RowInv, VerdictInv, Reply, Step, Running

(* The row of an order whose transaction is open is the one that was read, unless that one
   was running. *)
LEMMA SettledSnapshot ==
    ASSUME NEW o \in Order, OrderInv(o), txn[o].event # "none",
           txn[o].row.state \notin Running
    PROVE  txn[o].row = sagas[o]
BY DEF OrderInv, TxnInv

-----------------------------------------------------------------------------
(* Every action of the order at hand keeps its invariant. *)

LEMMA PlaceKeepsOrderInv ==
    ASSUME TypeOK, NEW o \in Order, OrderInv(o), Place(o)
    PROVE  OrderInv(o)'
<1>1. /\ status[o] = "ABSENT" /\ status'[o] = "PENDING"
      /\ staged[o] = {} /\ staged'[o] = {"order.placed"}
      /\ processed' = processed /\ sagas' = sagas /\ txn' = txn /\ reservations' = reservations
  BY DEF Place, PlaceOrder, TypeOK, BusTypeOK, OrderTypeOK, sagaVars, inventoryVars,
         OrderInv, CausalInv
<1>2. TxnInv(o)'
  BY <1>1 DEF OrderInv, TxnInv, RowInv
<1>3. VerdictInv(o)' /\ ReservedInv(o)'
  BY <1>1 DEF OrderInv, VerdictInv, ReservedInv
<1>4. \A step \in Step : "order.placed" \notin {STEP_COMMAND[step], STEP_OK[step], STEP_FAIL[step]}
  BY StepTables DEF Step
<1>5. CausalInv(o)'
  BY <1>1, <1>4 DEF OrderInv, CausalInv
<1>6. QED
  BY <1>2, <1>3, <1>5 DEF OrderInv

LEMMA CloseKeepsOrderInv ==
    ASSUME TypeOK, NEW o \in Order, OrderInv(o), Close(o)
    PROVE  OrderInv(o)'
<1>1. PICK e \in {"order.shipped", "order.cancelled"} : CloseOrder(o, e)
  BY DEF Close, OrderStep
<1>2. /\ status'[o] = (IF e = "order.shipped" THEN "SHIPPED" ELSE "CANCELLED")
      /\ staged'[o] = staged[o] /\ processed'[o] = processed[o] \cup {e} /\ e \in staged[o]
      /\ sagas' = sagas /\ txn' = txn /\ reservations' = reservations
  BY <1>1 DEF Close, CloseOrder, CommitUnit, FirstTime, TypeOK, BusTypeOK, OrderTypeOK,
              sagaVars, inventoryVars
<1>3. TxnInv(o)'
  BY <1>2 DEF OrderInv, TxnInv, RowInv
<1>4. VerdictInv(o)' /\ ReservedInv(o)'
  BY <1>2 DEF OrderInv, VerdictInv, ReservedInv
<1>5. CausalInv(o)'
  BY <1>2 DEF OrderInv, CausalInv
<1>6. QED
  BY <1>3, <1>4, <1>5 DEF OrderInv

(* What a service's commit does to the bus, and what it leaves alone. *)
LEMMA ServiceFrame ==
    ASSUME TypeOK, NEW o \in Order, NEW e \in Command, NEW replies, CommitUnit(o, e, replies),
           UNCHANGED <<status, sagaVars>>
    PROVE  /\ staged'[o] = staged[o] \cup replies
           /\ processed'[o] = processed[o] \cup {e}
           /\ sagas'[o] = sagas[o] /\ txn'[o] = txn[o] /\ status'[o] = status[o]
BY DEF TypeOK, BusTypeOK, CommitUnit, sagaVars

LEMMA PayKeepsOrderInv ==
    ASSUME TypeOK, NEW o \in Order, OrderInv(o), Pay(o)
    PROVE  OrderInv(o)'
<1>1. UNCHANGED <<status, sagaVars>> /\ reservations' = reservations
  BY DEF Pay, inventoryVars
<1>2. CASE Charge(o)
  <2> DEFINE e == "cmd.payment.charge"
             replies == {"reply.payment.charged"}
  <2>1. Answers(e, replies)
    BY StepTables DEF Answers, Step
  <2>2. FirstTime(o, e) /\ CommitUnit(o, e, replies)
    BY <1>2 DEF Charge
  <2>3. e \in Command /\ replies \in SUBSET Reply
    BY DEF Command, Reply
  <2> HIDE DEF e, replies
  <2>4. QED
    BY <1>1, <2>1, <2>2, <2>3, ServiceFrame, ServiceKeepsOrderInv
<1>3. CASE Decline(o)
  <2> DEFINE e == "cmd.payment.charge"
             replies == {"reply.payment.failed"}
  <2>1. Answers(e, replies)
    BY StepTables DEF Answers, Step
  <2>2. FirstTime(o, e) /\ CommitUnit(o, e, replies)
    BY <1>3 DEF Decline
  <2>3. e \in Command /\ replies \in SUBSET Reply
    BY DEF Command, Reply
  <2> HIDE DEF e, replies
  <2>4. QED
    BY <1>1, <2>1, <2>2, <2>3, ServiceFrame, ServiceKeepsOrderInv
<1>4. CASE Refund(o)
  <2> DEFINE e == "cmd.payment.refund"
             replies == {"reply.payment.refunded"}
  <2>1. Answers(e, replies)
    BY StepTables DEF Answers, Step
  <2>2. FirstTime(o, e) /\ CommitUnit(o, e, replies)
    BY <1>4 DEF Refund
  <2>3. e \in Command /\ replies \in SUBSET Reply
    BY DEF Command, Reply
  <2> HIDE DEF e, replies
  <2>4. QED
    BY <1>1, <2>1, <2>2, <2>3, ServiceFrame, ServiceKeepsOrderInv
<1>5. QED
  BY <1>2, <1>3, <1>4 DEF Pay, PaymentStep

LEMMA StockKeepsOrderInv ==
    ASSUME TypeOK, NEW o \in Order, OrderInv(o), Stock(o)
    PROVE  OrderInv(o)'
<1>1. UNCHANGED <<status, sagaVars>>
  BY DEF Stock
<1>2. ASSUME NEW replies \in {{}, {"reply.inventory.reserved"}}, Reserve(o, replies)
      PROVE  OrderInv(o)'
  <2> DEFINE e == "cmd.inventory.reserve"
  <2>1. Answers(e, replies)
    BY StepTables DEF Answers, Step
  <2>2. FirstTime(o, e) /\ CommitUnit(o, e, replies)
    BY <1>2 DEF Reserve
  <2>3. e \in Command /\ replies \in SUBSET Reply
    BY DEF Command, Reply
  <2>4. o \in reservations' => o \in reservations \/ e = "cmd.inventory.reserve"
    OBVIOUS
  <2> HIDE DEF e
  <2>5. QED
    BY <1>1, <2>1, <2>2, <2>3, <2>4, ServiceFrame, ServiceKeepsOrderInv
<1>3. CASE Refuse(o)
  <2> DEFINE e == "cmd.inventory.reserve"
             replies == {"reply.inventory.failed"}
  <2>1. Answers(e, replies)
    BY StepTables DEF Answers, Step
  <2>2. FirstTime(o, e) /\ CommitUnit(o, e, replies)
    BY <1>3 DEF Refuse
  <2>3. e \in Command /\ replies \in SUBSET Reply /\ reservations' = reservations
    BY <1>3 DEF Command, Reply, Refuse, inventoryVars
  <2> HIDE DEF e, replies
  <2>4. QED
    BY <1>1, <2>1, <2>2, <2>3, ServiceFrame, ServiceKeepsOrderInv
<1>4. ASSUME NEW e \in {"cmd.inventory.release", "cmd.inventory.release.late"}, Release(o, e)
      PROVE  OrderInv(o)'
  <2> DEFINE replies == {"reply.inventory.released"}
  <2>1. Answers(e, replies)
    BY StepTables DEF Answers, Step
  <2>2. FirstTime(o, e) /\ CommitUnit(o, e, replies) /\ reservations' = reservations \ {o}
    BY <1>4 DEF Release
  <2>3. e \in Command /\ replies \in SUBSET Reply
    BY DEF Command, Reply
  <2> HIDE DEF replies
  <2>4. QED
    BY <1>1, <2>1, <2>2, <2>3, ServiceFrame, ServiceKeepsOrderInv
<1>5. QED
  BY <1>2, <1>3, <1>4 DEF Stock, InventoryStep

LEMMA ShipKeepsOrderInv ==
    ASSUME TypeOK, NEW o \in Order, OrderInv(o), Ship(o)
    PROVE  OrderInv(o)'
<1> DEFINE e == "cmd.shipping.dispatch"
<1>1. UNCHANGED <<status, sagaVars>> /\ reservations' = reservations /\ e \in Command
  BY DEF Ship, inventoryVars, Command
<1>2. CASE Dispatch(o)
  <2> DEFINE replies == {"reply.shipping.dispatched"}
  <2>1. Answers(e, replies)
    BY StepTables DEF Answers, Step
  <2>2. FirstTime(o, e) /\ CommitUnit(o, e, replies) /\ replies \in SUBSET Reply
    BY <1>2 DEF Dispatch, Reply
  <2> HIDE DEF e, replies
  <2>3. QED
    BY <1>1, <2>1, <2>2, ServiceFrame, ServiceKeepsOrderInv
<1>3. CASE NoCourier(o)
  <2> DEFINE replies == {"reply.shipping.failed"}
  <2>1. Answers(e, replies)
    BY StepTables DEF Answers, Step
  <2>2. FirstTime(o, e) /\ CommitUnit(o, e, replies) /\ replies \in SUBSET Reply
    BY <1>3 DEF NoCourier, Reply
  <2> HIDE DEF e, replies
  <2>3. QED
    BY <1>1, <2>1, <2>2, ServiceFrame, ServiceKeepsOrderInv
<1>4. QED
  BY <1>2, <1>3 DEF Ship, ShippingStep

(* The watchdog and the handlers keep a row well formed. *)
LEMMA SetPendingType ==
    ASSUME NEW row \in SagaRow, NEW state \in SagaState, NEW n \in Int
    PROVE  /\ SetPending(row, state, n) \in SagaRow
           /\ SetPending(row, state, n).awaiting = "none"
           /\ SetPending(row, state, n).state = state
BY DEF SetPending, SagaRow

LEMMA CompensationRowType ==
    ASSUME NEW row \in SagaRow, NEW comps, Cardinality(comps) \in Nat
    PROVE  /\ CompensationRow(row, comps) \in SagaRow
           /\ CompensationRow(row, comps).awaiting = "none"
           /\ comps = {} => CompensationRow(row, comps).state = "CANCELLED"
           /\ comps # {} => CompensationRow(row, comps).state = "COMPENSATING"
<1>1. Cardinality(comps) \in Int /\ 0 \in Int
  OBVIOUS
<1>2. "CANCELLED" \in SagaState /\ "COMPENSATING" \in SagaState
  BY DEF SagaState
<1>3. CASE comps = {}
  BY <1>1, <1>2, <1>3, SetPendingType DEF CompensationRow
<1>4. CASE comps # {}
  BY <1>1, <1>2, <1>4, SetPendingType DEF CompensationRow
<1>5. QED
  BY <1>3, <1>4

LEMMA StartSagaKeepsOrderInv ==
    ASSUME TypeOK, NEW o \in Order, OrderInv(o), StartSaga(o), UNCHANGED <<status, inventoryVars>>
    PROVE  OrderInv(o)'
<1> DEFINE row == SetState(sagas[o], "STARTED", "charge")
           events == {STEP_COMMAND["charge"]}
<1>1. CommitHandle(o, row, events) /\ txn[o].event # "none"
  BY DEF StartSaga
<1>2. sagas[o] \in SagaRow /\ sagas[o].state = "NONE"
  BY SettledSnapshot DEF StartSaga, TypeOK, SagaTypeOK, Running
<1>3. row.state = "STARTED" /\ row.awaiting = "charge"
  BY <1>2 DEF SetState, SagaRow
<1>4. SoundCommit(o, row, events)
  <2>1. RowInv(row, staged[o] \cup events) /\ events \cap Reply = {}
    BY <1>3, StepTables DEF RowInv, Running, Reply
  <2>2. \A step \in Step : STEP_COMMAND[step] \in events => Before(step) = {}
    BY StepTables DEF Step
  <2>3. "order.shipped" \notin staged[o] \cup events /\ "order.cancelled" \notin staged[o] \cup events
    BY <1>2, StepTables DEF OrderInv, VerdictInv
  <2>4. QED
    BY <1>3, <2>1, <2>2, <2>3 DEF SoundCommit
<1>5. QED
  BY <1>1, <1>4, HandlerKeepsOrderInv

LEMMA StepSucceededKeepsOrderInv ==
    ASSUME TypeOK, NEW o \in Order, OrderInv(o), NEW step \in Step, StepSucceeded(o, step),
           UNCHANGED <<status, inventoryVars>>
    PROVE  OrderInv(o)'
<1> DEFINE next == NextStep[step]
           row == SetState(sagas[o], AwaitingState[next], next)
           events == {STEP_COMMAND[next]}
<1>1. /\ CommitHandle(o, row, events) /\ txn[o].event = STEP_OK[step]
      /\ Forward(o, step) /\ step \in {"charge", "reserve"} /\ next \in {"reserve", "dispatch"}
  BY StepTables DEF StepSucceeded, Step
<1>2. txn[o].event # "none"
  BY <1>1 DEF Forward, Reply
<1>3. row.state = AwaitingState[next] /\ row.awaiting = next
  BY DEF SetState, SagaRow, TypeOK, SagaTypeOK
<1>4. SoundCommit(o, row, events)
  <2>1. RowInv(row, staged[o] \cup events) /\ events \cap Reply = {}
    BY <1>1, <1>3, StepTables DEF RowInv, Running, Reply
  <2>2. ASSUME NEW t \in Step, STEP_COMMAND[t] \in events
        PROVE  t = next
    BY <1>1, <2>2, StepTables DEF Step
  <2>3. \A s \in Before(next) : s = step \/ s \in Before(step)
    BY <1>1, StepTables
  <2>4. \A s \in Before(step) : STEP_OK[s] \in processed[o]
    BY <1>1, RunningSnapshot DEF OrderInv, CausalInv
  <2>5. \A s \in Before(next) : STEP_OK[s] \in processed[o] \cup {txn[o].event}
    BY <1>1, <2>3, <2>4
  <2>6. "order.shipped" \notin staged[o] \cup events /\ "order.cancelled" \notin staged[o] \cup events
    BY <1>1, RunningSnapshot, StepTables
  <2>7. row.state \notin {"COMPLETED", "CANCELLED"}
    BY <1>1, <1>3, StepTables
  <2>8. QED
    BY <2>1, <2>2, <2>5, <2>6, <2>7 DEF SoundCommit
<1>5. QED
  BY <1>1, <1>2, <1>4, HandlerKeepsOrderInv

LEMMA FinishCompletedKeepsOrderInv ==
    ASSUME TypeOK, NEW o \in Order, OrderInv(o), FinishCompleted(o), UNCHANGED <<status, inventoryVars>>
    PROVE  OrderInv(o)'
<1> DEFINE row == SetState(sagas[o], "COMPLETED", "none")
           events == {"order.shipped"}
<1>1. CommitHandle(o, row, events) /\ Forward(o, "dispatch")
  BY DEF FinishCompleted
<1>2. txn[o].event # "none"
  BY <1>1 DEF Forward, Reply
<1>3. row.state = "COMPLETED" /\ row.awaiting = "none"
  BY DEF SetState, SagaRow, TypeOK, SagaTypeOK
<1>4. SoundCommit(o, row, events)
  <2>1. RowInv(row, staged[o] \cup events) /\ events \cap Reply = {}
    BY <1>3 DEF RowInv, Running, Reply, Step
  <2>2. \A step \in Step : STEP_COMMAND[step] \notin events
    BY StepTables DEF Step
  <2>3. "order.cancelled" \notin staged[o] \cup events
    BY <1>1, RunningSnapshot DEF Step
  <2>4. QED
    BY <1>3, <2>1, <2>2, <2>3 DEF SoundCommit
<1>5. QED
  BY <1>1, <1>2, <1>4, HandlerKeepsOrderInv

LEMMA StepFailedKeepsOrderInv ==
    ASSUME TypeOK, NEW o \in Order, OrderInv(o), NEW step \in Step, StepFailed(o, step),
           UNCHANGED <<status, inventoryVars>>
    PROVE  OrderInv(o)'
<1> DEFINE comps == Compensations(step, FALSE)
           row == CompensationRow(sagas[o], comps)
           events == CompensationEvents(comps)
<1>1. CommitHandle(o, row, events) /\ Forward(o, step)
  BY DEF StepFailed
<1>2. txn[o].event # "none"
  BY <1>1 DEF Forward, Reply
<1>3. /\ row.awaiting = "none"
      /\ comps = {} => row.state = "CANCELLED"
      /\ comps # {} => row.state = "COMPENSATING"
  <2>1. sagas[o] \in SagaRow /\ Cardinality(comps) \in Nat
    BY CompensationsType DEF TypeOK, SagaTypeOK
  <2> HIDE DEF comps
  <2>2. QED
    BY <2>1, CompensationRowType
<1>4. /\ events \subseteq {"order.cancelled", "cmd.payment.refund", "cmd.inventory.release"}
      /\ "order.cancelled" \in events <=> comps = {}
  BY CompensationsType DEF CompensationEvents
<1>5. SoundCommit(o, row, events)
  <2>1. RowInv(row, staged[o] \cup events) /\ events \cap Reply = {}
    BY <1>3, <1>4 DEF RowInv, Running, Reply, Step
  <2>2. \A s \in Step : STEP_COMMAND[s] \notin events
    BY <1>4, StepTables DEF Step
  <2>3. "order.shipped" \notin staged[o] \cup events /\ "order.cancelled" \notin staged[o]
    BY <1>1, <1>4, RunningSnapshot
  <2>4. QED
    BY <1>3, <1>4, <2>1, <2>2, <2>3 DEF SoundCommit
<1>6. QED
  BY <1>1, <1>2, <1>5, HandlerKeepsOrderInv

(* A compensating reply: the saga is still compensating, since nobody else may touch it. *)
LEMMA CompensatingReplyKeepsOrderInv ==
    ASSUME TypeOK, NEW o \in Order, OrderInv(o), CountDown(o) \/ FinishCancelled(o),
           UNCHANGED <<status, inventoryVars>>
    PROVE  OrderInv(o)'
<1>1. txn[o].event # "none"
  BY StepTables DEF CountDown, FinishCancelled
<1>2. sagas[o] \in SagaRow /\ sagas[o].state = "COMPENSATING" /\ sagas[o].awaiting = "none"
  BY <1>1, SettledSnapshot DEF CountDown, FinishCancelled, Running, TypeOK, SagaTypeOK,
     OrderInv, TxnInv, RowInv, SagaRow
<1>3. "order.shipped" \notin staged[o] /\ "order.cancelled" \notin staged[o]
  BY <1>2 DEF OrderInv, VerdictInv
<1>4. CASE CountDown(o)
  <2> DEFINE row == [sagas[o] EXCEPT !.comp_pending = @ - 1]
  <2>1. CommitHandle(o, row, {})
    BY <1>4 DEF CountDown
  <2>2. row.state = "COMPENSATING" /\ row.awaiting = "none"
    BY <1>2 DEF SagaRow
  <2>3. SoundCommit(o, row, {})
    BY <1>3, <2>2 DEF SoundCommit, RowInv, Running, Step
  <2>4. QED
    BY <1>1, <2>1, <2>3, HandlerKeepsOrderInv
<1>5. CASE FinishCancelled(o)
  <2> DEFINE row == SetPending(sagas[o], "CANCELLED", sagas[o].comp_pending - 1)
  <2>1. CommitHandle(o, row, {"order.cancelled"})
    BY <1>5 DEF FinishCancelled
  <2>2. row.state = "CANCELLED" /\ row.awaiting = "none"
    BY <1>2 DEF SagaRow, SetPending
  <2>3. \A step \in Step : STEP_COMMAND[step] # "order.cancelled"
    BY StepTables DEF Step
  <2>4. SoundCommit(o, row, {"order.cancelled"})
    BY <1>3, <2>2, <2>3 DEF SoundCommit, RowInv, Running, Step, Reply
  <2>5. QED
    BY <1>1, <2>1, <2>4, HandlerKeepsOrderInv
<1>6. QED
  BY <1>4, <1>5

(* An event that leaves the row as it is: a late reservation, or one with no effect. *)
LEMMA SameRowKeepsOrderInv ==
    ASSUME TypeOK, NEW o \in Order, OrderInv(o), LateReserve(o) \/ IgnoreEvent(o),
           UNCHANGED <<status, inventoryVars>>
    PROVE  OrderInv(o)'
<1>1. txn[o].event # "none"
  BY DEF LateReserve, IgnoreEvent, Ignored, Reply
<1>2. PICK events \in {{}, {"cmd.inventory.release.late"}} : CommitHandle(o, sagas[o], events)
  BY DEF LateReserve, IgnoreEvent
<1>3. \A step \in Step : STEP_COMMAND[step] \notin events
  BY StepTables DEF Step
<1>4. SoundCommit(o, sagas[o], events)
  <2>1. RowInv(sagas[o], staged[o] \cup events)
    BY DEF OrderInv, TxnInv, RowInv
  <2>2. QED
    BY <1>3, <2>1 DEF SoundCommit, OrderInv, VerdictInv, Reply
<1>5. QED
  BY <1>1, <1>2, <1>4, HandlerKeepsOrderInv

LEMMA CommitKeepsOrderInv ==
    ASSUME TypeOK, NEW o \in Order, OrderInv(o), Commit(o)
    PROVE  OrderInv(o)'
BY StartSagaKeepsOrderInv, StepSucceededKeepsOrderInv, FinishCompletedKeepsOrderInv,
   StepFailedKeepsOrderInv, CompensatingReplyKeepsOrderInv, SameRowKeepsOrderInv
   DEF Commit, CommitStep

(* Opening a transaction, losing it, and dead-lettering an event. *)
LEMMA TxnKeepsOrderInv ==
    ASSUME TypeOK, NEW o \in Order, OrderInv(o),
           Begin(o) \/ Abort(o) \/ (\E e \in Event : Lose(o, e))
    PROVE  OrderInv(o)'
<1>1. /\ staged' = staged /\ processed' = processed /\ status' = status
      /\ sagas' = sagas /\ reservations' = reservations
  BY DEF Begin, BeginHandle, Abort, AbortHandle, Lose, DeadLetter, sagaVars, busVars, inventoryVars
<1>2. \/ \E e \in staged[o] : txn'[o] = [event |-> e, row |-> sagas[o]]
      \/ txn'[o] = Closed
      \/ txn'[o] = txn[o]
  BY DEF Begin, BeginHandle, FirstTime, Abort, AbortHandle, Lose, sagaVars, TypeOK, SagaTypeOK
<1>3. RowInv(txn[o].row, staged[o])' /\ RowInv(sagas[o], staged[o])'
  <2>1. RowInv(NoRow, staged[o])
    BY DEF RowInv, NoRow, Running, Step
  <2>2. CASE \E e \in staged[o] : txn'[o] = [event |-> e, row |-> sagas[o]]
    BY <1>1, <2>2 DEF OrderInv, TxnInv
  <2>3. CASE txn'[o] = Closed
    BY <1>1, <2>1, <2>3 DEF Closed, OrderInv, TxnInv
  <2>4. CASE txn'[o] = txn[o]
    BY <1>1, <2>4 DEF OrderInv, TxnInv
  <2>5. QED
    BY <1>2, <2>2, <2>3, <2>4
<1>4. TxnInv(o)'
  <2>1. CASE \E e \in staged[o] : txn'[o] = [event |-> e, row |-> sagas[o]]
    BY <1>1, <1>3, <2>1 DEF TxnInv
  <2>2. CASE txn'[o] = Closed
    BY <1>1, <1>3, <2>2 DEF TxnInv, Closed
  <2>3. CASE txn'[o] = txn[o]
    BY <1>1, <1>3, <2>3 DEF OrderInv, TxnInv
  <2>4. QED
    BY <1>2, <2>1, <2>2, <2>3
<1>5. VerdictInv(o)' /\ CausalInv(o)' /\ ReservedInv(o)'
  BY <1>1 DEF OrderInv, VerdictInv, CausalInv, ReservedInv
<1>6. QED
  BY <1>4, <1>5 DEF OrderInv

(* A scan of the watchdog, for one of the sagas it turns.  An open transaction that read
   the saga goes on with what it read. *)
LEMMA TimeoutKeepsOrderInv ==
    ASSUME TypeOK, NEW o \in Order, OrderInv(o), NEW S \in SUBSET Order, Timeout(S), o \in S
    PROVE  OrderInv(o)'
<1> DEFINE step == sagas[o].awaiting
           comps == Compensations(step, TRUE)
<1>1. /\ step \in Step /\ sagas[o] \in SagaRow
      /\ sagas'[o] = CompensationRow(sagas[o], comps)
      /\ staged'[o] = staged[o] \cup CompensationEvents(comps)
      /\ processed' = processed /\ txn' = txn /\ status' = status /\ reservations' = reservations
  BY DEF Timeout, Watchdog, TimedOut, TypeOK, SagaTypeOK, SagaRow, inventoryVars
<1>2. /\ comps # {}
      /\ CompensationEvents(comps) \subseteq {"cmd.payment.refund", "cmd.inventory.release"}
  BY <1>1, CompensationsType DEF CompensationEvents
<1>3. sagas'[o].state = "COMPENSATING" /\ sagas'[o].awaiting = "none"
  <2>1. Cardinality(comps) \in Nat
    BY <1>1, CompensationsType
  <2> HIDE DEF comps
  <2>2. QED
    BY <1>1, <1>2, <2>1, CompensationRowType
<1>4. sagas[o].state \in Running
  BY <1>1 DEF OrderInv, TxnInv, RowInv, Step
<1>5. TxnInv(o)'
  <2>1. RowInv(sagas[o], staged[o])' /\ RowInv(txn[o].row, staged[o])'
    BY <1>1, <1>3 DEF OrderInv, TxnInv, RowInv, Running, Step
  <2>2. txn[o].event # "none" => txn[o].event \in staged'[o] /\ txn[o].row = sagas[o]
    BY <1>1, <1>4 DEF OrderInv, TxnInv, Running
  <2>3. QED
    BY <1>1, <1>3, <1>4, <2>1, <2>2 DEF TxnInv
<1>6. VerdictInv(o)' /\ ReservedInv(o)'
  BY <1>1, <1>2, <1>3, <1>4 DEF OrderInv, VerdictInv, ReservedInv, Running
<1>7. CausalInv(o)'
  <2>1. \A s \in Step : /\ STEP_COMMAND[s] \notin CompensationEvents(comps)
                         /\ STEP_OK[s] \notin CompensationEvents(comps)
                         /\ STEP_FAIL[s] \notin CompensationEvents(comps)
    BY <1>2, StepTables DEF Step
  <2>2. status[o] # "ABSENT"
    BY <1>1, <1>4 DEF OrderInv, TxnInv, RowInv, CausalInv, Step
  <2>3. QED
    BY <1>1, <2>1, <2>2 DEF OrderInv, CausalInv
<1>8. QED
  BY <1>5, <1>6, <1>7 DEF OrderInv

-----------------------------------------------------------------------------
(* Types, and the orders an action leaves alone. *)

(* Every commit of the orchestrator writes a well-formed row and stages known events. *)
LEMMA CommitShape ==
    ASSUME TypeOK, NEW o \in Order, Commit(o)
    PROVE  /\ txn[o].event \in Event
           /\ \E row \in SagaRow, events \in SUBSET Event : CommitHandle(o, row, events)
<1>1. sagas[o] \in SagaRow /\ txn[o].event \in Event \cup {"none"}
  BY DEF TypeOK, SagaTypeOK
<1>2. CASE StartSaga(o)
  <2>1. SetState(sagas[o], "STARTED", "charge") \in SagaRow
    BY <1>1 DEF SetState, SagaRow, SagaState, Step
  <2>2. {STEP_COMMAND["charge"]} \subseteq Event /\ txn[o].event \in Event
    BY <1>2, StepTables DEF StartSaga, Event, Command, OrderEvent
  <2>3. QED
    BY <1>2, <2>1, <2>2 DEF StartSaga
<1>3. ASSUME NEW step \in Step, StepSucceeded(o, step)
      PROVE  /\ txn[o].event \in Event
             /\ \E row \in SagaRow, events \in SUBSET Event : CommitHandle(o, row, events)
  <2> DEFINE next == NextStep[step]
  <2>1. next \in Step /\ AwaitingState[next] \in SagaState /\ STEP_COMMAND[next] \in Event
    BY <1>3, StepTables DEF StepSucceeded, Step, SagaState, Event, Command
  <2>2. txn[o].event \in Event
    BY <1>3 DEF StepSucceeded, Forward, Event
  <2>3. CommitHandle(o, SetState(sagas[o], AwaitingState[next], next), {STEP_COMMAND[next]})
    BY <1>3 DEF StepSucceeded
  <2> HIDE DEF next
  <2>4. SetState(sagas[o], AwaitingState[next], next) \in SagaRow
    BY <1>1, <2>1 DEF SetState, SagaRow
  <2>5. QED
    BY <2>1, <2>2, <2>3, <2>4
<1>4. ASSUME NEW step \in Step, StepFailed(o, step)
      PROVE  /\ txn[o].event \in Event
             /\ \E row \in SagaRow, events \in SUBSET Event : CommitHandle(o, row, events)
  <2> DEFINE comps == Compensations(step, FALSE)
  <2>1. /\ comps \subseteq {"cmd.payment.refund", "cmd.inventory.release"}
        /\ Cardinality(comps) \in Nat
    BY CompensationsType
  <2>2. CommitHandle(o, CompensationRow(sagas[o], comps), CompensationEvents(comps))
    BY <1>4 DEF StepFailed
  <2>3. txn[o].event \in Event
    BY <1>4 DEF StepFailed, Forward, Event
  <2> HIDE DEF comps
  <2>4. CompensationRow(sagas[o], comps) \in SagaRow
    BY <1>1, <2>1, CompensationRowType
  <2>5. CompensationEvents(comps) \in SUBSET Event
    BY <2>1 DEF CompensationEvents, Event, Command, OrderEvent
  <2>6. QED
    BY <2>2, <2>3, <2>4, <2>5
<1>5. CASE FinishCompleted(o)
  <2>1. SetState(sagas[o], "COMPLETED", "none") \in SagaRow
    BY <1>1 DEF SetState, SagaRow, SagaState
  <2>2. {"order.shipped"} \subseteq Event /\ txn[o].event \in Event
    BY <1>5 DEF FinishCompleted, Forward, Event, OrderEvent
  <2>3. QED
    BY <1>5, <2>1, <2>2 DEF FinishCompleted
<1>6. CASE CountDown(o)
  <2>1. [sagas[o] EXCEPT !.comp_pending = @ - 1] \in SagaRow
    BY <1>1 DEF SagaRow
  <2>2. txn[o].event \in Event
    BY <1>6, StepTables DEF CountDown, Event, Reply
  <2>3. QED
    BY <1>6, <2>1, <2>2 DEF CountDown
<1>7. CASE FinishCancelled(o)
  <2>1. sagas[o].comp_pending - 1 \in Int /\ "CANCELLED" \in SagaState
    BY <1>1 DEF SagaRow, SagaState
  <2>2. SetPending(sagas[o], "CANCELLED", sagas[o].comp_pending - 1) \in SagaRow
    BY <1>1, <2>1, SetPendingType
  <2>3. txn[o].event \in Event /\ {"order.cancelled"} \subseteq Event
    BY <1>7, StepTables DEF FinishCancelled, Event, Reply, OrderEvent
  <2>4. QED
    BY <1>7, <2>2, <2>3 DEF FinishCancelled
<1>8. CASE LateReserve(o) \/ IgnoreEvent(o)
  <2>1. txn[o].event \in Event
    BY <1>8 DEF LateReserve, IgnoreEvent, Ignored, Event, Reply, OrderEvent
  <2>2. {} \subseteq Event /\ {"cmd.inventory.release.late"} \subseteq Event
    BY DEF Event, Command
  <2>3. QED
    BY <1>1, <1>8, <2>1, <2>2 DEF LateReserve, IgnoreEvent
<1>9. QED
  BY <1>2, <1>3, <1>4, <1>5, <1>6, <1>7, <1>8 DEF Commit, CommitStep

LEMMA CommitUnitType ==
    ASSUME BusTypeOK, NEW o \in Order, NEW e \in Event, NEW events \in SUBSET Event,
           CommitUnit(o, e, events)
    PROVE  BusTypeOK'
BY DEF BusTypeOK, CommitUnit

LEMMA InitTypeOK == Init => TypeOK
BY InitialStockAssumption DEF Init, BusInit, OrderInit, SagaInit, PaymentInit, InventoryInit,
   ShippingInit, TypeOK, BusTypeOK, OrderTypeOK, SagaTypeOK, PaymentTypeOK, InventoryTypeOK,
   ShippingTypeOK, OrderStatus, Closed, NoRow, SagaRow, SagaState

(* Every step keeps the types. *)
LEMMA NextTypeOK ==
    ASSUME TypeOK, [Next]_vars
    PROVE  TypeOK'
<1> USE DEF TypeOK
<1>1. ASSUME NEW o \in Order, Place(o) \/ Close(o)
      PROVE  TypeOK'
  <2>1. UNCHANGED <<sagaVars, paymentVars, inventoryVars, shipments>>
    BY <1>1 DEF Place, Close
  <2>2. SagaTypeOK' /\ PaymentTypeOK' /\ InventoryTypeOK' /\ ShippingTypeOK'
    BY <2>1 DEF SagaTypeOK, PaymentTypeOK, InventoryTypeOK, ShippingTypeOK,
                sagaVars, paymentVars, inventoryVars
  <2>3. CASE Place(o)
    BY <2>2, <2>3 DEF Place, PlaceOrder, BusTypeOK, OrderTypeOK, OrderStatus, Event, OrderEvent
  <2>4. CASE Close(o)
    <3>1. PICK e \in {"order.shipped", "order.cancelled"} : CloseOrder(o, e)
      BY <2>4 DEF Close, OrderStep
    <3>2. BusTypeOK'
      BY <3>1, CommitUnitType DEF CloseOrder, Event, OrderEvent
    <3>3. OrderTypeOK'
      BY <3>1 DEF CloseOrder, OrderTypeOK, OrderStatus
    <3>4. QED
      BY <2>2, <3>2, <3>3
  <2>5. QED
    BY <1>1, <2>3, <2>4
<1>2. ASSUME NEW o \in Order, Pay(o)
      PROVE  TypeOK'
  <2>1. OrderTypeOK' /\ SagaTypeOK' /\ InventoryTypeOK' /\ ShippingTypeOK'
    BY <1>2 DEF Pay, OrderTypeOK, SagaTypeOK, InventoryTypeOK, ShippingTypeOK, sagaVars, inventoryVars
  <2>2. BusTypeOK'
    <3>1. PICK e \in Command, replies \in SUBSET Reply : CommitUnit(o, e, replies)
      BY <1>2 DEF Pay, PaymentStep, Charge, Decline, Refund, Command, Reply
    <3>2. QED
      BY <3>1, CommitUnitType DEF Event
  <2>3. PaymentTypeOK'
    <3>1. TotalCents[o] \in Int /\ ledger \in Int /\ payments \subseteq Order
      BY TotalCentsAssumption DEF PaymentTypeOK
    <3>2. QED
      BY <1>2, <3>1 DEF Pay, PaymentStep, Charge, Decline, Refund, PaymentTypeOK, paymentVars
  <2>4. QED
    BY <2>1, <2>2, <2>3
<1>3. ASSUME NEW o \in Order, Stock(o)
      PROVE  TypeOK'
  <2>1. OrderTypeOK' /\ SagaTypeOK' /\ PaymentTypeOK' /\ ShippingTypeOK'
    BY <1>3 DEF Stock, OrderTypeOK, SagaTypeOK, PaymentTypeOK, ShippingTypeOK, sagaVars, paymentVars
  <2>2. BusTypeOK'
    <3>1. PICK e \in Command, replies \in SUBSET Reply : CommitUnit(o, e, replies)
      BY <1>3 DEF Stock, InventoryStep, Reserve, Refuse, Release, Command, Reply
    <3>2. QED
      BY <3>1, CommitUnitType DEF Event
  <2>3. InventoryTypeOK'
    BY <1>3 DEF Stock, InventoryStep, Reserve, Refuse, Release, InventoryTypeOK, inventoryVars
  <2>4. QED
    BY <2>1, <2>2, <2>3
<1>4. ASSUME NEW o \in Order, Ship(o)
      PROVE  TypeOK'
  <2>1. OrderTypeOK' /\ SagaTypeOK' /\ PaymentTypeOK' /\ InventoryTypeOK'
    BY <1>4 DEF Ship, OrderTypeOK, SagaTypeOK, PaymentTypeOK, InventoryTypeOK,
                sagaVars, paymentVars, inventoryVars
  <2>2. BusTypeOK'
    <3>1. PICK e \in Command, replies \in SUBSET Reply : CommitUnit(o, e, replies)
      BY <1>4 DEF Ship, ShippingStep, Dispatch, NoCourier, Command, Reply
    <3>2. QED
      BY <3>1, CommitUnitType DEF Event
  <2>3. ShippingTypeOK'
    BY <1>4 DEF Ship, ShippingStep, Dispatch, NoCourier, ShippingTypeOK
  <2>4. QED
    BY <2>1, <2>2, <2>3
<1>5. ASSUME NEW o \in Order, Begin(o) \/ Commit(o) \/ Abort(o) \/ (\E e \in Event : Lose(o, e))
      PROVE  TypeOK'
  <2>1. UNCHANGED <<status, paymentVars, inventoryVars, shipments>>
    BY <1>5 DEF Begin, Commit, Abort, Lose
  <2>2. OrderTypeOK' /\ PaymentTypeOK' /\ InventoryTypeOK' /\ ShippingTypeOK'
    BY <2>1 DEF OrderTypeOK, PaymentTypeOK, InventoryTypeOK, ShippingTypeOK, paymentVars, inventoryVars
  <2>3. CASE Begin(o)
    <3>1. PICK e \in Event : BeginHandle(o, e)
      BY <2>3 DEF Begin, Event, OrderEvent
    <3>2. BusTypeOK'
      BY <3>1 DEF BeginHandle, busVars, BusTypeOK
    <3>3. SagaTypeOK'
      BY <3>1 DEF BeginHandle, SagaTypeOK
    <3>4. QED
      BY <2>2, <3>2, <3>3
  <2>4. CASE Commit(o)
    <3>1. PICK row \in SagaRow, events \in SUBSET Event : CommitHandle(o, row, events)
      BY <2>4, CommitShape
    <3>2. BusTypeOK'
      BY <2>4, <3>1, CommitShape, CommitUnitType DEF CommitHandle
    <3>3. Closed \in [event : Event \cup {"none"}, row : SagaRow]
      BY DEF Closed, NoRow, SagaRow, SagaState
    <3>4. SagaTypeOK'
      BY <3>1, <3>3 DEF CommitHandle, SagaTypeOK
    <3>5. QED
      BY <2>2, <3>2, <3>4
  <2>5. CASE Abort(o)
    <3>1. Closed \in [event : Event \cup {"none"}, row : SagaRow]
      BY DEF Closed, NoRow, SagaRow, SagaState
    <3>2. BusTypeOK' /\ SagaTypeOK'
      BY <2>5, <3>1 DEF Abort, AbortHandle, busVars, BusTypeOK, SagaTypeOK
    <3>3. QED
      BY <2>2, <3>2
  <2>6. CASE \E e \in Event : Lose(o, e)
    BY <2>2, <2>6 DEF Lose, DeadLetter, sagaVars, BusTypeOK, SagaTypeOK
  <2>7. QED
    BY <1>5, <2>3, <2>4, <2>5, <2>6
<1>6. ASSUME NEW S \in SUBSET Order, Timeout(S)
      PROVE  TypeOK'
  <2>1. OrderTypeOK' /\ PaymentTypeOK' /\ InventoryTypeOK' /\ ShippingTypeOK'
    BY <1>6 DEF Timeout, OrderTypeOK, PaymentTypeOK, InventoryTypeOK, ShippingTypeOK,
                paymentVars, inventoryVars
  <2>2. ASSUME NEW o \in S
        PROVE  /\ CompensationRow(sagas[o], TimedOut(o)) \in SagaRow
               /\ CompensationEvents(TimedOut(o)) \subseteq Event
    <3>1. sagas[o] \in SagaRow /\ sagas[o].awaiting \in Step
      BY <1>6, <2>2 DEF Timeout, Watchdog, SagaTypeOK, SagaRow
    <3>2. /\ TimedOut(o) \subseteq {"cmd.payment.refund", "cmd.inventory.release"}
          /\ Cardinality(TimedOut(o)) \in Nat
      BY <3>1, CompensationsType DEF TimedOut
    <3>3. QED
      BY <3>1, <3>2, CompensationRowType DEF CompensationEvents, Event, Command, OrderEvent
  <2>3. BusTypeOK' /\ SagaTypeOK'
    BY <1>6, <2>2 DEF Timeout, Watchdog, BusTypeOK, SagaTypeOK
  <2>4. QED
    BY <2>1, <2>3
<1>7. CASE UNCHANGED vars
  BY <1>7 DEF vars, busVars, sagaVars, paymentVars, inventoryVars, BusTypeOK, OrderTypeOK,
              SagaTypeOK, PaymentTypeOK, InventoryTypeOK, ShippingTypeOK
<1>8. QED
  BY <1>1, <1>2, <1>3, <1>4, <1>5, <1>6, <1>7 DEF Next

(* Type correctness of the composed system. *)
THEOREM TypeCorrect == Spec => []TypeOK
<1>1. Init => TypeOK
  BY InitTypeOK
<1>2. TypeOK /\ [Next]_vars => TypeOK'
  BY NextTypeOK
<1>3. QED
  BY <1>1, <1>2, PTL DEF Spec

-----------------------------------------------------------------------------
(* The inductive invariant. *)

(* What an action of order p does to another order: nothing. *)
LEMMA OthersUntouched ==
    ASSUME TypeOK, NEW o \in Order, NEW p \in Order, p # o,
           \/ Place(p) \/ Close(p) \/ Pay(p) \/ Stock(p) \/ Ship(p)
           \/ Begin(p) \/ Commit(p) \/ Abort(p) \/ (\E e \in Event : Lose(p, e))
    PROVE  /\ sagas'[o] = sagas[o] /\ txn'[o] = txn[o] /\ status'[o] = status[o]
           /\ staged'[o] = staged[o] /\ processed'[o] = processed[o]
           /\ o \in reservations' <=> o \in reservations
<1> USE DEF TypeOK, BusTypeOK, OrderTypeOK, SagaTypeOK, InventoryTypeOK, CommitUnit
<1>1. sagas'[o] = sagas[o] /\ txn'[o] = txn[o]
  <2>1. CASE Commit(p)
    BY <2>1, CommitShape DEF CommitHandle
  <2>2. CASE ~Commit(p)
    BY <2>2 DEF Place, Close, Pay, Stock, Ship, Begin, BeginHandle, Abort, AbortHandle, Lose, sagaVars
  <2>3. QED
    BY <2>1, <2>2
<1>2. staged'[o] = staged[o] /\ processed'[o] = processed[o]
  <2>1. CASE Commit(p)
    BY <2>1, CommitShape DEF CommitHandle
  <2>2. CASE Place(p) \/ Close(p)
    BY <2>2 DEF Place, PlaceOrder, Close, OrderStep, CloseOrder
  <2>3. CASE Pay(p)
    BY <2>3 DEF Pay, PaymentStep, Charge, Decline, Refund
  <2>4. CASE Stock(p)
    BY <2>4 DEF Stock, InventoryStep, Reserve, Refuse, Release
  <2>5. CASE Ship(p)
    BY <2>5 DEF Ship, ShippingStep, Dispatch, NoCourier
  <2>6. CASE Begin(p) \/ Abort(p) \/ (\E e \in Event : Lose(p, e))
    BY <2>6 DEF Begin, BeginHandle, Abort, AbortHandle, Lose, DeadLetter, busVars
  <2>7. QED
    BY <2>1, <2>2, <2>3, <2>4, <2>5, <2>6
<1>3. status'[o] = status[o]
  BY DEF Place, PlaceOrder, Close, OrderStep, CloseOrder, Pay, Stock, Ship, Begin, Commit, Abort, Lose
<1>4. o \in reservations' <=> o \in reservations
  BY DEF Place, Close, Pay, Stock, InventoryStep, Reserve, Refuse, Release, Ship, Begin, Commit,
         Abort, Lose, inventoryVars
<1>5. QED
  BY <1>1, <1>2, <1>3, <1>4

LEMMA NextOrderInv ==
    ASSUME TypeOK, NEW o \in Order, OrderInv(o), [Next]_vars
    PROVE  OrderInv(o)'
<1>1. ASSUME NEW p \in Order,
             \/ Place(p) \/ Close(p) \/ Pay(p) \/ Stock(p) \/ Ship(p)
             \/ Begin(p) \/ Commit(p) \/ Abort(p) \/ (\E e \in Event : Lose(p, e))
      PROVE  OrderInv(o)'
  <2>1. CASE p = o
    BY <1>1, <2>1, PlaceKeepsOrderInv, CloseKeepsOrderInv, PayKeepsOrderInv, StockKeepsOrderInv,
       ShipKeepsOrderInv, CommitKeepsOrderInv, TxnKeepsOrderInv
  <2>2. CASE p # o
    BY <1>1, <2>2, OthersUntouched, OtherOrder
  <2>3. QED
    BY <2>1, <2>2
<1>2. ASSUME NEW S \in SUBSET Order, Timeout(S)
      PROVE  OrderInv(o)'
  <2>1. CASE o \in S
    BY <1>2, <2>1, TimeoutKeepsOrderInv
  <2>2. CASE o \notin S
    BY <1>2, <2>2, OtherOrder DEF Timeout, Watchdog, inventoryVars
  <2>3. QED
    BY <2>1, <2>2
<1>3. CASE UNCHANGED vars
  BY <1>3, OtherOrder DEF vars, busVars, sagaVars, inventoryVars
<1>4. QED
  BY <1>1, <1>2, <1>3 DEF Next

(* Units move between the shelf and the reservations one at a time. *)
LEMMA NextStockInv ==
    ASSUME TypeOK, StockInv, \A o \in Order : OrderInv(o), [Next]_vars
    PROVE  StockInv'
<1> USE DEF TypeOK, InventoryTypeOK
<1>1. ASSUME NEW o \in Order, NEW reply \in {{}, {"reply.inventory.reserved"}}, Reserve(o, reply)
      PROVE  StockInv'
  <2>1. o \notin reservations
    BY <1>1 DEF Reserve, FirstTime, OrderInv, ReservedInv
  <2>2. /\ IsFiniteSet(reservations \cup {o})
        /\ Cardinality(reservations \cup {o}) = Cardinality(reservations) + 1
        /\ Cardinality(reservations) \in Nat
    BY <2>1, FS_AddElement, FS_CardinalityType DEF StockInv
  <2>3. QED
    BY <1>1, <2>2, InitialStockAssumption DEF Reserve, StockInv, StockConserved
<1>2. ASSUME NEW o \in Order, NEW e, Release(o, e)
      PROVE  StockInv'
  <2>1. /\ IsFiniteSet(reservations \ {o})
        /\ Cardinality(reservations) \in Nat
        /\ Cardinality(reservations \ {o}) =
                IF o \in reservations THEN Cardinality(reservations) - 1 ELSE Cardinality(reservations)
    BY FS_RemoveElement, FS_CardinalityType DEF StockInv
  <2>2. QED
    BY <1>2, <2>1, InitialStockAssumption DEF Release, StockInv, StockConserved
<1>3. ASSUME UNCHANGED inventoryVars
      PROVE  StockInv'
  BY <1>3 DEF inventoryVars, StockInv, StockConserved
<1>4. \/ UNCHANGED inventoryVars
      \/ \E o \in Order, reply \in {{}, {"reply.inventory.reserved"}} : Reserve(o, reply)
      \/ \E o \in Order, e \in {"cmd.inventory.release", "cmd.inventory.release.late"} : Release(o, e)
  BY DEF Next, vars, Place, Close, Pay, Stock, InventoryStep, Refuse, Ship, Begin, Commit, Abort,
         Lose, Timeout
<1>5. QED
  BY <1>1, <1>2, <1>3, <1>4

LEMMA InitIInv == Init => IInv
<1> SUFFICES ASSUME Init PROVE IInv
  OBVIOUS
<1>1. TypeOK
  BY InitTypeOK
<1>2. StockInv
  BY FS_EmptySet, InitialStockAssumption DEF Init, InventoryInit, StockInv, StockConserved
<1>3. ASSUME NEW o \in Order
      PROVE  OrderInv(o)
  <2> USE DEF Init, BusInit, OrderInit, SagaInit, InventoryInit
  <2>1. RowInv(NoRow, {})
    BY DEF RowInv, NoRow, Running, Step
  <2>2. TxnInv(o)
    BY <2>1 DEF TxnInv, Closed
  <2>3. VerdictInv(o) /\ ReservedInv(o)
    BY DEF VerdictInv, NoRow, ReservedInv
  <2>4. CausalInv(o)
    BY DEF CausalInv
  <2>5. QED
    BY <2>2, <2>3, <2>4 DEF OrderInv
<1>4. QED
  BY <1>1, <1>2, <1>3 DEF IInv

(* The invariant is inductive. *)
THEOREM Inductive == Spec => []IInv
<1>1. IInv /\ [Next]_vars => IInv'
  BY NextTypeOK, NextStockInv, NextOrderInv DEF IInv
<1>2. QED
  BY <1>1, InitIInv, PTL DEF Spec

(* An order gets one verdict, and the client reads it. *)
THEOREM VerdictIsUnique == Spec => []OneVerdict
<1>1. IInv => OneVerdict
  BY DEF IInv, OrderInv, VerdictInv, CausalInv, OneVerdict
<1>2. QED
  BY <1>1, Inductive, PTL

(* No step is commanded before the saga has seen the earlier ones succeed. *)
THEOREM StepsAreOrdered == Spec => []StepsInOrder
<1>1. IInv => StepsInOrder
  BY DEF IInv, OrderInv, CausalInv, StepsInOrder
<1>2. QED
  BY <1>1, Inductive, PTL

(* No unit of stock is made or lost. *)
THEOREM StockIsConserved == Spec => []StockConserved
<1>1. IInv => StockConserved
  BY DEF IInv, StockInv
<1>2. QED
  BY <1>1, Inductive, PTL

-----------------------------------------------------------------------------
(* A saga that ended stays ended, whatever its handler had read. *)
LEMMA CommitKeepsTerminal ==
    ASSUME TypeOK, NEW o \in Order, OrderInv(o), Commit(o),
           sagas[o].state \in {"COMPLETED", "CANCELLED"}
    PROVE  sagas'[o].state = sagas[o].state
<1>1. ~(\E step \in Step : Forward(o, step))
  BY RunningSnapshot
<1>2. ~StartSaga(o)
  BY SettledSnapshot DEF StartSaga, Running
<1>3. ~CountDown(o) /\ ~FinishCancelled(o)
  BY SettledSnapshot, StepTables DEF CountDown, FinishCancelled, Running
<1>4. LateReserve(o) \/ IgnoreEvent(o)
  BY <1>1, <1>2, <1>3 DEF Commit, CommitStep, StepSucceeded, StepFailed, FinishCompleted, Step
<1>5. QED
  BY <1>4 DEF LateReserve, IgnoreEvent, CommitHandle, TypeOK, SagaTypeOK

(* No step changes the state of a saga that is COMPLETED or CANCELLED. *)
THEOREM TerminalStaysFinal == Spec => TerminalIsFinal
<1>1. ASSUME IInv, [Next]_vars, NEW o \in Order, sagas[o].state \in {"COMPLETED", "CANCELLED"}
      PROVE  sagas'[o].state = sagas[o].state
  <2> USE DEF IInv
  <2>1. ASSUME NEW p \in Order,
               \/ Place(p) \/ Close(p) \/ Pay(p) \/ Stock(p) \/ Ship(p)
               \/ Begin(p) \/ Commit(p) \/ Abort(p) \/ (\E e \in Event : Lose(p, e))
        PROVE  sagas'[o].state = sagas[o].state
    <3>1. CASE p # o
      BY <1>1, <2>1, <3>1, OthersUntouched
    <3>2. CASE p = o /\ Commit(p)
      BY <1>1, <3>2, CommitKeepsTerminal
    <3>3. CASE p = o /\ ~Commit(p)
      BY <2>1, <3>3 DEF Place, Close, Pay, Stock, Ship, Begin, BeginHandle, Abort, AbortHandle,
                        Lose, sagaVars
    <3>4. QED
      BY <3>1, <3>2, <3>3
  <2>2. ASSUME NEW S \in SUBSET Order, Timeout(S)
        PROVE  sagas'[o].state = sagas[o].state
    <3>1. sagas[o].awaiting = "none"
      BY <1>1 DEF OrderInv, TxnInv, RowInv, Running
    <3>2. o \notin S
      BY <2>2, <3>1 DEF Timeout, Watchdog
    <3>3. sagas'[o] = sagas[o]
      BY <2>2, <3>2 DEF Timeout, Watchdog
    <3>4. QED
      BY <3>3
  <2>3. CASE UNCHANGED vars
    BY <2>3 DEF vars, sagaVars
  <2>4. QED
    BY <1>1, <2>1, <2>2, <2>3 DEF Next
<1>2. IInv /\ [Next]_vars =>
        [\A o \in Order : sagas[o].state \in {"COMPLETED", "CANCELLED"} =>
            sagas'[o].state = sagas[o].state]_vars
  BY <1>1
<1>3. QED
  BY <1>2, Inductive, PTL DEF Spec, TerminalIsFinal
=============================================================================
