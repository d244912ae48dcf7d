-------------------------- MODULE SettlementProofs --------------------------
(***************************************************************************)
(* What rests when orders are closed, for every set of orders and every    *)
(* fault: the ledger agrees with the payments, compensations undo what was *)
(* done, the dashboard calls it consistent, and no order was forgotten.    *)
(***************************************************************************)
EXTENDS FootprintProofs

-----------------------------------------------------------------------------
(* Totals. *)

LEMMA CentsOfUnion ==
    ASSUME NEW S, NEW T
    PROVE  Cents(S \cup T) = Cents(S) \cup Cents(T)
BY DEF Cents

(* A cent belongs to one order. *)
LEMMA CentsApart ==
    ASSUME NEW S, NEW T, S \cap T = {}
    PROVE  Cents(S) \cap Cents(T) = {}
<1>1. ASSUME NEW R, NEW cent \in Cents(R)
      PROVE  cent[1] \in R
  BY <1>1 DEF Cents
<1>2. QED
  BY <1>1

LEMMA TotalOfNone == Cents({}) = {} /\ Total({}) = 0
BY FS_EmptySet DEF Cents, Total

LEMMA CentsOfOne ==
    ASSUME NEW o \in Order
    PROVE  /\ IsFiniteSet({o} \X (1 .. TotalCents[o]))
           /\ Cardinality({o} \X (1 .. TotalCents[o])) = TotalCents[o]
<1> DEFINE n == TotalCents[o]
           cents == 1 .. n
<1>1. n \in Nat
  BY TotalCentsAssumption
<1> HIDE DEF n
<1>2. IsFiniteSet({o}) /\ Cardinality({o}) = 1
  BY FS_Singleton
<1>3. 1 \in Int /\ n \in Int
  BY <1>1
<1>4. IsFiniteSet(cents) /\ Cardinality(cents) = IF 1 > n THEN 0 ELSE n - 1 + 1
  BY <1>3, FS_Interval
<1>5. IsFiniteSet(cents) /\ Cardinality(cents) = n
  BY <1>1, <1>4
<1> HIDE DEF cents
<1>6. IsFiniteSet({o} \X cents) /\ Cardinality({o} \X cents) = Cardinality({o}) * Cardinality(cents)
  BY <1>2, <1>5, FS_Product
<1>7. Cardinality({o} \X cents) = n
  BY <1>1, <1>2, <1>5, <1>6
<1>8. QED
  BY <1>6, <1>7 DEF n, cents

LEMMA TotalOfOne ==
    ASSUME NEW o \in Order
    PROVE  IsFiniteSet(Cents({o})) /\ Total({o}) = TotalCents[o]
<1>1. Cents({o}) = {o} \X (1 .. TotalCents[o])
  BY DEF Cents
<1>2. QED
  BY <1>1, CentsOfOne DEF Total

(* The orders are mapped onto their shares of the cents. *)
LEMMA CentsFinite ==
    ASSUME NEW S \in SUBSET Order, IsFiniteSet(S)
    PROVE  IsFiniteSet(Cents(S)) /\ Total(S) \in Nat
<1> DEFINE share == [o \in S |-> {o} \X (1 .. TotalCents[o])]
           shares == {{o} \X (1 .. TotalCents[o]) : o \in S}
<1>1. share \in Surjection(S, shares)
  BY DEF Surjection
<1>2. IsFiniteSet(shares)
  BY <1>1, FS_Surjection
<1>3. \A part \in shares : IsFiniteSet(part)
  BY CentsOfOne
<1>4. Cents(S) = UNION shares
  BY DEF Cents
<1>5. IsFiniteSet(Cents(S))
  BY <1>2, <1>3, <1>4, FS_UNION
<1>6. QED
  BY <1>5, FS_CardinalityType DEF Total

LEMMA TotalOfUnion ==
    ASSUME NEW S \in SUBSET Order, IsFiniteSet(S), NEW T \in SUBSET Order, IsFiniteSet(T),
           S \cap T = {}
    PROVE  Total(S \cup T) = Total(S) + Total(T)
<1>1. IsFiniteSet(Cents(S)) /\ IsFiniteSet(Cents(T)) /\ Total(S) \in Nat /\ Total(T) \in Nat
  BY CentsFinite
<1>2. Cardinality(Cents(S) \cap Cents(T)) = 0
  BY CentsApart, FS_EmptySet
<1>3. Cardinality(Cents(S) \cup Cents(T)) = Cardinality(Cents(S)) + Cardinality(Cents(T)) - 0
  BY <1>1, <1>2, FS_Union
<1>4. /\ Total(S) = Cardinality(Cents(S)) /\ Total(T) = Cardinality(Cents(T))
      /\ Total(S \cup T) = Cardinality(Cents(S) \cup Cents(T))
  BY CentsOfUnion DEF Total
<1>5. QED
  BY <1>1, <1>3, <1>4

(* One more order adds its total. *)
LEMMA TotalOfOneMore ==
    ASSUME NEW S \in SUBSET Order, IsFiniteSet(S), NEW o \in Order, o \notin S
    PROVE  IsFiniteSet(S \cup {o}) /\ Total(S \cup {o}) = Total(S) + TotalCents[o]
<1>1. IsFiniteSet({o}) /\ {o} \in SUBSET Order /\ S \cap {o} = {}
  BY FS_Singleton
<1>2. Total(S \cup {o}) = Total(S) + Total({o})
  BY <1>1, TotalOfUnion
<1>3. IsFiniteSet(S \cup {o})
  BY FS_AddElement
<1>4. QED
  BY <1>2, <1>3, TotalOfOne

(* A set of orders is split in two. *)
LEMMA TotalOfParts ==
    ASSUME NEW S \in SUBSET Order, IsFiniteSet(S), NEW T
    PROVE  /\ IsFiniteSet(S \ T) /\ IsFiniteSet(S \cap T)
           /\ Total(S) = Total(S \ T) + Total(S \cap T)
<1>1. /\ S \ T \in SUBSET Order /\ S \cap T \in SUBSET Order
      /\ (S \ T) \cap (S \cap T) = {} /\ (S \ T) \cup (S \cap T) = S
  OBVIOUS
<1>2. IsFiniteSet(S \ T) /\ IsFiniteSet(S \cap T)
  BY FS_Difference, FS_Intersection
<1>3. QED
  BY <1>1, <1>2, TotalOfUnion

-----------------------------------------------------------------------------
(* What a commit of the orchestrator does to its order. *)
LEMMA CommitFrame ==
    ASSUME TypeOK, NEW o \in Order, NEW row, NEW events, CommitHandle(o, row, events)
    PROVE  /\ sagas'[o] = row
           /\ staged'[o] = staged[o] \cup events
           /\ processed'[o] = processed[o] \cup {txn[o].event}
BY DEF CommitHandle, CommitUnit, TypeOK, BusTypeOK, SagaTypeOK

(* It stages no reply, ends up with a saga if the order was placed, and with something to
   wait for if the saga is being undone. *)
LEMMA CommitOutcome ==
    ASSUME TypeOK, NEW o \in Order, OrderInv(o), ProgressInv(o), Commit(o)
    PROVE  /\ staged[o] \subseteq staged'[o] /\ Reply \cap staged'[o] \subseteq staged[o]
           /\ processed'[o] = processed[o] \cup {txn[o].event}
           /\ sagas'[o].state = "NONE" => sagas[o].state = "NONE" /\ txn[o].event # "order.placed"
           /\ sagas'[o].state = "COMPENSATING" => sagas'[o].comp_pending >= 1
<1>1. sagas[o] \in SagaRow
  BY DEF TypeOK, SagaTypeOK
<1>2. ASSUME NEW row, NEW events, CommitHandle(o, row, events), events \cap Reply = {},
             row.state = "NONE" => sagas[o].state = "NONE" /\ txn[o].event # "order.placed",
             row.state = "COMPENSATING" => row.comp_pending >= 1
      PROVE  /\ staged[o] \subseteq staged'[o] /\ Reply \cap staged'[o] \subseteq staged[o]
             /\ processed'[o] = processed[o] \cup {txn[o].event}
             /\ sagas'[o].state = "NONE" => sagas[o].state = "NONE" /\ txn[o].event # "order.placed"
             /\ sagas'[o].state = "COMPENSATING" => sagas'[o].comp_pending >= 1
  <2>1. /\ sagas'[o] = row /\ staged'[o] = staged[o] \cup events
        /\ processed'[o] = processed[o] \cup {txn[o].event}
    BY <1>2, CommitFrame
  <2>2. QED
    BY <1>2, <2>1
<1>3. CASE StartSaga(o)
  <2> DEFINE row == SetState(sagas[o], "STARTED", "charge")
             events == {STEP_COMMAND["charge"]}
  <2>1. CommitHandle(o, row, events) /\ events \cap Reply = {}
    BY <1>3, StepTables DEF StartSaga, Reply
  <2>2. row.state = "STARTED"
    BY <1>1 DEF SetState, SagaRow
  <2> HIDE DEF row, events
  <2>3. QED
    BY <1>2, <2>1, <2>2
<1>4. ASSUME NEW step \in Step, StepSucceeded(o, step)
      PROVE  \E row, events :
                /\ CommitHandle(o, row, events) /\ events \cap Reply = {}
                /\ row.state \in Running
  <2> DEFINE next == NextStep[step]
             row == SetState(sagas[o], AwaitingState[next], next)
             events == {STEP_COMMAND[next]}
  <2>1. CommitHandle(o, row, events) /\ next \in {"reserve", "dispatch"}
    BY <1>4, StepTables DEF StepSucceeded, Step
  <2>2. events \cap Reply = {} /\ AwaitingState[next] \in Running
    BY <2>1, StepTables DEF Reply, Running
  <2> HIDE DEF next
  <2>3. row.state = AwaitingState[next]
    BY <1>1 DEF SetState, SagaRow
  <2> HIDE DEF row, events
  <2>4. QED
    BY <2>1, <2>2, <2>3
<1>5. ASSUME NEW step \in Step, StepFailed(o, step)
      PROVE  \E row, events :
                /\ CommitHandle(o, row, events) /\ events \cap Reply = {}
                /\ row.state \in {"CANCELLED", "COMPENSATING"}
                /\ row.state = "COMPENSATING" => row.comp_pending >= 1
  <2> DEFINE comps == Compensations(step, FALSE)
             row == CompensationRow(sagas[o], comps)
             events == CompensationEvents(comps)
  <2>1. CommitHandle(o, row, events)
    BY <1>5 DEF StepFailed
  <2>2. comps = NoComps \/ comps = Refunding \/ comps = Undoing
    BY CompensationsOf DEF Step, NoComps, Refunding, Undoing
  <2> HIDE DEF comps
  <2>3. /\ row.state = "CANCELLED" \/ (row.state = "COMPENSATING" /\ row.comp_pending \in {1, 2})
        /\ events = {"order.cancelled"} \/ events = Refunding \/ events = Undoing
    BY <1>1, <2>2, CompensationWrites
  <2> HIDE DEF row, events
  <2>4. events \cap Reply = {}
    BY <2>3 DEF Refunding, Undoing, Reply
  <2>5. QED
    BY <2>1, <2>3, <2>4
<1>6. CASE FinishCompleted(o)
  <2> DEFINE row == SetState(sagas[o], "COMPLETED", "none")
             events == {"order.shipped"}
  <2>1. CommitHandle(o, row, events) /\ events \cap Reply = {}
    BY <1>6 DEF FinishCompleted, Reply
  <2>2. row.state = "COMPLETED"
    BY <1>1 DEF SetState, SagaRow
  <2> HIDE DEF row, events
  <2>3. QED
    BY <1>2, <2>1, <2>2
<1>7. CASE CountDown(o)
  <2> DEFINE row == [sagas[o] EXCEPT !.comp_pending = @ - 1]
  <2>1. CommitHandle(o, row, {}) /\ sagas[o].comp_pending > 1 /\ sagas[o].comp_pending \in Int
    BY <1>1, <1>7 DEF CountDown, SagaRow
  <2>2. row.comp_pending >= 1 /\ row.state = sagas[o].state
    BY <1>1, <2>1 DEF SagaRow
  <2>3. txn[o].event # "order.placed"
    BY <1>7, StepTables DEF CountDown
  <2> HIDE DEF row
  <2>4. QED
    BY <1>2, <2>1, <2>2, <2>3
<1>8. CASE FinishCancelled(o)
  <2> DEFINE row == SetPending(sagas[o], "CANCELLED", sagas[o].comp_pending - 1)
             events == {"order.cancelled"}
  <2>1. CommitHandle(o, row, events) /\ events \cap Reply = {}
    BY <1>8 DEF FinishCancelled, Reply
  <2>2. row.state = "CANCELLED"
    BY <1>1 DEF SetPending, SagaRow
  <2> HIDE DEF row, events
  <2>3. QED
    BY <1>2, <2>1, <2>2
<1>9. CASE LateReserve(o) \/ IgnoreEvent(o)
  <2>1. PICK events \in {{}, {"cmd.inventory.release.late"}} : CommitHandle(o, sagas[o], events)
    BY <1>9 DEF LateReserve, IgnoreEvent
  <2>2. events \cap Reply = {}
    BY DEF Reply
  <2>3. ASSUME txn[o].event = "order.placed" PROVE sagas[o].state # "NONE"
    <3>1. txn[o].row.state # "NONE"
      BY <1>9, <2>3 DEF LateReserve, IgnoreEvent, Ignored, Reply
    <3>2. QED
      BY <2>3, <3>1 DEF OrderInv, TxnInv
  <2>4. sagas[o].state = "COMPENSATING" => sagas[o].comp_pending >= 1
    BY DEF ProgressInv
  <2>5. QED
    BY <1>2, <2>1, <2>2, <2>3, <2>4
<1>10. QED
  BY <1>2, <1>3, <1>4, <1>5, <1>6, <1>7, <1>8, <1>9 DEF Commit, CommitStep, Running

-----------------------------------------------------------------------------
(* What is kept of the order at hand. *)

(* Services reply, and nothing else changes: what they handled is a command. *)
LEMMA ServiceKeepsProgress ==
    ASSUME NEW o \in Order, ProgressInv(o),
           NEW e \in Command, NEW replies,
           staged'[o] = staged[o] \cup replies, processed'[o] = processed[o] \cup {e},
           sagas'[o] = sagas[o], status'[o] = status[o]
    PROVE  ProgressInv(o)'
BY DEF ProgressInv, Command

(* Neither a row nor a compensation is new. *)
LEMMA NothingToAnswer ==
    ASSUME NEW o \in Order, AnsweredInv(o),
           staged[o] \subseteq staged'[o], o \in payments' => o \in payments,
           (Releases \cup {"cmd.payment.refund"}) \cap processed'[o] \subseteq processed[o]
    PROVE  AnsweredInv(o)'
BY DEF AnsweredInv, Releases

LEMMA PlaceKeepsSettlement ==
    ASSUME TypeOK, NEW o \in Order, OrderInv(o), AnsweredInv(o), ProgressInv(o), Place(o)
    PROVE  AnsweredInv(o)' /\ ProgressInv(o)'
<1>1. /\ staged'[o] = staged[o] \cup {"order.placed"} /\ processed' = processed
      /\ sagas' = sagas /\ payments' = payments /\ staged[o] = {} /\ processed[o] \subseteq staged[o]
  BY DEF Place, PlaceOrder, TypeOK, BusTypeOK, sagaVars, paymentVars, OrderInv, CausalInv
<1>2. ProgressInv(o)'
  BY <1>1 DEF ProgressInv
<1>3. QED
  BY <1>1, <1>2, NothingToAnswer

LEMMA CloseKeepsSettlement ==
    ASSUME TypeOK, NEW o \in Order, OrderInv(o), AnsweredInv(o), ProgressInv(o), Close(o)
    PROVE  AnsweredInv(o)' /\ ProgressInv(o)'
<1>1. PICK e \in {"order.shipped", "order.cancelled"} : CloseOrder(o, e)
  BY DEF Close, OrderStep
<1>2. /\ staged'[o] = staged[o] /\ processed'[o] = processed[o] \cup {e} /\ e \in staged[o]
      /\ status'[o] \in {"SHIPPED", "CANCELLED"}
      /\ sagas' = sagas /\ payments' = payments
  BY <1>1 DEF Close, CloseOrder, CommitUnit, FirstTime, TypeOK, BusTypeOK, OrderTypeOK, sagaVars,
              paymentVars
<1>3. status[o] # "ABSENT"
  BY <1>2 DEF OrderInv, CausalInv
<1>4. ProgressInv(o)'
  BY <1>2, <1>3 DEF ProgressInv
<1>5. (Releases \cup {"cmd.payment.refund"}) \cap processed'[o] \subseteq processed[o]
  BY <1>2 DEF Releases
<1>6. QED
  BY <1>2, <1>4, <1>5, NothingToAnswer

LEMMA PayKeepsSettlement ==
    ASSUME TypeOK, NEW o \in Order, AnsweredInv(o), ProgressInv(o), Pay(o)
    PROVE  AnsweredInv(o)' /\ ProgressInv(o)'
<1>1. PICK e \in {"cmd.payment.charge", "cmd.payment.refund"}, replies \in SUBSET Reply :
        /\ CommitUnit(o, e, replies)
        /\ \/ e = "cmd.payment.charge" /\ "reply.payment.charged" \in replies
           \/ e = "cmd.payment.charge" /\ payments' = payments
           \/ /\ e = "cmd.payment.refund" /\ "reply.payment.refunded" \in replies
              /\ payments' = payments \ {o}
  BY DEF Pay, PaymentStep, Charge, Decline, Refund, paymentVars, Reply
<1>2. /\ UNCHANGED <<status, sagaVars>> /\ e \in Command
  BY <1>1 DEF Pay, Command
<1>3. /\ staged'[o] = staged[o] \cup replies /\ processed'[o] = processed[o] \cup {e}
      /\ sagas'[o] = sagas[o] /\ status'[o] = status[o]
  BY <1>1, <1>2, ServiceFrame
<1>4. ProgressInv(o)'
  BY <1>2, <1>3, ServiceKeepsProgress
<1>5. AnsweredInv(o)'
  BY <1>1, <1>3 DEF AnsweredInv, Releases
<1>6. QED
  BY <1>4, <1>5

LEMMA StockKeepsSettlement ==
    ASSUME TypeOK, NEW o \in Order, AnsweredInv(o), ProgressInv(o), Stock(o)
    PROVE  AnsweredInv(o)' /\ ProgressInv(o)'
<1>1. PICK e \in {"cmd.inventory.reserve", "cmd.inventory.release", "cmd.inventory.release.late"},
          replies \in SUBSET Reply :
        /\ CommitUnit(o, e, replies)
        /\ e # "cmd.inventory.reserve" => "reply.inventory.released" \in replies
  BY DEF Stock, InventoryStep, Reserve, Refuse, Release, Reply
<1>2. /\ UNCHANGED <<status, sagaVars>> /\ e \in Command /\ payments' = payments
  BY <1>1 DEF Stock, Command, paymentVars
<1>3. /\ staged'[o] = staged[o] \cup replies /\ processed'[o] = processed[o] \cup {e}
      /\ sagas'[o] = sagas[o] /\ status'[o] = status[o]
  BY <1>1, <1>2, ServiceFrame
<1>4. ProgressInv(o)'
  BY <1>2, <1>3, ServiceKeepsProgress
<1>5. AnsweredInv(o)'
  BY <1>1, <1>2, <1>3 DEF AnsweredInv, Releases
<1>6. QED
  BY <1>4, <1>5

LEMMA ShipKeepsSettlement ==
    ASSUME TypeOK, NEW o \in Order, AnsweredInv(o), ProgressInv(o), Ship(o)
    PROVE  AnsweredInv(o)' /\ ProgressInv(o)'
<1> DEFINE e == "cmd.shipping.dispatch"
<1>1. PICK replies \in SUBSET Reply : CommitUnit(o, e, replies)
  BY DEF Ship, ShippingStep, Dispatch, NoCourier, Reply
<1>2. /\ UNCHANGED <<status, sagaVars>> /\ e \in Command /\ payments' = payments
      /\ e \notin Releases \cup {"cmd.payment.refund"}
  BY DEF Ship, Command, paymentVars, Releases
<1> HIDE DEF e
<1>3. /\ staged'[o] = staged[o] \cup replies /\ processed'[o] = processed[o] \cup {e}
      /\ sagas'[o] = sagas[o] /\ status'[o] = status[o]
  BY <1>1, <1>2, ServiceFrame
<1>4. ProgressInv(o)'
  BY <1>2, <1>3, ServiceKeepsProgress
<1>5. AnsweredInv(o)'
  BY <1>2, <1>3, NothingToAnswer
<1>6. QED
  BY <1>4, <1>5

LEMMA CommitKeepsSettlement ==
    ASSUME TypeOK, NEW o \in Order, OrderInv(o), OpenInv(o), AnsweredInv(o), ProgressInv(o), Commit(o)
    PROVE  AnsweredInv(o)' /\ ProgressInv(o)'
<1>1. /\ staged[o] \subseteq staged'[o]
      /\ processed'[o] = processed[o] \cup {txn[o].event}
      /\ sagas'[o].state = "NONE" => sagas[o].state = "NONE" /\ txn[o].event # "order.placed"
      /\ sagas'[o].state = "COMPENSATING" => sagas'[o].comp_pending >= 1
  BY CommitOutcome
<1>2. status' = status /\ payments' = payments
  BY DEF Commit, paymentVars
<1>3. txn[o].event \in Reply \cup {"order.placed"}
  BY CommitShape DEF OpenInv, Event, Command, Reply, OrderEvent
<1>4. ProgressInv(o)'
  BY <1>1, <1>2, <1>3 DEF ProgressInv, Reply
<1>5. (Releases \cup {"cmd.payment.refund"}) \cap processed'[o] \subseteq processed[o]
  BY <1>1, <1>3 DEF Releases, Reply
<1>6. QED
  BY <1>1, <1>2, <1>4, <1>5, NothingToAnswer

LEMMA TimeoutKeepsSettlement ==
    ASSUME TypeOK, NEW o \in Order, AnsweredInv(o), ProgressInv(o),
           NEW S \in SUBSET Order, Timeout(S)
    PROVE  AnsweredInv(o)' /\ ProgressInv(o)'
<1>1. /\ processed' = processed /\ status' = status /\ payments' = payments
      /\ staged[o] \subseteq staged'[o]
      /\ o \notin S => sagas'[o] = sagas[o]
      /\ o \in S => /\ sagas'[o] = CompensationRow(sagas[o], TimedOut(o))
                    /\ sagas[o].awaiting \in Step
  BY DEF Timeout, Watchdog, TypeOK, BusTypeOK, SagaTypeOK, SagaRow, paymentVars
<1>2. ASSUME o \in S
      PROVE  sagas'[o].state = "COMPENSATING" /\ sagas'[o].comp_pending >= 1
  <2> DEFINE comps == TimedOut(o)
             row == CompensationRow(sagas[o], comps)
  <2>1. comps = Refunding \/ comps = Undoing
    BY <1>1, <1>2, CompensationsOf DEF TimedOut, Step, Refunding, Undoing
  <2>2. sagas[o] \in SagaRow /\ sagas'[o] = row
    BY <1>1, <1>2 DEF TypeOK, SagaTypeOK
  <2> HIDE DEF comps
  <2>3. row.state = "COMPENSATING" /\ row.comp_pending \in {1, 2}
    BY <2>1, <2>2, CompensationWrites
  <2> HIDE DEF row
  <2>4. QED
    BY <2>2, <2>3
<1>3. ProgressInv(o)'
  BY <1>1, <1>2 DEF ProgressInv
<1>4. QED
  BY <1>1, <1>3, NothingToAnswer

(* What an action of order p does to another: nothing. *)
LEMMA OthersSettlement ==
    ASSUME TypeOK, NEW o \in Order, AnsweredInv(o), ProgressInv(o), NEW p \in Order, p # o,
           \/ Place(p) \/ Close(p) \/ Pay(p) \/ Stock(p) \/ Ship(p)
           \/ Begin(p) \/ Commit(p) \/ Abort(p) \/ (\E e \in Event : Lose(p, e))
    PROVE  AnsweredInv(o)' /\ ProgressInv(o)'
<1>1. /\ sagas'[o] = sagas[o] /\ status'[o] = status[o]
      /\ staged'[o] = staged[o] /\ processed'[o] = processed[o]
  BY OthersUntouched
<1>2. o \in payments' <=> o \in payments
  BY DEF Place, Close, Pay, PaymentStep, Charge, Decline, Refund, Stock, Ship, Begin, Commit,
         Abort, Lose, paymentVars
<1>3. QED
  BY <1>1, <1>2 DEF AnsweredInv, ProgressInv

LEMMA NextSettlement ==
    ASSUME TypeOK, NEW o \in Order, OrderInv(o), OpenInv(o), AnsweredInv(o), ProgressInv(o), [Next]_vars
    PROVE  AnsweredInv(o)' /\ ProgressInv(o)'
<1>1. ASSUME NEW p \in Order,
             \/ Place(p) \/ Close(p) \/ Pay(p) \/ Stock(p) \/ Ship(p)
             \/ Begin(p) \/ Commit(p) \/ Abort(p) \/ (\E e \in Event : Lose(p, e))
      PROVE  AnsweredInv(o)' /\ ProgressInv(o)'
  <2>1. CASE p # o
    BY <1>1, <2>1, OthersSettlement
  <2>2. CASE Begin(o) \/ Abort(o) \/ (\E e \in Event : Lose(o, e))
    <3>1. /\ staged' = staged /\ processed' = processed /\ sagas' = sagas /\ status' = status
          /\ payments' = payments
      BY <2>2 DEF Begin, BeginHandle, Abort, AbortHandle, Lose, DeadLetter, sagaVars, busVars,
                  paymentVars
    <3>2. QED
      BY <3>1 DEF AnsweredInv, ProgressInv
  <2>3. QED
    BY <1>1, <2>1, <2>2, PlaceKeepsSettlement, CloseKeepsSettlement, PayKeepsSettlement,
       StockKeepsSettlement, ShipKeepsSettlement, CommitKeepsSettlement
<1>2. CASE UNCHANGED vars
  BY <1>2 DEF vars, busVars, sagaVars, paymentVars, AnsweredInv, ProgressInv
<1>3. QED
  BY <1>1, <1>2, TimeoutKeepsSettlement DEF Next

-----------------------------------------------------------------------------
(* The ledger. *)

(* Only payment's commits stage its replies and touch its tables. *)
LEMMA NoOtherPays ==
    ASSUME TypeOK, NEW o \in Order, OrderInv(o), ProgressInv(o), [Next]_vars,
           \A p \in Order : ~Pay(p)
    PROVE  {"reply.payment.charged", "reply.payment.refunded"} \cap staged'[o] =
                {"reply.payment.charged", "reply.payment.refunded"} \cap staged[o]
<1> DEFINE replies == {"reply.payment.charged", "reply.payment.refunded"}
<1>1. ASSUME NEW p \in Order, p # o,
             \/ Place(p) \/ Close(p) \/ Stock(p) \/ Ship(p)
             \/ Begin(p) \/ Commit(p) \/ Abort(p) \/ (\E e \in Event : Lose(p, e))
      PROVE  staged'[o] = staged[o]
  BY <1>1, OthersUntouched
<1>2. CASE Place(o)
  BY <1>2 DEF Place, PlaceOrder, TypeOK, BusTypeOK
<1>3. CASE Close(o)
  BY <1>3 DEF Close, OrderStep, CloseOrder, CommitUnit, TypeOK, BusTypeOK
<1>4. CASE Stock(o)
  BY <1>4 DEF Stock, InventoryStep, Reserve, Refuse, Release, CommitUnit, TypeOK, BusTypeOK
<1>5. CASE Ship(o)
  BY <1>5 DEF Ship, ShippingStep, Dispatch, NoCourier, CommitUnit, TypeOK, BusTypeOK
<1>6. CASE Begin(o) \/ Abort(o) \/ (\E e \in Event : Lose(o, e))
  BY <1>6 DEF Begin, BeginHandle, Abort, AbortHandle, Lose, DeadLetter, busVars
<1>7. CASE Commit(o)
  <2>1. staged[o] \subseteq staged'[o] /\ Reply \cap staged'[o] \subseteq staged[o]
    BY <1>7, CommitOutcome
  <2>2. replies \subseteq Reply
    BY DEF Reply
  <2>3. QED
    BY <2>1, <2>2
<1>8. ASSUME NEW S \in SUBSET Order, Timeout(S)
      PROVE  replies \cap staged'[o] = replies \cap staged[o]
  <2> DEFINE comps == TimedOut(o)
  <2>1. \/ staged'[o] = staged[o]
        \/ sagas[o].awaiting \in Step /\ staged'[o] = staged[o] \cup CompensationEvents(comps)
    BY <1>8 DEF Timeout, Watchdog, TypeOK, SagaTypeOK, SagaRow
  <2>2. sagas[o].awaiting \in Step => comps \subseteq {"cmd.payment.refund", "cmd.inventory.release"}
    BY CompensationsType DEF TimedOut
  <2> HIDE DEF comps
  <2>3. sagas[o].awaiting \in Step => CompensationEvents(comps) \cap replies = {}
    BY <2>2 DEF CompensationEvents
  <2>4. QED
    BY <2>1, <2>3
<1>9. CASE UNCHANGED vars
  BY <1>9 DEF vars, busVars
<1>10. QED
  BY <1>1, <1>2, <1>3, <1>4, <1>5, <1>6, <1>7, <1>8, <1>9 DEF Next

(* The orders for which an event was sent, when one order's replies are staged or none is. *)
LEMMA SentNext ==
    ASSUME NEW e, NEW p \in Order, NEW replies,
           \A o \in Order : e \in staged'[o] <=> e \in staged[o] \/ (o = p /\ e \in replies)
    PROVE  /\ e \in replies => Sent(e)' = Sent(e) \cup {p}
           /\ e \notin replies => Sent(e)' = Sent(e)
<1>1. CASE e \in replies
  BY <1>1 DEF Sent
<1>2. CASE e \notin replies
  BY <1>2 DEF Sent
<1>3. QED
  BY <1>1, <1>2

LEMMA SentByCommit ==
    ASSUME TypeOK, NEW p \in Order, NEW c, NEW replies, CommitUnit(p, c, replies), NEW e
    PROVE  /\ e \in replies => Sent(e)' = Sent(e) \cup {p}
           /\ e \notin replies => Sent(e)' = Sent(e)
<1>1. \A o \in Order : staged'[o] = IF o = p THEN staged[o] \cup replies ELSE staged[o]
  BY DEF CommitUnit, TypeOK, BusTypeOK
<1>2. \A o \in Order : e \in staged'[o] <=> e \in staged[o] \/ (o = p /\ e \in replies)
  BY <1>1
<1>3. QED
  BY <1>2, SentNext

LEMMA SentUnchanged ==
    ASSUME NEW e, \A o \in Order : e \in staged'[o] <=> e \in staged[o]
    PROVE  Sent(e)' = Sent(e)
BY DEF Sent

(* A charge adds its order to what was charged, and its total to the ledger; a refund takes it
   from the ledger whether or not there was a charge. *)
LEMMA NextLedgerInv ==
    ASSUME TypeOK, \A o \in Order : OrderInv(o) /\ TablesInv(o) /\ ProgressInv(o),
           LedgerInv, [Next]_vars
    PROVE  LedgerInv'
<1> DEFINE charged == Sent("reply.payment.charged")
           refunded == Sent("reply.payment.refunded")
<1>1. /\ charged \in SUBSET Order /\ refunded \in SUBSET Order
      /\ IsFiniteSet(charged) /\ IsFiniteSet(refunded)
      /\ ledger = Total(charged) - Total(refunded)
      /\ Total(charged) \in Nat /\ Total(refunded) \in Nat
  BY CentsFinite DEF LedgerInv, Sent
<1>2. ASSUME NEW p \in Order, Charge(p)
      PROVE  LedgerInv'
  <2>1. p \notin charged
    <3>1. "reply.payment.charged" \in staged[p] => "cmd.payment.charge" \in processed[p]
      BY Causes
    <3>2. QED
      BY <1>2, <3>1 DEF Charge, FirstTime, Sent
  <2>2. CommitUnit(p, "cmd.payment.charge", {"reply.payment.charged"})
    BY <1>2 DEF Charge
  <2>3. charged' = charged \cup {p} /\ refunded' = refunded
    BY <2>2, SentByCommit
  <2>4. IsFiniteSet(charged \cup {p}) /\ Total(charged \cup {p}) = Total(charged) + TotalCents[p]
    BY <1>1, <2>1, TotalOfOneMore
  <2>5. ledger' = ledger + TotalCents[p] /\ TotalCents[p] \in Nat
    BY <1>2, TotalCentsAssumption DEF Charge
  <2>6. Total(charged)' = Total(charged \cup {p}) /\ Total(refunded)' = Total(refunded)
    BY <2>3 DEF Total, Cents
  <2> HIDE DEF charged, refunded
  <2>7. ledger' = Total(charged)' - Total(refunded)'
    BY <1>1, <2>4, <2>5, <2>6
  <2>8. IsFiniteSet(charged') /\ IsFiniteSet(refunded')
    BY <1>1, <2>3, <2>4
  <2>9. QED
    BY <2>7, <2>8 DEF LedgerInv, charged, refunded
<1>3. ASSUME NEW p \in Order, Refund(p)
      PROVE  LedgerInv'
  <2>1. p \notin refunded
    BY <1>3 DEF Refund, FirstTime, Sent, TablesInv
  <2>2. CommitUnit(p, "cmd.payment.refund", {"reply.payment.refunded"})
    BY <1>3 DEF Refund
  <2>3. refunded' = refunded \cup {p} /\ charged' = charged
    BY <2>2, SentByCommit
  <2>4. IsFiniteSet(refunded \cup {p}) /\ Total(refunded \cup {p}) = Total(refunded) + TotalCents[p]
    BY <1>1, <2>1, TotalOfOneMore
  <2>5. ledger' = ledger - TotalCents[p] /\ TotalCents[p] \in Nat
    BY <1>3, TotalCentsAssumption DEF Refund
  <2>6. Total(refunded)' = Total(refunded \cup {p}) /\ Total(charged)' = Total(charged)
    BY <2>3 DEF Total, Cents
  <2> HIDE DEF charged, refunded
  <2>7. ledger' = Total(charged)' - Total(refunded)'
    BY <1>1, <2>4, <2>5, <2>6
  <2>8. IsFiniteSet(charged') /\ IsFiniteSet(refunded')
    BY <1>1, <2>3, <2>4
  <2>9. QED
    BY <2>7, <2>8 DEF LedgerInv, charged, refunded
<1>4. ASSUME charged' = charged, refunded' = refunded, ledger' = ledger
      PROVE  LedgerInv'
  <2>1. Total(charged)' = Total(charged) /\ Total(refunded)' = Total(refunded)
    BY <1>4 DEF Total, Cents
  <2> HIDE DEF charged, refunded
  <2>2. /\ IsFiniteSet(charged') /\ IsFiniteSet(refunded')
        /\ ledger' = Total(charged)' - Total(refunded)'
    BY <1>1, <1>4, <2>1
  <2>3. QED
    BY <2>2 DEF LedgerInv, charged, refunded
<1>5. ASSUME NEW p \in Order, Decline(p)
      PROVE  LedgerInv'
  <2>1. CommitUnit(p, "cmd.payment.charge", {"reply.payment.failed"}) /\ ledger' = ledger
    BY <1>5 DEF Decline, paymentVars
  <2>2. charged' = charged /\ refunded' = refunded
    BY <2>1, SentByCommit
  <2>3. QED
    BY <1>4, <2>1, <2>2
<1>6. ASSUME \A p \in Order : ~Pay(p)
      PROVE  LedgerInv'
  <2>1. \A o \in Order : {"reply.payment.charged", "reply.payment.refunded"} \cap staged'[o] =
                              {"reply.payment.charged", "reply.payment.refunded"} \cap staged[o]
    BY <1>6, NoOtherPays
  <2>2. \A o \in Order :
            /\ "reply.payment.charged" \in staged'[o] <=> "reply.payment.charged" \in staged[o]
            /\ "reply.payment.refunded" \in staged'[o] <=> "reply.payment.refunded" \in staged[o]
    BY <2>1
  <2>3. charged' = charged /\ refunded' = refunded
    BY <2>2, SentUnchanged
  <2>4. ledger' = ledger
    BY <1>6 DEF Next, vars, Place, Close, Stock, Ship, Begin, Commit, Abort, Lose, Timeout, paymentVars
  <2>5. QED
    BY <1>4, <2>3, <2>4
<1>7. QED
  BY <1>2, <1>3, <1>5, <1>6 DEF Pay, PaymentStep

LEMMA InitSettlement ==
    ASSUME Init
    PROVE  LedgerInv /\ \A o \in Order : AnsweredInv(o) /\ ProgressInv(o)
<1>1. /\ sagas = [o \in Order |-> NoRow] /\ staged = [o \in Order |-> {}]
      /\ processed = [o \in Order |-> {}] /\ status = [o \in Order |-> "ABSENT"]
      /\ payments = {} /\ ledger = 0
  BY DEF Init, BusInit, OrderInit, SagaInit, PaymentInit
<1>2. Sent("reply.payment.charged") = {} /\ Sent("reply.payment.refunded") = {}
  BY <1>1 DEF Sent
<1>3. LedgerInv
  BY <1>1, <1>2, TotalOfNone, FS_EmptySet DEF LedgerInv
<1>4. QED
  BY <1>1, <1>3 DEF AnsweredInv, ProgressInv, NoRow

(* Everything that rests is inductive, on top of the footprint. *)
THEOREM SettlementInductive == Spec => []SInv
<1>1. Init => SInv
  BY InitIInv, InitFootprint, InitSettlement DEF SInv, FInv
<1>2. SInv /\ [Next]_vars => SInv'
  <2> SUFFICES ASSUME SInv, [Next]_vars PROVE SInv'
    OBVIOUS
  <2>1. TypeOK /\ StockInv /\ \A o \in Order : OrderInv(o) /\ FootprintInv(o)
    BY DEF SInv, FInv, IInv
  <2>2. \A o \in Order : OpenInv(o) /\ TablesInv(o)
    BY <2>1 DEF FootprintInv
  <2>3. FInv'
    BY <2>1, NextTypeOK, NextStockInv, NextOrderInv, NextFootprint DEF FInv, IInv
  <2>4. LedgerInv'
    BY <2>1, <2>2, NextLedgerInv DEF SInv
  <2>5. \A o \in Order : AnsweredInv(o)' /\ ProgressInv(o)'
    BY <2>1, <2>2, NextSettlement DEF SInv
  <2>6. QED
    BY <2>3, <2>4, <2>5 DEF SInv
<1>3. QED
  BY <1>1, <1>2, PTL DEF Spec

-----------------------------------------------------------------------------
(* What an order that never timed out contributes to the books: its payment row, or a charge
   and its refund. *)
LEMMA TimelyBooks ==
    ASSUME SInv, NEW o \in Order, o \notin timedOut
    PROVE  /\ "reply.payment.charged" \in staged[o] <=>
                o \in payments \/ "reply.payment.refunded" \in staged[o]
           /\ o \in payments => "reply.payment.refunded" \notin staged[o]
<1>1. OrderInv(o) /\ TablesInv(o) /\ TimelyInv(o) /\ AnsweredInv(o)
  BY DEF SInv, FInv, IInv, FootprintInv
<1>2. QED
  BY <1>1, Causes DEF TablesInv, TimelyInv, AnsweredInv

(* The ledger is out by what timed-out orders were charged and refunded, and by nothing else. *)
THEOREM LedgerIsBalanced == Spec => []LedgerBalances
<1>1. ASSUME SInv PROVE LedgerBalances
  <2> DEFINE charged == Sent("reply.payment.charged")
             refunded == Sent("reply.payment.refunded")
             paid == payments \ timedOut
  <2>1. /\ charged \in SUBSET Order /\ refunded \in SUBSET Order /\ payments \subseteq Order
        /\ IsFiniteSet(charged) /\ IsFiniteSet(refunded)
        /\ ledger = Total(charged) - Total(refunded)
    BY <1>1 DEF SInv, LedgerInv, Sent, FInv, IInv, TypeOK, PaymentTypeOK
  <2>2. \A o \in Order \ timedOut :
            /\ o \in charged <=> o \in paid \/ o \in refunded
            /\ o \in paid => o \notin refunded
    BY <1>1, TimelyBooks DEF Sent
  <2> HIDE DEF charged, refunded
  <2>3. /\ charged \ timedOut = paid \cup (refunded \ timedOut)
        /\ paid \cap (refunded \ timedOut) = {}
    BY <2>1, <2>2
  <2>4. /\ IsFiniteSet(charged \ timedOut) /\ IsFiniteSet(charged \cap timedOut)
        /\ Total(charged) = Total(charged \ timedOut) + Total(charged \cap timedOut)
    BY <2>1, TotalOfParts
  <2>5. /\ IsFiniteSet(refunded \ timedOut) /\ IsFiniteSet(refunded \cap timedOut)
        /\ Total(refunded) = Total(refunded \ timedOut) + Total(refunded \cap timedOut)
    BY <2>1, TotalOfParts
  <2>6. paid \in SUBSET (charged \ timedOut)
    BY <2>3
  <2>7. IsFiniteSet(paid)
    BY <2>4, <2>6, FS_Subset
  <2>8. paid \in SUBSET Order /\ refunded \ timedOut \in SUBSET Order
    BY <2>1
  <2>9. Total(charged \ timedOut) = Total(paid) + Total(refunded \ timedOut)
    BY <2>3, <2>5, <2>7, <2>8, TotalOfUnion
  <2>10. /\ Total(paid) \in Nat /\ Total(refunded \ timedOut) \in Nat
         /\ Total(charged \cap timedOut) \in Nat /\ Total(refunded \cap timedOut) \in Nat
    BY <2>1, <2>4, <2>5, <2>7, <2>8, CentsFinite
  <2>11. ledger = Total(paid) + Total(charged \cap timedOut) - Total(refunded \cap timedOut)
    BY <2>1, <2>4, <2>5, <2>9, <2>10
  <2>12. QED
    BY <2>11 DEF LedgerBalances, charged, refunded
<1>2. SInv => LedgerBalances
  BY <1>1
<1>3. QED
  BY <1>2, SettlementInductive, PTL

(* An order that is shipped has a row in each table; one that is cancelled, or was not placed,
   has none. *)
LEMMA RowsAtRest ==
    ASSUME SInv, timedOut = {}, NEW o \in Order, status[o] # "PENDING"
    PROVE  /\ o \in payments <=> status[o] = "SHIPPED"
           /\ o \in reservations <=> status[o] = "SHIPPED"
           /\ o \in shipments <=> status[o] = "SHIPPED"
<1>1. FInv /\ OrderInv(o) /\ TablesInv(o) /\ o \notin overwritten
  BY DEF SInv, FInv, IInv, FootprintInv, TimelyInv
<1>2. status[o] \in OrderStatus
  BY <1>1 DEF FInv, IInv, TypeOK, OrderTypeOK
<1>3. CASE status[o] = "SHIPPED"
  <2>1. sagas[o].state = "COMPLETED"
    BY <1>1, <1>3 DEF OrderInv, VerdictInv, CausalInv
  <2>2. QED
    BY <1>1, <1>3, <2>1, CompletedFootprint DEF CompletedIsKept
<1>4. CASE status[o] = "CANCELLED"
  BY <1>1, <1>4, CancelledFootprint DEF CancelledIsUndone
<1>5. CASE status[o] = "ABSENT"
  BY <1>1, <1>5 DEF OrderInv, CausalInv, ReservedInv, TablesInv
<1>6. QED
  BY <1>2, <1>3, <1>4, <1>5 DEF OrderStatus

(* What the dashboard calls consistent holds whenever no order is in progress and none has
   timed out: as many rows in each table as orders were shipped, and their totals in the ledger. *)
THEOREM RestIsConsistent == Spec => []ConsistentAtRest
<1>1. ASSUME SInv, LedgerBalances, timedOut = {}, \A o \in Order : status[o] # "PENDING"
      PROVE  Consistent
  <2>1. payments \subseteq Order /\ reservations \subseteq Order /\ shipments \subseteq Order
    BY <1>1 DEF SInv, FInv, IInv, TypeOK, PaymentTypeOK, InventoryTypeOK, ShippingTypeOK
  <2>2. payments = Shipped /\ reservations = Shipped /\ shipments = Shipped
    BY <1>1, <2>1, RowsAtRest DEF Shipped
  <2>3. /\ payments \ timedOut = payments
        /\ Sent("reply.payment.charged") \cap timedOut = {}
        /\ Sent("reply.payment.refunded") \cap timedOut = {}
    BY <1>1
  <2>4. ledger = Total(payments) + 0 - 0
    BY <1>1, <2>3, TotalOfNone DEF LedgerBalances
  <2>5. ledger \in Int
    BY <1>1 DEF SInv, FInv, IInv, TypeOK, PaymentTypeOK
  <2>6. Sent("reply.payment.charged") \in SUBSET Order /\ payments \in SUBSET Sent("reply.payment.charged")
    BY <1>1, <2>1 DEF SInv, AnsweredInv, Sent
  <2>7. IsFiniteSet(payments)
    BY <1>1, <2>6, FS_Subset DEF SInv, LedgerInv
  <2>8. Total(payments) \in Nat
    BY <2>1, <2>7, CentsFinite
  <2>9. ledger = Total(Shipped)
    BY <2>2, <2>4, <2>8
  <2>10. QED
    BY <2>2, <2>9 DEF Consistent
<1>2. SInv /\ LedgerBalances => ConsistentAtRest
  BY <1>1 DEF ConsistentAtRest
<1>3. QED
  BY <1>2, SettlementInductive, LedgerIsBalanced, PTL

(* An order in progress waits for an event or for the watchdog. *)
THEOREM NobodyIsForgotten == Spec => []NoOrderForgotten
<1>1. ASSUME SInv, NEW o \in Order, o \notin overwritten, status[o] = "PENDING",
             Pending(o, Event) = {}, sagas[o].awaiting = "none"
      PROVE  FALSE
  <2>1. OrderInv(o) /\ CountInv(o) /\ AnsweredInv(o) /\ ProgressInv(o)
    BY <1>1 DEF SInv, FInv, IInv, FootprintInv
  <2>2. sagas[o].state \in SagaState /\ staged[o] \subseteq Event
    BY <1>1 DEF SInv, FInv, IInv, TypeOK, SagaTypeOK, SagaRow, BusTypeOK
  <2>3. staged[o] \subseteq processed[o]
    BY <1>1, <2>2 DEF Pending
  <2>4. sagas[o].state # "NONE"
    BY <1>1, <2>1, <2>3 DEF ProgressInv
  <2>5. sagas[o].state \notin Running
    BY <1>1, <2>1 DEF OrderInv, TxnInv, RowInv
  <2>6. sagas[o].state \notin {"COMPLETED", "CANCELLED"}
    BY <1>1, <2>1, <2>3 DEF OrderInv, VerdictInv, ProgressInv
  <2>7. sagas[o].state = "COMPENSATING"
    BY <2>2, <2>4, <2>5, <2>6 DEF SagaState, Running
  <2>8. sagas[o].comp_pending = Cardinality(Due(o)) /\ sagas[o].comp_pending >= 1
    BY <2>1, <2>7 DEF CountInv, ProgressInv
  <2>9. Due(o) # {}
    BY <2>8, FS_EmptySet
  <2>10. \/ "cmd.payment.refund" \in staged[o] /\ "reply.payment.refunded" \notin processed[o]
         \/ "cmd.inventory.release" \in staged[o] /\ "reply.inventory.released" \notin processed[o]
    BY <2>9, DueMembers
  <2>11. QED
    BY <2>1, <2>3, <2>10 DEF AnsweredInv, Releases
<1>2. SInv => NoOrderForgotten
  BY <1>1 DEF NoOrderForgotten
<1>3. QED
  BY <1>2, SettlementInductive, PTL

-----------------------------------------------------------------------------
(* Only staged events are handled. *)
LEMMA HandledWasStaged ==
    ASSUME TypeOK, NEW o \in Order, OrderInv(o), OpenInv(o), [Next]_vars,
           NEW e \in Command, e \in processed'[o] \ processed[o]
    PROVE  e \in staged[o]
<1>1. ASSUME NEW p \in Order, NEW c, NEW events, CommitUnit(p, c, events), FirstTime(p, c)
      PROVE  e \in staged[o]
  BY <1>1 DEF CommitUnit, FirstTime, TypeOK, BusTypeOK
<1>2. ASSUME NEW p \in Order, Close(p) \/ Pay(p) \/ Stock(p) \/ Ship(p)
      PROVE  e \in staged[o]
  BY <1>1, <1>2 DEF Close, OrderStep, CloseOrder, Pay, PaymentStep, Charge, Decline, Refund,
                    Stock, InventoryStep, Reserve, Refuse, Release, Ship, ShippingStep, Dispatch, NoCourier
<1>3. ASSUME NEW p \in Order, Commit(p)
      PROVE  e \in staged[o]
  <2>1. CASE p = o
    <3>1. PICK row \in SagaRow, events \in SUBSET Event : CommitHandle(o, row, events)
      BY <1>3, <2>1, CommitShape
    <3>2. processed'[o] = processed[o] \cup {txn[o].event}
      BY <3>1, CommitFrame
    <3>3. txn[o].event \in Event
      BY <1>3, <2>1, CommitShape
    <3>4. txn[o].event # "none"
      BY <3>3 DEF Event, Command, Reply, OrderEvent
    <3>5. e = txn[o].event /\ txn[o].event \in staged[o]
      BY <3>2, <3>4 DEF OrderInv, TxnInv
    <3>6. QED
      BY <3>5
  <2>2. CASE p # o
    BY <1>3, <2>2, OthersUntouched
  <2>3. QED
    BY <2>1, <2>2
<1>4. ASSUME processed' = processed
      PROVE  FALSE
  BY <1>4
<1>5. QED
  BY <1>2, <1>3, <1>4 DEF Next, vars, busVars, Place, PlaceOrder, Begin, BeginHandle, Abort, AbortHandle,
                          Lose, DeadLetter, Timeout, Watchdog

(* A compensation of an order that never timed out finds what it undoes. *)
THEOREM CompensationsUndo == Spec => CompensationUndoes
<1>1. ASSUME FInv, [Next]_vars, NEW o \in Order, o \notin timedOut
      PROVE  /\ "cmd.payment.refund" \in processed'[o] \ processed[o] => o \in payments
             /\ "cmd.inventory.release" \in processed'[o] \ processed[o] => o \in reservations
  <2>1. TypeOK /\ OrderInv(o) /\ OpenInv(o) /\ TablesInv(o) /\ TimelyInv(o)
    BY <1>1 DEF FInv, IInv, FootprintInv
  <2>2. "cmd.payment.refund" \in Command /\ "cmd.inventory.release" \in Command
    BY DEF Command
  <2>3. processed[o] \subseteq staged[o]
    BY <2>1 DEF OrderInv, CausalInv
  <2>4. ASSUME "cmd.payment.refund" \in processed'[o] \ processed[o]
        PROVE  o \in payments
    <3>1. "cmd.payment.refund" \in staged[o]
      BY <1>1, <2>1, <2>2, <2>4, HandledWasStaged
    <3>2. QED
      BY <2>1, <2>3, <2>4, <3>1 DEF TimelyInv, TablesInv
  <2>5. ASSUME "cmd.inventory.release" \in processed'[o] \ processed[o]
        PROVE  o \in reservations
    <3>1. "cmd.inventory.release" \in staged[o]
      BY <1>1, <2>1, <2>2, <2>5, HandledWasStaged
    <3>2. QED
      BY <2>1, <2>3, <2>5, <3>1 DEF TimelyInv, TablesInv, Releases
  <2>6. QED
    BY <2>4, <2>5
<1>2. FInv /\ [Next]_vars =>
        [\A o \in Order \ timedOut :
            LET now == processed'[o] \ processed[o]
            IN  /\ "cmd.payment.refund" \in now => o \in payments
                /\ "cmd.inventory.release" \in now => o \in reservations]_vars
  BY <1>1
<1>3. QED
  BY <1>2, FootprintInductive, PTL DEF Spec, CompensationUndoes
=============================================================================
