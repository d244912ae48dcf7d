--------------------------- MODULE FootprintProofs ---------------------------
(***************************************************************************)
(* What an order leaves in the services' tables when it ended, and the     *)
(* countdown of a compensation, for every set of orders and every fault.   *)
(***************************************************************************)
EXTENDS FulfilmentProofs

(* What had to be handled before an event could be staged, event by event. *)
LEMMA Causes ==
    ASSUME NEW o \in Order, OrderInv(o)
    PROVE  /\ processed[o] \subseteq staged[o]
           /\ "cmd.inventory.reserve" \in staged[o] => "reply.payment.charged" \in processed[o]
           /\ "cmd.shipping.dispatch" \in staged[o] =>
                /\ "reply.payment.charged" \in processed[o]
                /\ "reply.inventory.reserved" \in processed[o]
           /\ "reply.payment.charged" \in staged[o] => "cmd.payment.charge" \in processed[o]
           /\ "reply.inventory.reserved" \in staged[o] => "cmd.inventory.reserve" \in processed[o]
           /\ "reply.shipping.dispatched" \in staged[o] => "cmd.shipping.dispatch" \in processed[o]
           /\ "reply.payment.failed" \in staged[o] =>
                "cmd.payment.charge" \in processed[o] /\ "reply.payment.charged" \notin staged[o]
           /\ "reply.inventory.failed" \in staged[o] =>
                "cmd.inventory.reserve" \in processed[o] /\ "reply.inventory.reserved" \notin staged[o]
           /\ "reply.shipping.failed" \in staged[o] =>
                "cmd.shipping.dispatch" \in processed[o] /\ "reply.shipping.dispatched" \notin staged[o]
<1>1. \A step \in Step :
        /\ STEP_COMMAND[step] \in staged[o] => \A s \in Before(step) : STEP_OK[s] \in processed[o]
        /\ STEP_OK[step] \in staged[o] => STEP_COMMAND[step] \in processed[o]
        /\ STEP_FAIL[step] \in staged[o] =>
            STEP_COMMAND[step] \in processed[o] /\ STEP_OK[step] \notin staged[o]
  BY DEF OrderInv, CausalInv
<1>2. "charge" \in Step /\ "reserve" \in Step /\ "dispatch" \in Step
  BY DEF Step
<1>3. processed[o] \subseteq staged[o]
  BY DEF OrderInv, CausalInv
<1>4. /\ "charge" \in Before("reserve")
      /\ "charge" \in Before("dispatch") /\ "reserve" \in Before("dispatch")
  BY StepTables
<1>5. QED
  BY <1>1, <1>2, <1>3, <1>4, StepTables

(* A running row awaits a step that was commanded, in that step's state. *)
LEMMA RunningRow ==
    ASSUME NEW row, NEW events, RowInv(row, events)
    PROVE  /\ row.awaiting = "charge" => row.state = "STARTED" /\ "cmd.payment.charge" \in events
           /\ row.awaiting = "reserve" => row.state = "CHARGED" /\ "cmd.inventory.reserve" \in events
           /\ row.awaiting = "dispatch" => row.state = "RESERVED" /\ "cmd.shipping.dispatch" \in events
           /\ row.state \in Running <=> row.awaiting # "none"
BY StepTables DEF RowInv, Step

(* The compensations due, one by one. *)
LEMMA DueMembers ==
    ASSUME NEW o
    PROVE  /\ Due(o) \subseteq {"charge", "reserve"}
           /\ "charge" \in Due(o) <=>
                "cmd.payment.refund" \in staged[o] /\ "reply.payment.refunded" \notin processed[o]
           /\ "reserve" \in Due(o) <=>
                "cmd.inventory.release" \in staged[o] /\ "reply.inventory.released" \notin processed[o]
BY DEF Due, STEP_COMPENSATE, CompReply

LEMMA DueMembersNext ==
    ASSUME NEW o
    PROVE  /\ Due(o)' \subseteq {"charge", "reserve"}
           /\ "charge" \in Due(o)' <=>
                "cmd.payment.refund" \in staged'[o] /\ "reply.payment.refunded" \notin processed'[o]
           /\ "reserve" \in Due(o)' <=>
                "cmd.inventory.release" \in staged'[o] /\ "reply.inventory.released" \notin processed'[o]
BY DEF Due, STEP_COMPENSATE, CompReply

LEMMA SameDue ==
    ASSUME NEW o,
           \A c \in {"cmd.payment.refund", "cmd.inventory.release"} : c \in staged'[o] <=> c \in staged[o],
           \A r \in {"reply.payment.refunded", "reply.inventory.released"} :
                r \in processed'[o] <=> r \in processed[o]
    PROVE  Due(o)' = Due(o)
<1> DEFINE D == Due(o)
           E == Due(o)'
<1>1. D \subseteq {"charge", "reserve"} /\ E \subseteq {"charge", "reserve"}
  BY DueMembers, DueMembersNext
<1>2. ("charge" \in D <=> "charge" \in E) /\ ("reserve" \in D <=> "reserve" \in E)
  BY DueMembers, DueMembersNext
<1> HIDE DEF D, E
<1>3. \A x : x \in D <=> x \in E
  BY <1>1, <1>2
<1>4. D = E
  BY <1>3
<1>5. QED
  BY <1>4 DEF D, E

(* How many of two things a set holds. *)
LEMMA CardinalityOfPair ==
    ASSUME NEW a, NEW b, a # b, NEW D \in SUBSET {a, b}
    PROVE  /\ a \in D /\ b \in D => Cardinality(D) = 2
           /\ a \in D /\ b \notin D => Cardinality(D) = 1
           /\ a \notin D /\ b \in D => Cardinality(D) = 1
           /\ a \notin D /\ b \notin D => D = {} /\ Cardinality(D) = 0
<1>1. Cardinality({a}) = 1 /\ Cardinality({b}) = 1 /\ IsFiniteSet({a})
  BY FS_Singleton
<1>2. Cardinality({a} \cup {b}) = 2
  BY <1>1, FS_AddElement
<1>3. CASE a \in D /\ b \in D
  <2>1. D = {a} \cup {b}
    BY <1>3
  <2>2. QED
    BY <1>2, <1>3, <2>1
<1>4. CASE a \in D /\ b \notin D
  <2>1. D = {a}
    BY <1>4
  <2>2. QED
    BY <1>1, <1>4, <2>1
<1>5. CASE a \notin D /\ b \in D
  <2>1. D = {b}
    BY <1>5
  <2>2. QED
    BY <1>1, <1>5, <2>1
<1>6. CASE a \notin D /\ b \notin D
  <2>1. D = {}
    BY <1>6
  <2>2. QED
    BY <1>6, <2>1, FS_EmptySet
<1>7. QED
  BY <1>3, <1>4, <1>5, <1>6

(* How many compensations a set of them holds. *)
LEMMA DueCount ==
    ASSUME NEW D \in SUBSET {"charge", "reserve"}
    PROVE  /\ "charge" \in D /\ "reserve" \in D => Cardinality(D) = 2
           /\ "charge" \in D /\ "reserve" \notin D => Cardinality(D) = 1
           /\ "charge" \notin D /\ "reserve" \in D => Cardinality(D) = 1
           /\ "charge" \notin D /\ "reserve" \notin D => D = {} /\ Cardinality(D) = 0
<1> DEFINE a == "charge"
           b == "reserve"
<1>1. a # b
  OBVIOUS
<1> HIDE DEF a, b
<1>2. D \in SUBSET {a, b}
  BY DEF a, b
<1>3. /\ a \in D /\ b \in D => Cardinality(D) = 2
      /\ a \in D /\ b \notin D => Cardinality(D) = 1
      /\ a \notin D /\ b \in D => Cardinality(D) = 1
      /\ a \notin D /\ b \notin D => D = {} /\ Cardinality(D) = 0
  BY <1>1, <1>2, CardinalityOfPair
<1>4. QED
  BY <1>3 DEF a, b

(* What each step gives up: the steps before it, and itself after a timeout. *)
LEMMA CompensationsOf ==
    /\ Compensations("charge", FALSE) = {}
    /\ Compensations("reserve", FALSE) = {"cmd.payment.refund"}
    /\ Compensations("dispatch", FALSE) = {"cmd.payment.refund", "cmd.inventory.release"}
    /\ Compensations("charge", TRUE) = {"cmd.payment.refund"}
    /\ Compensations("reserve", TRUE) = {"cmd.payment.refund", "cmd.inventory.release"}
    /\ Compensations("dispatch", TRUE) = {"cmd.payment.refund", "cmd.inventory.release"}
<1>1. /\ STEP_COMPENSATE["charge"] = "cmd.payment.refund"
      /\ STEP_COMPENSATE["reserve"] = "cmd.inventory.release"
  BY DEF STEP_COMPENSATE
<1> HIDE DEF STEP_COMPENSATE
<1>2. QED
  BY <1>1, StepTables DEF Compensations

LEMMA CompensationsCount ==
    /\ Cardinality({"cmd.payment.refund"}) = 1
    /\ Cardinality({"cmd.payment.refund", "cmd.inventory.release"}) = 2
<1> DEFINE a == "cmd.payment.refund"
           b == "cmd.inventory.release"
<1>1. a # b
  OBVIOUS
<1> HIDE DEF a, b
<1>2. Cardinality({a}) = 1
  BY FS_Singleton
<1>3. {a, b} \in SUBSET {a, b} /\ a \in {a, b} /\ b \in {a, b}
  OBVIOUS
<1>4. Cardinality({a, b}) = 2
  BY <1>1, <1>3, CardinalityOfPair
<1>5. QED
  BY <1>2, <1>4 DEF a, b

-----------------------------------------------------------------------------
(* A step that leaves everything an order's footprint rests on as it was. *)
LEMMA SameFootprint ==
    ASSUME NEW o \in Order, FootprintInv(o),
           sagas'[o] = sagas[o], txn'[o] = txn[o],
           staged'[o] = staged[o], processed'[o] = processed[o],
           o \in payments' <=> o \in payments,
           o \in reservations' <=> o \in reservations,
           o \in shipments' <=> o \in shipments,
           o \in timedOut' <=> o \in timedOut,
           o \in overwritten' <=> o \in overwritten
    PROVE  FootprintInv(o)'
<1>1. OpenInv(o)' /\ FreshInv(o)' /\ AwaitedInv(o)' /\ TablesInv(o)' /\ CompletedInv(o)'
  BY DEF FootprintInv, OpenInv, FreshInv, AwaitedInv, TablesInv, CompletedInv
<1>2. ReleaseInv(o)'
  BY DEF FootprintInv, ReleaseInv, Pending
<1>3. (o \notin overwritten => CountInv(o))'
  BY DEF FootprintInv, CountInv, GivenUp, Due
<1>4. (o \notin timedOut => TimelyInv(o))'
  BY DEF FootprintInv, TimelyInv, GivenUp
<1>5. QED
  BY <1>1, <1>2, <1>3, <1>4 DEF FootprintInv

(* Placing and closing an order stage and process events of the order's own queue only. *)
LEMMA PlaceCloseKeepFootprint ==
    ASSUME TypeOK, NEW o \in Order, FootprintInv(o), Place(o) \/ Close(o)
    PROVE  FootprintInv(o)'
<1>1. /\ sagas' = sagas /\ txn' = txn /\ timedOut' = timedOut /\ overwritten' = overwritten
      /\ payments' = payments /\ reservations' = reservations /\ shipments' = shipments
  BY DEF Place, Close, sagaVars, paymentVars, inventoryVars
<1>2. \/ staged'[o] = staged[o] \cup {"order.placed"} /\ processed'[o] = processed[o]
      \/ \E e \in {"order.shipped", "order.cancelled"} :
            staged'[o] = staged[o] /\ processed'[o] = processed[o] \cup {e}
  <2>1. CASE Place(o)
    BY <2>1 DEF Place, PlaceOrder, TypeOK, BusTypeOK
  <2>2. CASE Close(o)
    BY <2>2 DEF Close, OrderStep, CloseOrder, CommitUnit, TypeOK, BusTypeOK
  <2>3. QED
    BY <2>1, <2>2
<1>3. \A e \in Command \cup Reply :
        (e \in staged'[o] <=> e \in staged[o]) /\ (e \in processed'[o] <=> e \in processed[o])
  BY <1>2 DEF Command, Reply
<1>4. Releases \subseteq Command
  BY DEF Releases, Command
<1>5. OpenInv(o)' /\ FreshInv(o)' /\ AwaitedInv(o)' /\ CompletedInv(o)'
  <2>1. OpenInv(o)' /\ FreshInv(o)'
    BY <1>1, <1>2, <1>3 DEF FootprintInv, OpenInv, FreshInv, Reply
  <2>2. AwaitedInv(o)' /\ CompletedInv(o)'
    BY <1>1, <1>3 DEF FootprintInv, AwaitedInv, Unanswered, CompletedInv, Reply
  <2>3. QED
    BY <2>1, <2>2
<1>6. TablesInv(o)'
  BY <1>1, <1>3 DEF FootprintInv, TablesInv, Releases, Command, Reply
<1>7. ReleaseInv(o)'
  BY <1>1, <1>3 DEF FootprintInv, ReleaseInv, Pending, Releases, Command, Reply
<1>8. (o \notin overwritten => CountInv(o))'
  <2>1. Due(o)' = Due(o)
    BY <1>3, SameDue DEF Command, Reply
  <2>2. QED
    BY <1>1, <1>3, <2>1 DEF FootprintInv, CountInv, GivenUp, Releases, Command, Reply
<1>9. (o \notin timedOut => TimelyInv(o))'
  BY <1>1, <1>3 DEF FootprintInv, TimelyInv, GivenUp, Command, Reply
<1>10. QED
  BY <1>5, <1>6, <1>7, <1>8, <1>9 DEF FootprintInv

(* A service answers a command: nothing the orchestrator decides from is disturbed. *)
LEMMA ServiceKeepsSagaParts ==
    ASSUME NEW o \in Order, FootprintInv(o), OrderInv(o),
           NEW e \in Command, FirstTime(o, e), NEW replies \in SUBSET Reply,
           sagas'[o] = sagas[o], txn'[o] = txn[o],
           timedOut' = timedOut, overwritten' = overwritten,
           staged'[o] = staged[o] \cup replies,
           processed'[o] = processed[o] \cup {e}
    PROVE  /\ OpenInv(o)' /\ FreshInv(o)' /\ AwaitedInv(o)' /\ CompletedInv(o)'
           /\ (o \notin overwritten => CountInv(o))'
<1>1. /\ \A c \in Command : c \in staged'[o] <=> c \in staged[o]
      /\ \A r \in Reply : r \in processed'[o] <=> r \in processed[o]
      /\ "order.placed" \in processed'[o] <=> "order.placed" \in processed[o]
      /\ staged[o] \subseteq staged'[o]
  BY DEF Command, Reply
<1>2. OpenInv(o)' /\ FreshInv(o)'
  BY <1>1 DEF FootprintInv, OpenInv, FreshInv
<1>3. AwaitedInv(o)' /\ CompletedInv(o)'
  BY <1>1 DEF FootprintInv, AwaitedInv, Unanswered, CompletedInv, Reply
<1>4. (o \notin overwritten => CountInv(o))'
  <2>1. Due(o)' = Due(o)
    BY <1>1, SameDue DEF Command, Reply
  <2>2. QED
    BY <1>1, <2>1 DEF FootprintInv, CountInv, GivenUp, Releases, Command
<1>5. QED
  BY <1>2, <1>3, <1>4

LEMMA PayKeepsFootprint ==
    ASSUME TypeOK, NEW o \in Order, FootprintInv(o), OrderInv(o), Pay(o)
    PROVE  FootprintInv(o)'
<1>1. PICK e \in {"cmd.payment.charge", "cmd.payment.refund"}, replies \in SUBSET Reply :
        /\ FirstTime(o, e) /\ CommitUnit(o, e, replies)
        /\ \/ /\ e = "cmd.payment.charge" /\ replies = {"reply.payment.charged"}
              /\ payments' = payments \cup {o}
           \/ /\ e = "cmd.payment.charge" /\ replies = {"reply.payment.failed"}
              /\ payments' = payments
           \/ /\ e = "cmd.payment.refund" /\ replies = {"reply.payment.refunded"}
              /\ payments' = payments \ {o}
  BY DEF Pay, PaymentStep, Charge, Decline, Refund, paymentVars, Reply
<1>2. UNCHANGED <<status, sagaVars, reservations, shipments>> /\ e \in Command
  BY <1>1 DEF Pay, inventoryVars, Command
<1>3. /\ staged'[o] = staged[o] \cup replies /\ processed'[o] = processed[o] \cup {e}
      /\ sagas'[o] = sagas[o] /\ txn'[o] = txn[o]
      /\ timedOut' = timedOut /\ overwritten' = overwritten
  BY <1>1, <1>2, ServiceFrame DEF sagaVars
<1>4. /\ OpenInv(o)' /\ FreshInv(o)' /\ AwaitedInv(o)' /\ CompletedInv(o)'
      /\ (o \notin overwritten => CountInv(o))'
  BY <1>1, <1>2, <1>3, ServiceKeepsSagaParts
<1>5. TablesInv(o)'
  BY <1>1, <1>2, <1>3, Causes DEF FootprintInv, TablesInv, Releases, FirstTime
<1>6. ReleaseInv(o)'
  BY <1>1, <1>2, <1>3 DEF FootprintInv, ReleaseInv, Pending, Releases
<1>7. (o \notin timedOut => TimelyInv(o))'
  BY <1>1, <1>2, <1>3, Causes DEF FootprintInv, TimelyInv, GivenUp, FirstTime
<1>8. QED
  BY <1>4, <1>5, <1>6, <1>7 DEF FootprintInv

LEMMA StockKeepsFootprint ==
    ASSUME TypeOK, NEW o \in Order, FootprintInv(o), OrderInv(o), Stock(o)
    PROVE  FootprintInv(o)'
<1>1. PICK e \in {"cmd.inventory.reserve"} \cup Releases, replies \in SUBSET Reply :
        /\ FirstTime(o, e) /\ CommitUnit(o, e, replies)
        /\ \/ /\ e = "cmd.inventory.reserve" /\ replies \subseteq {"reply.inventory.reserved"}
              /\ reservations' = reservations \cup {o}
           \/ /\ e = "cmd.inventory.reserve" /\ replies = {"reply.inventory.failed"}
              /\ reservations' = reservations
           \/ /\ e \in Releases /\ replies = {"reply.inventory.released"}
              /\ reservations' = reservations \ {o}
  BY DEF Stock, InventoryStep, Reserve, Refuse, Release, inventoryVars, Reply, Releases
<1>2. UNCHANGED <<status, sagaVars, payments, shipments>> /\ e \in Command
  BY <1>1 DEF Stock, paymentVars, Command, Releases
<1>3. /\ staged'[o] = staged[o] \cup replies /\ processed'[o] = processed[o] \cup {e}
      /\ sagas'[o] = sagas[o] /\ txn'[o] = txn[o]
      /\ timedOut' = timedOut /\ overwritten' = overwritten
  BY <1>1, <1>2, ServiceFrame DEF sagaVars
<1>4. /\ OpenInv(o)' /\ FreshInv(o)' /\ AwaitedInv(o)' /\ CompletedInv(o)'
      /\ (o \notin overwritten => CountInv(o))'
  BY <1>1, <1>2, <1>3, ServiceKeepsSagaParts
<1>5. TablesInv(o)'
  BY <1>1, <1>2, <1>3, Causes DEF FootprintInv, TablesInv, Releases, FirstTime, OrderInv, ReservedInv
<1>6. ReleaseInv(o)'
  <2>1. txn[o].event # "none" => txn[o].event \in staged[o]
    BY DEF OrderInv, TxnInv
  <2>2. QED
    BY <1>1, <1>2, <1>3, <2>1, Causes DEF FootprintInv, ReleaseInv, Pending, Releases, FirstTime
<1>7. (o \notin timedOut => TimelyInv(o))'
  BY <1>1, <1>2, <1>3, Causes DEF FootprintInv, TimelyInv, GivenUp, FirstTime, Releases
<1>8. QED
  BY <1>4, <1>5, <1>6, <1>7 DEF FootprintInv

LEMMA ShipKeepsFootprint ==
    ASSUME TypeOK, NEW o \in Order, FootprintInv(o), OrderInv(o), Ship(o)
    PROVE  FootprintInv(o)'
<1> DEFINE e == "cmd.shipping.dispatch"
<1>1. PICK replies \in SUBSET Reply :
        /\ FirstTime(o, e) /\ CommitUnit(o, e, replies)
        /\ \/ replies = {"reply.shipping.dispatched"} /\ shipments' = shipments \cup {o}
           \/ replies = {"reply.shipping.failed"} /\ shipments' = shipments
  BY DEF Ship, ShippingStep, Dispatch, NoCourier, Reply
<1>2. UNCHANGED <<status, sagaVars, payments, reservations>> /\ e \in Command
  BY DEF Ship, paymentVars, inventoryVars, Command
<1>3. /\ staged'[o] = staged[o] \cup replies /\ processed'[o] = processed[o] \cup {e}
      /\ sagas'[o] = sagas[o] /\ txn'[o] = txn[o]
      /\ timedOut' = timedOut /\ overwritten' = overwritten
  BY <1>1, <1>2, ServiceFrame DEF sagaVars
<1>4. /\ OpenInv(o)' /\ FreshInv(o)' /\ AwaitedInv(o)' /\ CompletedInv(o)'
      /\ (o \notin overwritten => CountInv(o))'
  BY <1>1, <1>2, <1>3, ServiceKeepsSagaParts
<1>5. TablesInv(o)'
  BY <1>1, <1>2, <1>3, Causes DEF FootprintInv, TablesInv, Releases, FirstTime
<1>6. ReleaseInv(o)'
  BY <1>1, <1>2, <1>3 DEF FootprintInv, ReleaseInv, Pending, Releases
<1>7. (o \notin timedOut => TimelyInv(o))'
  BY <1>1, <1>2, <1>3 DEF FootprintInv, TimelyInv, GivenUp
<1>8. QED
  BY <1>4, <1>5, <1>6, <1>7 DEF FootprintInv


-----------------------------------------------------------------------------
(* The orchestrator's commits. *)

(* What a commit does to the order, and the parts that hold whatever it writes. *)
LEMMA HandlerFrame ==
    ASSUME TypeOK, NEW o \in Order, FootprintInv(o), txn[o].event # "none",
           NEW row, NEW events, CommitHandle(o, row, events), events \cap Reply = {},
           UNCHANGED <<paymentVars, inventoryVars, shipments>>
    PROVE  /\ sagas'[o] = row /\ txn'[o] = Closed /\ timedOut' = timedOut
           /\ staged'[o] = staged[o] \cup events
           /\ processed'[o] = processed[o] \cup {txn[o].event}
           /\ payments' = payments /\ reservations' = reservations /\ shipments' = shipments
           /\ o \in overwritten' <=>
                o \in overwritten \/ (row # sagas[o] /\ txn[o].row # sagas[o])
           /\ OpenInv(o)' /\ TablesInv(o)' /\ Unanswered(txn'[o].row, processed'[o])
           /\ txn'[o].row.awaiting = "none" /\ txn'[o].event = "none"
<1>1. /\ sagas'[o] = row /\ txn'[o] = Closed /\ timedOut' = timedOut
      /\ staged'[o] = staged[o] \cup events
      /\ processed'[o] = processed[o] \cup {txn[o].event}
      /\ payments' = payments /\ reservations' = reservations /\ shipments' = shipments
  BY DEF CommitHandle, CommitUnit, TypeOK, BusTypeOK, SagaTypeOK, paymentVars, inventoryVars
<1>2. o \in overwritten' <=> o \in overwritten \/ (row # sagas[o] /\ txn[o].row # sagas[o])
  BY DEF CommitHandle
<1>3. txn'[o].row.awaiting = "none" /\ txn'[o].event = "none" /\ txn'[o].row = NoRow
  BY <1>1 DEF Closed, NoRow
<1>4. OpenInv(o)' /\ Unanswered(txn'[o].row, processed'[o])
  BY <1>3 DEF OpenInv, Unanswered
<1>5. TablesInv(o)'
  BY <1>1 DEF FootprintInv, TablesInv, Releases, Reply
<1>6. QED
  BY <1>1, <1>2, <1>3, <1>4, <1>5

LEMMA StartSagaKeepsFootprint ==
    ASSUME TypeOK, NEW o \in Order, OrderInv(o), FootprintInv(o), StartSaga(o),
           UNCHANGED <<paymentVars, inventoryVars, shipments>>
    PROVE  FootprintInv(o)'
<1> DEFINE row == SetState(sagas[o], "STARTED", "charge")
           events == {"cmd.payment.charge"}
<1>1. /\ CommitHandle(o, row, events) /\ events \cap Reply = {}
      /\ txn[o].event = "order.placed" /\ txn[o].row = sagas[o] /\ sagas[o].state = "NONE"
  BY SettledSnapshot, StepTables DEF StartSaga, Running, Reply
<1>2. row.state = "STARTED" /\ row.awaiting = "charge"
  BY DEF SetState, SagaRow, TypeOK, SagaTypeOK
<1>3. /\ sagas'[o] = row /\ timedOut' = timedOut
      /\ staged'[o] = staged[o] \cup events /\ processed'[o] = processed[o] \cup {"order.placed"}
      /\ payments' = payments /\ reservations' = reservations
      /\ o \in overwritten' <=> o \in overwritten
      /\ OpenInv(o)' /\ TablesInv(o)' /\ Unanswered(txn'[o].row, processed'[o])
      /\ txn'[o].row.awaiting = "none" /\ txn'[o].event = "none"
  BY <1>1, HandlerFrame
<1>4. Command \cap staged[o] = {}
  BY <1>1 DEF FootprintInv, FreshInv
<1>5. FreshInv(o)' /\ CompletedInv(o)'
  BY <1>2, <1>3 DEF FreshInv, CompletedInv
<1>6. AwaitedInv(o)'
  BY <1>2, <1>3, <1>4, Causes DEF AwaitedInv, Unanswered, Command
<1>7. ReleaseInv(o)'
  BY <1>2, <1>3, <1>4, Causes DEF FootprintInv, ReleaseInv, Command
<1>8. (o \notin overwritten => CountInv(o))'
  BY <1>2, <1>3, <1>4, StepTables DEF FootprintInv, CountInv, GivenUp, Command, Releases
<1>9. (o \notin timedOut => TimelyInv(o))'
  BY <1>2, <1>3 DEF FootprintInv, TimelyInv, GivenUp
<1>10. QED
  BY <1>3, <1>5, <1>6, <1>7, <1>8, <1>9 DEF FootprintInv

(* A handler that found the saga running: it still is, or a scan gave it up meanwhile and
   its order timed out. *)
LEMMA ForwardSnapshot ==
    ASSUME NEW o \in Order, OrderInv(o), FootprintInv(o), NEW step \in Step, Forward(o, step)
    PROVE  /\ txn[o].event # "none" /\ txn[o].event \in staged[o] \ processed[o]
           /\ STEP_COMMAND[step] \in staged[o]
           /\ {STEP_OK[step], STEP_FAIL[step]} \cap processed[o] = {}
           /\ \/ txn[o].row = sagas[o] /\ sagas[o].awaiting = step /\ sagas[o].state \in Running
              \/ /\ txn[o].row # sagas[o] /\ sagas[o].state = "COMPENSATING"
                 /\ sagas[o].awaiting = "none" /\ o \in timedOut
<1>1. txn[o].event # "none"
  BY DEF Forward, Reply
<1>2. txn[o].event \in staged[o] \ processed[o] /\ STEP_COMMAND[step] \in staged[o]
  BY <1>1, RunningSnapshot DEF FootprintInv, OpenInv
<1>3. {STEP_OK[step], STEP_FAIL[step]} \cap processed[o] = {}
  BY StepTables DEF Forward, FootprintInv, AwaitedInv, Unanswered, Step
<1>4. \/ txn[o].row = sagas[o]
      \/ sagas[o].state = "COMPENSATING"
  BY <1>1 DEF OrderInv, TxnInv
<1>5. txn[o].row.state \in Running /\ txn[o].row.awaiting = step
  BY DEF Forward, Running
<1>6. ASSUME txn[o].row # sagas[o]
      PROVE  sagas[o].awaiting = "none" /\ o \in timedOut
  <2>1. sagas[o].awaiting = "none"
    BY <1>4, <1>6 DEF OrderInv, TxnInv, RowInv, Running
  <2>2. o \in timedOut
    BY <1>1, <1>6 DEF FootprintInv, TimelyInv
  <2>3. QED
    BY <2>1, <2>2
<1>7. QED
  BY <1>1, <1>2, <1>3, <1>4, <1>5, <1>6

LEMMA StepSucceededKeepsFootprint ==
    ASSUME TypeOK, NEW o \in Order, OrderInv(o), FootprintInv(o),
           NEW step \in {"charge", "reserve"}, StepSucceeded(o, step),
           UNCHANGED <<paymentVars, inventoryVars, shipments>>
    PROVE  FootprintInv(o)'
<1> DEFINE next == NextStep[step]
           row == SetState(sagas[o], AwaitingState[next], next)
           events == {STEP_COMMAND[next]}
<1>1. /\ CommitHandle(o, row, events) /\ txn[o].event = STEP_OK[step] /\ Forward(o, step)
  BY DEF StepSucceeded
<1>2. /\ next \in {"reserve", "dispatch"} /\ step \in Step
      /\ events \subseteq {"cmd.inventory.reserve", "cmd.shipping.dispatch"}
      /\ events \cap Reply = {}
      /\ step = "charge" => next = "reserve" /\ txn[o].event = "reply.payment.charged"
      /\ step = "reserve" => next = "dispatch" /\ txn[o].event = "reply.inventory.reserved"
  BY <1>1, StepTables DEF Step, Reply
<1>3. row.state \in {"CHARGED", "RESERVED"} /\ row.awaiting = next
  BY <1>2, StepTables DEF SetState, SagaRow, TypeOK, SagaTypeOK
<1>4. /\ txn[o].event # "none" /\ txn[o].event \in staged[o] \ processed[o]
      /\ {STEP_OK[step], STEP_FAIL[step]} \cap processed[o] = {}
      /\ \/ txn[o].row = sagas[o] /\ sagas[o].awaiting = step /\ sagas[o].state \in Running
         \/ /\ txn[o].row # sagas[o] /\ sagas[o].state = "COMPENSATING"
            /\ sagas[o].awaiting = "none" /\ o \in timedOut
  BY <1>1, <1>2, ForwardSnapshot
<1>5. /\ sagas'[o] = row /\ timedOut' = timedOut
      /\ staged'[o] = staged[o] \cup events /\ processed'[o] = processed[o] \cup {txn[o].event}
      /\ payments' = payments /\ reservations' = reservations
      /\ o \in overwritten' <=> o \in overwritten \/ (row # sagas[o] /\ txn[o].row # sagas[o])
      /\ OpenInv(o)' /\ TablesInv(o)' /\ Unanswered(txn'[o].row, processed'[o])
      /\ txn'[o].row.awaiting = "none" /\ txn'[o].event = "none"
  <2>1. txn[o].event # "none" /\ CommitHandle(o, row, events) /\ events \cap Reply = {}
    BY <1>1, <1>2, <1>4
  <2> HIDE DEF row, events
  <2>2. QED
    BY <2>1, HandlerFrame
<1> HIDE DEF next, row, events
<1>6. FreshInv(o)' /\ CompletedInv(o)'
  BY <1>3, <1>5 DEF FreshInv, CompletedInv
<1>7. AwaitedInv(o)'
  <2>1. step = "charge" =>
            {"reply.inventory.reserved", "reply.inventory.failed"} \cap processed'[o] = {}
    BY <1>2, <1>4, <1>5, StepTables, Causes
  <2>2. step = "reserve" =>
            {"reply.shipping.dispatched", "reply.shipping.failed"} \cap processed'[o] = {}
    BY <1>2, <1>4, <1>5, StepTables, Causes
  <2>3. QED
    BY <1>2, <1>3, <1>5, <2>1, <2>2 DEF AwaitedInv, Unanswered
<1>8. ReleaseInv(o)'
  <2>1. step = "charge" => "cmd.inventory.release" \notin staged'[o]
    BY <1>1, <1>2, <1>5 DEF FootprintInv, ReleaseInv, Forward
  <2>2. step = "reserve" => ~("cmd.inventory.release" \in processed[o] /\ o \in reservations)
    BY <1>1, <1>2 DEF FootprintInv, ReleaseInv, Forward
  <2>3. step = "charge" => "reply.inventory.reserved" \notin processed'[o]
    BY <1>2, <1>4, <1>5, StepTables, Causes
  <2>4. "cmd.inventory.release" \in processed'[o] <=> "cmd.inventory.release" \in processed[o]
    BY <1>2, <1>5
  <2>5. "cmd.inventory.release.late" \in staged'[o] => "reply.inventory.reserved" \in processed'[o]
    BY <1>2, <1>5 DEF FootprintInv, ReleaseInv
  <2>6. QED
    BY <1>2, <1>3, <1>5, <2>1, <2>2, <2>3, <2>4, <2>5 DEF ReleaseInv
<1>9. (o \notin overwritten => CountInv(o))'
  <2>1. SUFFICES ASSUME o \notin overwritten' PROVE CountInv(o)'
    OBVIOUS
  <2>2. txn[o].row = sagas[o] /\ sagas[o].state \in Running /\ o \notin overwritten
    BY <1>3, <1>4, <1>5, <2>1
  <2>3. (Releases \cup {"cmd.payment.refund"}) \cap staged'[o] = {}
    BY <1>2, <1>5, <2>2 DEF FootprintInv, CountInv, GivenUp, Running, Releases
  <2>4. QED
    BY <1>3, <1>5, <2>3, StepTables DEF CountInv, GivenUp, Releases
<1>10. (o \notin timedOut => TimelyInv(o))'
  BY <1>2, <1>3, <1>4, <1>5 DEF FootprintInv, TimelyInv, GivenUp
<1>11. QED
  BY <1>5, <1>6, <1>7, <1>8, <1>9, <1>10 DEF FootprintInv


LEMMA FinishCompletedKeepsFootprint ==
    ASSUME TypeOK, NEW o \in Order, OrderInv(o), FootprintInv(o), FinishCompleted(o),
           UNCHANGED <<paymentVars, inventoryVars, shipments>>
    PROVE  FootprintInv(o)'
<1> DEFINE row == SetState(sagas[o], "COMPLETED", "none")
           events == {"order.shipped"}
<1>1. /\ CommitHandle(o, row, events) /\ events \cap Reply = {} /\ Forward(o, "dispatch")
      /\ txn[o].event = "reply.shipping.dispatched" /\ "dispatch" \in Step
  BY StepTables DEF FinishCompleted, Reply, Step
<1>2. row.state = "COMPLETED" /\ row.awaiting = "none"
  BY DEF SetState, SagaRow, TypeOK, SagaTypeOK
<1>3. \/ txn[o].row = sagas[o] /\ sagas[o].state \in Running
      \/ /\ txn[o].row # sagas[o] /\ sagas[o].state = "COMPENSATING" /\ o \in timedOut
  BY <1>1, ForwardSnapshot
<1>4. /\ sagas'[o] = row /\ timedOut' = timedOut
      /\ staged'[o] = staged[o] \cup events /\ processed'[o] = processed[o] \cup {txn[o].event}
      /\ payments' = payments /\ reservations' = reservations
      /\ o \in overwritten' <=> o \in overwritten \/ (row # sagas[o] /\ txn[o].row # sagas[o])
      /\ OpenInv(o)' /\ TablesInv(o)' /\ Unanswered(txn'[o].row, processed'[o])
      /\ txn'[o].row.awaiting = "none" /\ txn'[o].event = "none"
  BY <1>1, HandlerFrame
<1> HIDE DEF row
<1>5. FreshInv(o)' /\ CompletedInv(o)' /\ AwaitedInv(o)'
  BY <1>1, <1>2, <1>4 DEF FreshInv, CompletedInv, AwaitedInv, Unanswered
<1>6. ReleaseInv(o)'
  BY <1>1, <1>2, <1>4 DEF FootprintInv, ReleaseInv, Running
<1>7. (o \notin overwritten => CountInv(o))'
  <2>1. SUFFICES ASSUME o \notin overwritten' PROVE CountInv(o)'
    OBVIOUS
  <2>2. sagas[o].state \in Running /\ o \notin overwritten
    BY <1>2, <1>3, <1>4, <2>1
  <2>3. (Releases \cup {"cmd.payment.refund"}) \cap staged'[o] = {}
    BY <1>4, <2>2 DEF FootprintInv, CountInv, GivenUp, Running, Releases
  <2>4. QED
    BY <1>2, <1>4, <2>3, StepTables DEF CountInv, GivenUp, Releases
<1>8. (o \notin timedOut => TimelyInv(o))'
  BY <1>1, <1>2, <1>3, <1>4 DEF FootprintInv, TimelyInv, GivenUp
<1>9. QED
  BY <1>4, <1>5, <1>6, <1>7, <1>8 DEF FootprintInv

(* The compensations a saga may have to send. *)
NoComps == {}
Refunding == {"cmd.payment.refund"}
Undoing == {"cmd.payment.refund", "cmd.inventory.release"}

(* What _begin_compensation writes and stages, with its count. *)
LEMMA CompensationWrites ==
    ASSUME NEW row \in SagaRow, NEW comps, comps = NoComps \/ comps = Refunding \/ comps = Undoing
    PROVE  /\ CompensationRow(row, comps).awaiting = "none"
           /\ comps = NoComps => /\ CompensationRow(row, comps).state = "CANCELLED"
                                 /\ CompensationEvents(comps) = {"order.cancelled"}
           /\ comps = Refunding =>
                /\ CompensationRow(row, comps).state = "COMPENSATING"
                /\ CompensationRow(row, comps).comp_pending = 1
                /\ CompensationEvents(comps) = comps
           /\ comps = Undoing =>
                /\ CompensationRow(row, comps).state = "COMPENSATING"
                /\ CompensationRow(row, comps).comp_pending = 2
                /\ CompensationEvents(comps) = comps
<1> USE DEF NoComps, Refunding, Undoing
<1>1. /\ CompensationRow(row, comps).awaiting = "none"
      /\ comps = {} => CompensationRow(row, comps).state = "CANCELLED"
      /\ comps # {} => CompensationRow(row, comps).state = "COMPENSATING"
                       /\ CompensationRow(row, comps).comp_pending = Cardinality(comps)
  BY DEF CompensationRow, SetPending, SagaRow
<1>2. QED
  BY <1>1, CompensationsCount DEF CompensationEvents

LEMMA StepFailedKeepsFootprint ==
    ASSUME TypeOK, NEW o \in Order, OrderInv(o), FootprintInv(o),
           NEW step \in Step, StepFailed(o, step),
           UNCHANGED <<paymentVars, inventoryVars, shipments>>
    PROVE  FootprintInv(o)'
<1> DEFINE comps == Compensations(step, FALSE)
           row == CompensationRow(sagas[o], comps)
           events == CompensationEvents(comps)
<1>1. CommitHandle(o, row, events) /\ txn[o].event = STEP_FAIL[step] /\ Forward(o, step)
  BY DEF StepFailed
<1>2. /\ step = "charge" => txn[o].event = "reply.payment.failed" /\ comps = {}
      /\ step = "reserve" => txn[o].event = "reply.inventory.failed" /\ comps = {"cmd.payment.refund"}
      /\ step = "dispatch" => /\ txn[o].event = "reply.shipping.failed"
                              /\ comps = {"cmd.payment.refund", "cmd.inventory.release"}
      /\ step = "charge" \/ step = "reserve" \/ step = "dispatch"
  <2>1. step = "charge" \/ step = "reserve" \/ step = "dispatch"
    BY DEF Step
  <2>2. txn[o].event = STEP_FAIL[step]
    BY <1>1
  <2>3. CASE step = "charge"
    BY <2>2, <2>3, StepTables, CompensationsOf
  <2>4. CASE step = "reserve"
    BY <2>2, <2>4, StepTables, CompensationsOf
  <2>5. CASE step = "dispatch"
    BY <2>2, <2>5, StepTables, CompensationsOf
  <2> QED
    BY <2>1, <2>3, <2>4, <2>5
<1>3. /\ row.awaiting = "none"
      /\ step = "charge" => row.state = "CANCELLED" /\ events = {"order.cancelled"}
      /\ step = "reserve" => /\ row.state = "COMPENSATING" /\ row.comp_pending = 1
                             /\ events = {"cmd.payment.refund"}
      /\ step = "dispatch" => /\ row.state = "COMPENSATING" /\ row.comp_pending = 2
                              /\ events = {"cmd.payment.refund", "cmd.inventory.release"}
  <2>1. sagas[o] \in SagaRow
    BY DEF TypeOK, SagaTypeOK
  <2>2. comps = NoComps \/ comps = Refunding \/ comps = Undoing
    BY <1>2 DEF NoComps, Refunding, Undoing
  <2> HIDE DEF comps
  <2>3. /\ row.awaiting = "none"
        /\ comps = NoComps => row.state = "CANCELLED" /\ events = {"order.cancelled"}
        /\ comps = Refunding => row.state = "COMPENSATING" /\ row.comp_pending = 1 /\ events = comps
        /\ comps = Undoing => row.state = "COMPENSATING" /\ row.comp_pending = 2 /\ events = comps
    BY <2>1, <2>2, CompensationWrites
  <2> HIDE DEF row, events
  <2>4. QED
    BY <1>2, <2>3 DEF NoComps, Refunding, Undoing
<1> HIDE DEF comps, row, events
<1>4. /\ txn[o].event # "none" /\ txn[o].event \in staged[o] \ processed[o]
      /\ STEP_COMMAND[step] \in staged[o]
      /\ {STEP_OK[step], STEP_FAIL[step]} \cap processed[o] = {}
      /\ \/ txn[o].row = sagas[o] /\ sagas[o].awaiting = step /\ sagas[o].state \in Running
         \/ /\ txn[o].row # sagas[o] /\ sagas[o].state = "COMPENSATING"
            /\ sagas[o].awaiting = "none" /\ o \in timedOut
  BY <1>1, ForwardSnapshot
<1>5. events \cap Reply = {}
  BY <1>2, <1>3 DEF Reply
<1>6. /\ sagas'[o] = row /\ timedOut' = timedOut
      /\ staged'[o] = staged[o] \cup events /\ processed'[o] = processed[o] \cup {txn[o].event}
      /\ payments' = payments /\ reservations' = reservations
      /\ o \in overwritten' <=> o \in overwritten \/ (row # sagas[o] /\ txn[o].row # sagas[o])
      /\ OpenInv(o)' /\ TablesInv(o)' /\ Unanswered(txn'[o].row, processed'[o])
      /\ txn'[o].row.awaiting = "none" /\ txn'[o].event = "none"
  BY <1>1, <1>4, <1>5, HandlerFrame
<1>7. FreshInv(o)' /\ CompletedInv(o)' /\ AwaitedInv(o)'
  BY <1>2, <1>3, <1>6 DEF FreshInv, CompletedInv, AwaitedInv, Unanswered
(* The answers to the failed step, and so to the steps after it, were never handled. *)
<1>8. /\ step = "charge" => /\ "cmd.inventory.reserve" \notin staged[o]
                            /\ "cmd.shipping.dispatch" \notin staged[o]
                            /\ "reply.inventory.reserved" \notin processed[o]
      /\ step = "reserve" => /\ "cmd.shipping.dispatch" \notin staged[o]
                             /\ "reply.inventory.reserved" \notin processed[o]
                             /\ "reply.payment.charged" \in processed[o]
                             /\ "reply.payment.failed" \notin staged[o]
      /\ step = "dispatch" => /\ "reply.payment.charged" \in processed[o]
                              /\ "reply.inventory.reserved" \in processed[o]
                              /\ "reply.payment.failed" \notin staged[o]
                              /\ "reply.inventory.failed" \notin staged[o]
  BY <1>4, StepTables, Causes
<1>9. ReleaseInv(o)'
  <2>1. "cmd.inventory.release.late" \in staged'[o] => "reply.inventory.reserved" \in processed'[o]
    BY <1>2, <1>3, <1>6 DEF FootprintInv, ReleaseInv
  <2>2. ASSUME o \in reservations, "reply.inventory.reserved" \in processed'[o]
        PROVE  Pending(o, Releases)' # {}
    <3>1. step = "dispatch" /\ "reply.inventory.reserved" \in processed[o]
      BY <1>2, <1>6, <1>8, <2>2
    <3>2. CASE sagas[o].state \in Running
      <4>1. "cmd.inventory.release" \notin processed[o]
        BY <2>2, <3>1, <3>2 DEF FootprintInv, ReleaseInv
      <4>2. QED
        BY <1>2, <1>3, <1>6, <3>1, <4>1 DEF Pending, Releases
    <3>3. CASE sagas[o].state = "COMPENSATING"
      <4>1. Pending(o, Releases) # {}
        BY <2>2, <3>1, <3>3 DEF FootprintInv, ReleaseInv
      <4>2. QED
        BY <1>2, <1>6, <3>1, <4>1 DEF Pending, Releases
    <3>4. QED
      BY <1>4, <3>2, <3>3
  <2>3. sagas'[o].state \notin Running /\ sagas'[o].awaiting = "none"
    BY <1>2, <1>3, <1>6 DEF Running
  <2>4. QED
    BY <1>6, <2>1, <2>2, <2>3 DEF ReleaseInv
<1>10. (o \notin overwritten => CountInv(o))'
  <2>1. SUFFICES ASSUME o \notin overwritten' PROVE CountInv(o)'
    OBVIOUS
  <2>2. o \notin overwritten /\ CountInv(o)
    BY <1>6, <2>1 DEF FootprintInv
  <2>3. GivenUp(o)'
    BY <1>2, <1>3, <1>6 DEF GivenUp
  <2>4. /\ Due(o)' \subseteq {"charge", "reserve"}
        /\ "charge" \in Due(o)' <=>
            "cmd.payment.refund" \in staged'[o] /\ "reply.payment.refunded" \notin processed[o]
        /\ "reserve" \in Due(o)' <=>
            "cmd.inventory.release" \in staged'[o] /\ "reply.inventory.released" \notin processed[o]
    BY <1>2, <1>6, DueMembersNext
  <2>5. CASE txn[o].row = sagas[o]
    <3>1. (Releases \cup {"cmd.payment.refund"}) \cap staged[o] = {}
      BY <1>4, <2>2, <2>5 DEF CountInv, GivenUp, Running
    <3>2. "reply.payment.refunded" \notin staged[o] /\ "reply.inventory.released" \notin staged[o]
      BY <3>1, Causes DEF FootprintInv, TablesInv, Releases
    <3>3. /\ "charge" \in Due(o)' <=> step # "charge"
          /\ "reserve" \in Due(o)' <=> step = "dispatch"
      BY <1>2, <1>3, <1>6, <2>4, <3>1, <3>2, Causes DEF Releases
    <3>4. /\ step = "charge" => Due(o)' = {}
          /\ step = "reserve" => Cardinality(Due(o)') = 1
          /\ step = "dispatch" => Cardinality(Due(o)') = 2
      BY <2>4, <3>3, DueCount
    <3>5. /\ "cmd.payment.charge" \in staged'[o] =>
                "cmd.payment.refund" \in staged'[o] \/ "reply.payment.failed" \in staged'[o]
          /\ "cmd.inventory.reserve" \in staged'[o] =>
                "cmd.inventory.release" \in staged'[o] \/ "reply.inventory.failed" \in staged'[o]
          /\ "cmd.inventory.release.late" \notin staged'[o]
      BY <1>2, <1>3, <1>4, <1>6, <1>8, <3>1 DEF Releases
    <3>6. QED
      BY <1>2, <1>3, <1>6, <2>3, <3>4, <3>5, StepTables DEF CountInv
  <2>6. CASE txn[o].row # sagas[o]
    <3>1. row = sagas[o] /\ sagas[o].state = "COMPENSATING" /\ step # "charge"
      BY <1>3, <1>4, <1>6, <2>1, <2>6
    <3>2. events \subseteq staged[o]
      <4>1. "cmd.payment.charge" \in staged[o] /\ (step = "dispatch" => "cmd.inventory.reserve" \in staged[o])
        BY <1>2, <1>8, <3>1, Causes
      <4>2. QED
        BY <1>2, <1>3, <1>8, <2>2, <3>1, <4>1 DEF CountInv, GivenUp
    <3>3. Due(o)' = Due(o)
      BY <1>2, <1>6, <3>2, SameDue
    <3>4. staged'[o] = staged[o] /\ sagas'[o] = sagas[o]
      BY <1>6, <3>1, <3>2
    <3>5. QED
      BY <1>6, <2>2, <3>3, <3>4, StepTables DEF CountInv, GivenUp
  <2>7. QED
    BY <2>5, <2>6
<1>11. (o \notin timedOut => TimelyInv(o))'
  <2>1. SUFFICES ASSUME o \notin timedOut PROVE TimelyInv(o)'
    BY <1>6
  <2>2. /\ TimelyInv(o) /\ CountInv(o) /\ o \notin overwritten
        /\ txn[o].row = sagas[o] /\ sagas[o].state \in Running
    BY <1>4, <2>1 DEF FootprintInv, TimelyInv
  <2>3. (Releases \cup {"cmd.payment.refund"}) \cap staged[o] = {}
    BY <2>2 DEF CountInv, GivenUp, Running
  <2>4. /\ "cmd.payment.refund" \in staged'[o] => "reply.payment.charged" \in processed'[o]
        /\ "cmd.inventory.release" \in staged'[o] => "reply.inventory.reserved" \in processed'[o]
        /\ "cmd.inventory.release.late" \notin staged'[o]
        /\ "cmd.payment.refund" \notin processed'[o] /\ "cmd.inventory.release" \notin processed'[o]
    BY <1>2, <1>3, <1>6, <1>8, <2>3, Causes DEF Releases
  <2>5. /\ "cmd.inventory.reserve" \in staged'[o] =>
            "reply.inventory.reserved" \in processed'[o] \/ "reply.inventory.failed" \in staged'[o]
        /\ "cmd.shipping.dispatch" \in staged'[o] => "reply.shipping.failed" \in staged'[o]
    BY <1>2, <1>3, <1>4, <1>6, <1>8
  <2>6. o \notin overwritten'
    BY <1>6, <2>2
  <2>7. QED
    BY <1>6, <2>4, <2>5, <2>6 DEF TimelyInv
<1>12. QED
  BY <1>6, <1>7, <1>9, <1>10, <1>11 DEF FootprintInv


(* A compensating reply is the answer to a compensation that was due. *)
LEMMA CompensatingReplyKeepsFootprint ==
    ASSUME TypeOK, NEW o \in Order, OrderInv(o), FootprintInv(o), CountDown(o) \/ FinishCancelled(o),
           UNCHANGED <<paymentVars, inventoryVars, shipments>>
    PROVE  FootprintInv(o)'
<1>1. /\ txn[o].event \in {"reply.payment.refunded", "reply.inventory.released"}
      /\ txn[o].event # "none"
      /\ txn[o].row = sagas[o] /\ sagas[o] \in SagaRow
      /\ sagas[o].state = "COMPENSATING" /\ sagas[o].awaiting = "none"
  <2>1. /\ txn[o].event \in {"reply.payment.refunded", "reply.inventory.released"}
        /\ txn[o].row.state = "COMPENSATING"
    BY StepTables DEF CountDown, FinishCancelled
  <2>2. txn[o].row = sagas[o]
    BY <2>1, SettledSnapshot DEF Running
  <2>3. QED
    BY <2>1, <2>2 DEF OrderInv, TxnInv, RowInv, Running, TypeOK, SagaTypeOK
<1>2. PICK row, events :
        /\ CommitHandle(o, row, events) /\ events \subseteq {"order.cancelled"}
        /\ row.awaiting = "none"
        /\ \/ row.state = "COMPENSATING" /\ sagas[o].comp_pending > 1
           \/ row.state = "CANCELLED" /\ sagas[o].comp_pending <= 1
        /\ row.comp_pending = sagas[o].comp_pending - 1
  <2>1. CASE CountDown(o)
    <3> DEFINE row == [sagas[o] EXCEPT !.comp_pending = @ - 1]
    <3>1. /\ row.state = "COMPENSATING" /\ row.awaiting = "none"
          /\ row.comp_pending = sagas[o].comp_pending - 1
      BY <1>1 DEF SagaRow
    <3>2. CommitHandle(o, row, {}) /\ sagas[o].comp_pending > 1
      BY <2>1 DEF CountDown
    <3> HIDE DEF row
    <3>3. QED
      BY <3>1, <3>2
  <2>2. CASE FinishCancelled(o)
    <3> DEFINE row == SetPending(sagas[o], "CANCELLED", sagas[o].comp_pending - 1)
    <3>1. /\ row.state = "CANCELLED" /\ row.awaiting = "none"
          /\ row.comp_pending = sagas[o].comp_pending - 1
      BY <1>1 DEF SagaRow, SetPending
    <3>2. CommitHandle(o, row, {"order.cancelled"}) /\ sagas[o].comp_pending <= 1
      BY <2>2 DEF FinishCancelled
    <3> HIDE DEF row
    <3>3. QED
      BY <3>1, <3>2
  <2>3. QED
    BY <2>1, <2>2
<1>3. /\ sagas'[o] = row /\ timedOut' = timedOut
      /\ staged'[o] = staged[o] \cup events /\ processed'[o] = processed[o] \cup {txn[o].event}
      /\ payments' = payments /\ reservations' = reservations
      /\ o \in overwritten' <=> o \in overwritten
      /\ OpenInv(o)' /\ TablesInv(o)' /\ Unanswered(txn'[o].row, processed'[o])
      /\ txn'[o].row.awaiting = "none" /\ txn'[o].event = "none"
  <2>1. events \cap Reply = {}
    BY <1>2 DEF Reply
  <2>2. QED
    BY <1>1, <1>2, <2>1, HandlerFrame
<1>4. FreshInv(o)' /\ CompletedInv(o)' /\ AwaitedInv(o)'
  BY <1>2, <1>3 DEF FreshInv, CompletedInv, AwaitedInv, Unanswered
<1>5. ReleaseInv(o)'
  BY <1>1, <1>2, <1>3 DEF FootprintInv, ReleaseInv, Pending, Releases, Running
<1>6. (o \notin overwritten => CountInv(o))'
  <2>1. SUFFICES ASSUME o \notin overwritten' PROVE CountInv(o)'
    OBVIOUS
  <2>2. CountInv(o)
    BY <1>3, <2>1 DEF FootprintInv
  <2>3. txn[o].event \in staged[o] \ processed[o]
    BY <1>1 DEF OrderInv, TxnInv, FootprintInv, OpenInv
  <2>4. /\ txn[o].event = "reply.payment.refunded" =>
            "charge" \in Due(o) /\ "charge" \notin Due(o)' /\ ("reserve" \in Due(o)' <=> "reserve" \in Due(o))
        /\ txn[o].event = "reply.inventory.released" =>
            "reserve" \in Due(o) /\ "reserve" \notin Due(o)' /\ ("charge" \in Due(o)' <=> "charge" \in Due(o))
    <3>1. txn[o].event = "reply.payment.refunded" => "cmd.payment.refund" \in staged[o]
      BY <2>3, Causes DEF FootprintInv, TablesInv
    <3>2. txn[o].event = "reply.inventory.released" => "cmd.inventory.release" \in staged[o]
      BY <2>2, <2>3, Causes DEF FootprintInv, TablesInv, Releases, CountInv
    <3>3. \A c \in {"cmd.payment.refund", "cmd.inventory.release"} : c \in staged'[o] <=> c \in staged[o]
      BY <1>2, <1>3
    <3>4. QED
      BY <1>3, <2>3, <3>1, <3>2, <3>3, DueMembers, DueMembersNext
  <2>5. /\ Cardinality(Due(o)') = Cardinality(Due(o)) - 1
        /\ Cardinality(Due(o)) <= 1 => Due(o)' = {}
        /\ Cardinality(Due(o)) \in Int
    <3> DEFINE D == Due(o)
               E == Due(o)'
    <3>1. D \in SUBSET {"charge", "reserve"} /\ E \in SUBSET {"charge", "reserve"}
      BY DueMembers, DueMembersNext
    <3>2. \/ "charge" \in D /\ "charge" \notin E /\ ("reserve" \in E <=> "reserve" \in D)
          \/ "reserve" \in D /\ "reserve" \notin E /\ ("charge" \in E <=> "charge" \in D)
      BY <1>1, <2>4
    <3> HIDE DEF D, E
    <3>3. /\ Cardinality(E) = Cardinality(D) - 1
          /\ Cardinality(D) <= 1 => E = {}
          /\ Cardinality(D) \in Int
      BY <3>1, <3>2, DueCount
    <3>4. QED
      BY <3>3 DEF D, E
  <2>6. sagas[o].comp_pending = Cardinality(Due(o))
    BY <1>1, <2>2 DEF CountInv
  <2>7. /\ sagas'[o].state = "COMPENSATING" => sagas'[o].comp_pending = Cardinality(Due(o)')
        /\ sagas'[o].state = "CANCELLED" => Due(o)' = {}
    BY <1>2, <1>3, <2>5, <2>6
  <2>8. /\ GivenUp(o) /\ GivenUp(o)' /\ txn'[o].event \notin COMP_OK
        /\ \A e \in Command \cup Reply : e \in staged'[o] <=> e \in staged[o]
    BY <1>1, <1>2, <1>3, StepTables DEF GivenUp, Command, Reply
  <2>9. QED
    BY <2>2, <2>7, <2>8 DEF CountInv, Command, Reply
<1>7. (o \notin timedOut => TimelyInv(o))'
  BY <1>1, <1>2, <1>3 DEF FootprintInv, TimelyInv, GivenUp
<1>8. QED
  BY <1>3, <1>4, <1>5, <1>6, <1>7 DEF FootprintInv

(* A reservation that comes late: the first release was staged, and the second is pending. *)
LEMMA LateReserveKeepsFootprint ==
    ASSUME TypeOK, NEW o \in Order, OrderInv(o), FootprintInv(o), LateReserve(o),
           UNCHANGED <<paymentVars, inventoryVars, shipments>>
    PROVE  FootprintInv(o)'
<1> DEFINE events == {"cmd.inventory.release.late"}
<1>1. /\ CommitHandle(o, sagas[o], events) /\ events \cap Reply = {}
      /\ txn[o].event = "reply.inventory.reserved" /\ txn[o].event # "none"
      /\ txn[o].row = sagas[o] /\ sagas[o].state \in {"COMPENSATING", "CANCELLED", "COMPLETED"}
      /\ "reply.inventory.reserved" \in staged[o] \ processed[o]
  BY SettledSnapshot DEF LateReserve, Running, Reply, OrderInv, TxnInv, FootprintInv, OpenInv
<1>2. /\ sagas'[o] = sagas[o] /\ timedOut' = timedOut
      /\ staged'[o] = staged[o] \cup events
      /\ processed'[o] = processed[o] \cup {"reply.inventory.reserved"}
      /\ payments' = payments /\ reservations' = reservations
      /\ o \in overwritten' <=> o \in overwritten
      /\ OpenInv(o)' /\ TablesInv(o)' /\ Unanswered(txn'[o].row, processed'[o])
      /\ txn'[o].row.awaiting = "none" /\ txn'[o].event = "none"
  BY <1>1, HandlerFrame
<1>3. GivenUp(o)
  BY <1>1, Causes DEF FootprintInv, CompletedInv, GivenUp
<1>4. sagas[o].awaiting = "none" /\ sagas[o].state \notin Running
  BY <1>3 DEF OrderInv, TxnInv, RowInv, Running, GivenUp
<1>5. FreshInv(o)' /\ CompletedInv(o)' /\ AwaitedInv(o)'
  BY <1>2, <1>3, <1>4 DEF FreshInv, CompletedInv, AwaitedInv, Unanswered, GivenUp
<1>6. ReleaseInv(o)'
  <2>1. "cmd.inventory.release.late" \notin processed[o]
    BY <1>1, Causes DEF FootprintInv, ReleaseInv
  <2>2. Pending(o, Releases)' # {}
    BY <1>2, <2>1 DEF Pending, Releases
  <2>3. QED
    BY <1>2, <1>4, <2>2 DEF FootprintInv, ReleaseInv
<1>7. (o \notin overwritten => CountInv(o))'
  <2>1. SUFFICES ASSUME o \notin overwritten' PROVE CountInv(o)'
    OBVIOUS
  <2>2. CountInv(o)
    BY <1>2, <2>1 DEF FootprintInv
  <2>3. "cmd.inventory.release" \in staged[o]
    BY <1>1, <1>3, <2>2, Causes DEF CountInv
  <2>4. Due(o)' = Due(o)
    BY <1>2, SameDue
  <2>5. QED
    BY <1>2, <1>3, <2>2, <2>3, <2>4, StepTables DEF CountInv, GivenUp
<1>8. o \in timedOut
  BY <1>1, <1>3, Causes DEF FootprintInv, TimelyInv
<1>9. QED
  BY <1>2, <1>5, <1>6, <1>7, <1>8 DEF FootprintInv

(* An event without effect: it is not the awaited answer, nor a reply that is counted. *)
LEMMA IgnoreKeepsFootprint ==
    ASSUME TypeOK, NEW o \in Order, OrderInv(o), FootprintInv(o), IgnoreEvent(o),
           UNCHANGED <<paymentVars, inventoryVars, shipments>>
    PROVE  FootprintInv(o)'
<1>1. /\ CommitHandle(o, sagas[o], {}) /\ Ignored(txn[o].event, txn[o].row)
      /\ txn[o].event # "none" /\ txn[o].event \in staged[o] \ processed[o]
      /\ txn[o].event \in Reply \cup {"order.placed"}
  <2>1. CommitHandle(o, sagas[o], {}) /\ Ignored(txn[o].event, txn[o].row) /\ txn[o].event # "none"
    BY DEF IgnoreEvent, Ignored, Reply
  <2>2. QED
    BY <2>1 DEF OrderInv, TxnInv, FootprintInv, OpenInv
<1>2. /\ sagas'[o] = sagas[o] /\ timedOut' = timedOut /\ staged'[o] = staged[o]
      /\ processed'[o] = processed[o] \cup {txn[o].event}
      /\ payments' = payments /\ reservations' = reservations
      /\ o \in overwritten' <=> o \in overwritten
      /\ OpenInv(o)' /\ TablesInv(o)' /\ Unanswered(txn'[o].row, processed'[o])
      /\ txn'[o].row.awaiting = "none" /\ txn'[o].event = "none"
  <2> DEFINE row == sagas[o]
             events == {}
  <2>1. /\ CommitHandle(o, row, events) /\ events \cap Reply = {}
        /\ row = sagas[o] /\ staged[o] \cup events = staged[o]
    BY <1>1
  <2> HIDE DEF row, events
  <2>2. /\ sagas'[o] = row /\ timedOut' = timedOut /\ staged'[o] = staged[o] \cup events
        /\ processed'[o] = processed[o] \cup {txn[o].event}
        /\ payments' = payments /\ reservations' = reservations
        /\ o \in overwritten' <=>
            o \in overwritten \/ (row # sagas[o] /\ txn[o].row # sagas[o])
        /\ OpenInv(o)' /\ TablesInv(o)' /\ Unanswered(txn'[o].row, processed'[o])
        /\ txn'[o].row.awaiting = "none" /\ txn'[o].event = "none"
    BY <1>1, <2>1, HandlerFrame
  <2>3. QED
    BY <2>1, <2>2
<1>3. \/ txn[o].row = sagas[o]
      \/ txn[o].row.state \in Running /\ sagas[o].state = "COMPENSATING"
  BY <1>1 DEF OrderInv, TxnInv
<1>4. /\ RowInv(sagas[o], staged[o]) /\ RowInv(txn[o].row, staged[o])
      /\ Unanswered(txn[o].row, processed[o]) /\ Unanswered(sagas[o], processed[o])
  BY DEF OrderInv, TxnInv, FootprintInv, AwaitedInv
<1>5. txn[o].row.state \in Running =>
        txn[o].row.awaiting \in Step /\ txn[o].event \notin {STEP_OK[txn[o].row.awaiting],
                                                              STEP_FAIL[txn[o].row.awaiting]}
  <2>1. txn[o].row.awaiting \in Step \cup {"none"}
    BY DEF TypeOK, SagaTypeOK, SagaRow
  <2>2. SUFFICES ASSUME txn[o].row.state \in Running
                 PROVE  /\ txn[o].row.awaiting \in Step
                        /\ txn[o].event \notin {STEP_OK[txn[o].row.awaiting],
                                                 STEP_FAIL[txn[o].row.awaiting]}
    OBVIOUS
  <2>3. txn[o].row.awaiting \in Step
    BY <1>4, <2>1, <2>2 DEF RowInv
  <2>4. CASE txn[o].event = "order.placed"
    BY <2>3, <2>4, StepTables DEF Step
  <2>5. CASE txn[o].event # "order.placed"
    BY <1>1, <2>2, <2>3, <2>5 DEF Ignored, Running, Step
  <2>6. QED
    BY <2>3, <2>4, <2>5
<1>6. FreshInv(o)' /\ CompletedInv(o)'
  BY <1>2 DEF FootprintInv, FreshInv, CompletedInv
<1>7. AwaitedInv(o)'
  <2>1. sagas[o].awaiting # "none" => txn[o].row = sagas[o] /\ sagas[o].state \in Running
    BY <1>3, <1>4 DEF RowInv, Running
  <2>2. Unanswered(sagas[o], processed'[o])
    BY <1>2, <1>4, <1>5, <2>1, StepTables DEF Unanswered
  <2>3. QED
    BY <1>2, <2>2 DEF AwaitedInv
(* A reservation's reply is ignored only while it is awaited by nobody: never. *)
<1>8. txn[o].event = "reply.inventory.reserved" => sagas[o].state = "NONE"
  <2>1. SUFFICES ASSUME txn[o].event = "reply.inventory.reserved" PROVE sagas[o].state = "NONE"
    OBVIOUS
  <2>2. "reply.payment.charged" \in processed[o] /\ "reply.inventory.reserved" \notin processed[o]
    BY <1>1, <2>1, Causes
  <2>3. /\ txn[o].row.awaiting # "charge" /\ txn[o].row.awaiting # "dispatch"
    BY <1>4, <2>2, Causes, RunningRow DEF Unanswered
  <2>4. txn[o].row.state \notin Running
    BY <1>5, <2>1, <2>3, StepTables DEF Step
  <2>5. txn[o].row = sagas[o] /\ txn[o].row.state = "NONE"
    BY <1>1, <1>3, <2>1, <2>4 DEF Ignored, Running, Reply
  <2>6. QED
    BY <2>5
<1>9. ReleaseInv(o)'
  <2>1. /\ "cmd.inventory.release" \in processed'[o] <=> "cmd.inventory.release" \in processed[o]
        /\ Pending(o, Releases)' = Pending(o, Releases)
    BY <1>1, <1>2 DEF Pending, Releases, Reply
  <2>2. QED
    BY <1>2, <1>8, <2>1 DEF FootprintInv, ReleaseInv, Running
<1>10. (o \notin overwritten => CountInv(o))'
  <2>1. SUFFICES ASSUME o \notin overwritten' PROVE CountInv(o)'
    OBVIOUS
  <2>2. CountInv(o)
    BY <1>2, <2>1 DEF FootprintInv
  <2>3. txn[o].event \in COMP_OK => sagas[o].state = "CANCELLED"
    BY <1>1, <1>3, <2>2, StepTables DEF CountInv, Ignored, Running
  <2>4. sagas[o].state # "CANCELLED" => Due(o)' = Due(o)
    BY <1>1, <1>2, <2>3, StepTables, SameDue
  <2>5. sagas[o].state = "CANCELLED" => Due(o)' = {}
    <3>1. "charge" \in Due(o)' => "charge" \in Due(o)
      BY <1>2, DueMembers, DueMembersNext
    <3>2. "reserve" \in Due(o)' => "reserve" \in Due(o)
      BY <1>2, DueMembers, DueMembersNext
    <3>3. Due(o)' \subseteq {"charge", "reserve"}
      BY DueMembersNext
    <3>4. QED
      BY <2>2, <3>1, <3>2, <3>3 DEF CountInv
  <2>6. QED
    BY <1>2, <2>2, <2>4, <2>5, StepTables DEF CountInv, GivenUp
<1>11. (o \notin timedOut => TimelyInv(o))'
  BY <1>1, <1>2 DEF FootprintInv, TimelyInv, GivenUp, Reply
<1>12. QED
  BY <1>2, <1>6, <1>7, <1>9, <1>10, <1>11 DEF FootprintInv

LEMMA CommitKeepsFootprint ==
    ASSUME TypeOK, NEW o \in Order, OrderInv(o), FootprintInv(o), Commit(o)
    PROVE  FootprintInv(o)'
<1>1. UNCHANGED <<paymentVars, inventoryVars, shipments>>
  BY DEF Commit
<1>2. ASSUME NEW step \in Step, StepSucceeded(o, step)
      PROVE  FootprintInv(o)'
  BY <1>1, <1>2, StepSucceededKeepsFootprint DEF StepSucceeded, Step
<1>3. QED
  BY <1>1, <1>2, StartSagaKeepsFootprint, StepFailedKeepsFootprint, FinishCompletedKeepsFootprint,
     CompensatingReplyKeepsFootprint, LateReserveKeepsFootprint, IgnoreKeepsFootprint
     DEF Commit, CommitStep


-----------------------------------------------------------------------------
(* Opening a transaction, losing it, dead-lettering an event, and a scan. *)
LEMMA TxnKeepsFootprint ==
    ASSUME TypeOK, NEW o \in Order, OrderInv(o), FootprintInv(o),
           Begin(o) \/ Abort(o) \/ (\E e \in Event : Lose(o, e))
    PROVE  FootprintInv(o)'
<1>1. /\ staged' = staged /\ processed' = processed /\ sagas' = sagas
      /\ timedOut' = timedOut /\ overwritten' = overwritten
      /\ payments' = payments /\ reservations' = reservations /\ shipments' = shipments
  BY DEF Begin, BeginHandle, Abort, AbortHandle, Lose, DeadLetter, sagaVars, busVars,
         paymentVars, inventoryVars
<1>2. CASE txn'[o] = txn[o]
  BY <1>1, <1>2, SameFootprint
<1>3. ASSUME NEW event \in Event \cup {"none"}, NEW row,
             txn'[o] = [event |-> event, row |-> row],
             \/ event = "none" /\ row = NoRow
             \/ /\ event \in (Reply \cup {"order.placed"}) \cap (staged[o] \ processed[o])
                /\ row = sagas[o]
      PROVE  FootprintInv(o)'
  <2>1. /\ txn'[o].event = event /\ txn'[o].row = row
        /\ NoRow.awaiting = "none" /\ NoRow.state = "NONE" /\ "none" \notin Reply
    BY <1>3 DEF NoRow, Reply
  <2>2. OpenInv(o)' /\ FreshInv(o)' /\ TablesInv(o)' /\ CompletedInv(o)'
    BY <1>1, <1>3, <2>1 DEF FootprintInv, OpenInv, FreshInv, TablesInv, CompletedInv
  <2>3. AwaitedInv(o)'
    BY <1>1, <1>3, <2>1 DEF FootprintInv, AwaitedInv, Unanswered
  <2>4. ReleaseInv(o)'
    BY <1>1, <1>3, <2>1, Causes DEF FootprintInv, ReleaseInv, Pending
  <2>5. (o \notin overwritten => CountInv(o))'
    <3>1. SUFFICES ASSUME o \notin overwritten PROVE CountInv(o)'
      BY <1>1
    <3>2. CountInv(o) /\ Due(o)' = Due(o)
      BY <1>1, <3>1, SameDue DEF FootprintInv
    <3>3. event \in COMP_OK => row.state \in {"COMPENSATING", "CANCELLED"}
      BY <1>3, <3>2, StepTables, Causes DEF FootprintInv, TablesInv, CountInv, GivenUp, Releases
    <3>4. QED
      BY <1>1, <2>1, <3>2, <3>3 DEF CountInv, GivenUp
  <2>6. (o \notin timedOut => TimelyInv(o))'
    BY <1>1, <1>3, <2>1 DEF FootprintInv, TimelyInv, GivenUp
  <2>7. QED
    BY <2>2, <2>3, <2>4, <2>5, <2>6 DEF FootprintInv
<1>4. CASE Begin(o)
  <2>1. PICK e \in Reply \cup {"order.placed"} : BeginHandle(o, e)
    BY <1>4 DEF Begin
  <2>2. txn'[o] = [event |-> e, row |-> sagas[o]] /\ e \in staged[o] \ processed[o] /\ e \in Event
    BY <2>1 DEF BeginHandle, FirstTime, TypeOK, SagaTypeOK, Event, OrderEvent
  <2>3. QED
    BY <1>3, <2>1, <2>2
<1>5. CASE Abort(o)
  <2>1. txn'[o] = [event |-> "none", row |-> NoRow]
    BY <1>5 DEF Abort, AbortHandle, TypeOK, SagaTypeOK, Closed
  <2>2. QED
    BY <1>3, <2>1
<1>6. CASE \E e \in Event : Lose(o, e)
  BY <1>2, <1>6 DEF Lose, sagaVars
<1>7. QED
  BY <1>4, <1>5, <1>6

(* The scan stages the compensations of a saga that had none, and counts them. *)
LEMMA TimeoutKeepsFootprint ==
    ASSUME TypeOK, NEW o \in Order, OrderInv(o), FootprintInv(o),
           NEW S \in SUBSET Order, Timeout(S), o \in S
    PROVE  FootprintInv(o)'
<1> DEFINE step == sagas[o].awaiting
           comps == Compensations(step, TRUE)
           row == CompensationRow(sagas[o], comps)
           events == CompensationEvents(comps)
<1>1. /\ step \in Step /\ sagas[o] \in SagaRow
      /\ sagas'[o] = row /\ staged'[o] = staged[o] \cup events
      /\ processed' = processed /\ txn' = txn /\ overwritten' = overwritten /\ o \in timedOut'
      /\ payments' = payments /\ reservations' = reservations /\ shipments' = shipments
  BY DEF Timeout, Watchdog, TimedOut, TypeOK, SagaTypeOK, SagaRow, paymentVars, inventoryVars
<1>2. /\ step = "charge" => comps = {"cmd.payment.refund"}
      /\ step \in {"reserve", "dispatch"} => comps = {"cmd.payment.refund", "cmd.inventory.release"}
  BY CompensationsOf
<1>3. /\ row.awaiting = "none" /\ row.state = "COMPENSATING"
      /\ step = "charge" => row.comp_pending = 1 /\ events = {"cmd.payment.refund"}
      /\ step \in {"reserve", "dispatch"} =>
            row.comp_pending = 2 /\ events = {"cmd.payment.refund", "cmd.inventory.release"}
  <2>1. comps = Refunding \/ comps = Undoing
    BY <1>1, <1>2 DEF Step, Refunding, Undoing
  <2>2. (step = "charge" \/ step \in {"reserve", "dispatch"}) /\ sagas[o] \in SagaRow
    BY <1>1 DEF Step
  <2> HIDE DEF step, comps
  <2>3. /\ row.awaiting = "none"
        /\ comps = Refunding => row.state = "COMPENSATING" /\ row.comp_pending = 1 /\ events = comps
        /\ comps = Undoing => row.state = "COMPENSATING" /\ row.comp_pending = 2 /\ events = comps
    BY <2>1, <2>2, CompensationWrites
  <2> HIDE DEF row, events
  <2>4. CASE step = "charge"
    BY <1>2, <2>3, <2>4 DEF Refunding
  <2>5. CASE step \in {"reserve", "dispatch"}
    BY <1>2, <2>3, <2>5 DEF Undoing
  <2>6. QED
    BY <2>2, <2>4, <2>5
<1>4. /\ RowInv(sagas[o], staged[o]) /\ Unanswered(sagas[o], processed[o])
      /\ sagas[o].state \in Running
  BY <1>1 DEF OrderInv, TxnInv, RowInv, FootprintInv, AwaitedInv, Step
<1>5. txn[o].event # "none" => txn[o].row = sagas[o]
  BY <1>4 DEF OrderInv, TxnInv, Running
<1>6. /\ step = "charge" => /\ "cmd.payment.charge" \in staged[o]
                            /\ "cmd.inventory.reserve" \notin staged[o]
                            /\ "reply.inventory.reserved" \notin processed[o]
      /\ step = "reserve" => "reply.inventory.reserved" \notin processed[o]
      /\ step = "charge" \/ step = "reserve" \/ step = "dispatch"
  BY <1>1, <1>4, RunningRow, Causes DEF Unanswered, Step
<1> HIDE DEF step, comps, row, events
<1>7. OpenInv(o)' /\ FreshInv(o)' /\ CompletedInv(o)'
  BY <1>1, <1>3 DEF FootprintInv, OpenInv, FreshInv, CompletedInv
<1>8. AwaitedInv(o)'
  BY <1>1, <1>3 DEF FootprintInv, AwaitedInv, Unanswered
<1>9. TablesInv(o)'
  BY <1>1, <1>3, <1>6 DEF FootprintInv, TablesInv
<1>10. ReleaseInv(o)'
  <2>1. txn[o].row.awaiting = "charge" => "cmd.inventory.release" \notin staged'[o]
    <3>1. txn[o].row.awaiting = "charge" => step = "charge"
      BY <1>5 DEF FootprintInv, OpenInv, NoRow, step
    <3>2. QED
      BY <1>1, <1>3, <3>1 DEF FootprintInv, ReleaseInv
  <2>2. ASSUME o \in reservations, "reply.inventory.reserved" \in processed[o]
        PROVE  Pending(o, Releases)' # {}
    <3>1. step = "dispatch" /\ "cmd.inventory.release" \notin processed[o]
      BY <1>4, <1>6, <2>2 DEF FootprintInv, ReleaseInv
    <3>2. QED
      BY <1>1, <1>3, <3>1 DEF Pending, Releases
  <2>3. sagas'[o].state \notin Running /\ sagas'[o].awaiting = "none"
    BY <1>1, <1>3 DEF Running
  <2>4. "cmd.inventory.release.late" \in staged'[o] => "reply.inventory.reserved" \in processed'[o]
    BY <1>1, <1>3, <1>6 DEF FootprintInv, ReleaseInv
  <2>5. QED
    BY <1>1, <2>1, <2>2, <2>3, <2>4 DEF FootprintInv, ReleaseInv
<1>11. (o \notin overwritten => CountInv(o))'
  <2>1. SUFFICES ASSUME o \notin overwritten PROVE CountInv(o)'
    BY <1>1
  <2>2. CountInv(o) /\ (Releases \cup {"cmd.payment.refund"}) \cap staged[o] = {}
    BY <1>4, <2>1 DEF FootprintInv, CountInv, GivenUp, Running
  <2>3. "reply.payment.refunded" \notin processed[o] /\ "reply.inventory.released" \notin processed[o]
    BY <2>2, Causes DEF FootprintInv, TablesInv, Releases
  <2>4. /\ Due(o)' \in SUBSET {"charge", "reserve"}
        /\ "charge" \in Due(o)'
        /\ "reserve" \in Due(o)' <=> step # "charge"
    BY <1>1, <1>3, <1>6, <2>2, <2>3, DueMembersNext DEF Releases
  <2>5. sagas'[o].comp_pending = Cardinality(Due(o)')
    BY <1>1, <1>3, <1>6, <2>4, DueCount
  <2>6. /\ "cmd.payment.refund" \in staged'[o]
        /\ "cmd.inventory.reserve" \in staged'[o] => "cmd.inventory.release" \in staged'[o]
        /\ "cmd.inventory.release.late" \notin staged'[o]
    BY <1>1, <1>3, <1>6, <2>2 DEF Releases
  <2>7. txn[o].event \notin COMP_OK
    BY <1>4, <1>5, <2>2, StepTables DEF CountInv, Running
  <2>8. QED
    BY <1>1, <1>3, <2>5, <2>6, <2>7 DEF CountInv, GivenUp
<1>12. QED
  BY <1>1, <1>7, <1>8, <1>9, <1>10, <1>11 DEF FootprintInv

(* What an action of order p does to the footprint of another: nothing. *)
LEMMA OthersFootprint ==
    ASSUME TypeOK, NEW o \in Order, FootprintInv(o), NEW p \in Order, p # o,
           \/ Place(p) \/ Close(p) \/ Pay(p) \/ Stock(p) \/ Ship(p)
           \/ Begin(p) \/ Commit(p) \/ Abort(p) \/ (\E e \in Event : Lose(p, e))
    PROVE  FootprintInv(o)'
<1>1. /\ sagas'[o] = sagas[o] /\ txn'[o] = txn[o]
      /\ staged'[o] = staged[o] /\ processed'[o] = processed[o]
      /\ o \in reservations' <=> o \in reservations
  BY OthersUntouched
<1>2. o \in payments' <=> o \in payments
  BY DEF Place, Close, Pay, PaymentStep, Charge, Decline, Refund, Stock, Ship, Begin, Commit,
         Abort, Lose, paymentVars
<1>3. o \in shipments' <=> o \in shipments
  BY DEF Place, Close, Pay, Stock, Ship, ShippingStep, Dispatch, NoCourier, Begin, Commit, Abort, Lose
<1>4. (o \in timedOut' <=> o \in timedOut) /\ (o \in overwritten' <=> o \in overwritten)
  <2>1. CASE Commit(p)
    BY <2>1, CommitShape DEF CommitHandle
  <2>2. CASE ~Commit(p)
    BY <2>2 DEF Place, Close, Pay, Stock, Ship, Begin, BeginHandle, Abort, AbortHandle, Lose, sagaVars
  <2>3. QED
    BY <2>1, <2>2
<1>5. QED
  BY <1>1, <1>2, <1>3, <1>4, SameFootprint

LEMMA NextFootprint ==
    ASSUME TypeOK, NEW o \in Order, OrderInv(o), FootprintInv(o), [Next]_vars
    PROVE  FootprintInv(o)'
<1>1. ASSUME NEW p \in Order,
             \/ Place(p) \/ Close(p) \/ Pay(p) \/ Stock(p) \/ Ship(p)
             \/ Begin(p) \/ Commit(p) \/ Abort(p) \/ (\E e \in Event : Lose(p, e))
      PROVE  FootprintInv(o)'
  <2>1. CASE p = o
    BY <1>1, <2>1, PlaceCloseKeepFootprint, PayKeepsFootprint, StockKeepsFootprint,
       ShipKeepsFootprint, CommitKeepsFootprint, TxnKeepsFootprint
  <2>2. CASE p # o
    BY <1>1, <2>2, OthersFootprint
  <2>3. QED
    BY <2>1, <2>2
<1>2. ASSUME NEW S \in SUBSET Order, Timeout(S)
      PROVE  FootprintInv(o)'
  <2>1. CASE o \in S
    BY <1>2, <2>1, TimeoutKeepsFootprint
  <2>2. CASE o \notin S
    BY <1>2, <2>2, SameFootprint DEF Timeout, Watchdog, paymentVars, inventoryVars
  <2>3. QED
    BY <2>1, <2>2
<1>3. CASE UNCHANGED vars
  BY <1>3, SameFootprint DEF vars, busVars, sagaVars, paymentVars, inventoryVars
<1>4. QED
  BY <1>1, <1>2, <1>3 DEF Next

LEMMA InitFootprint ==
    ASSUME Init, NEW o \in Order
    PROVE  FootprintInv(o)
<1>1. /\ sagas[o] = NoRow /\ txn[o] = Closed /\ staged[o] = {} /\ processed[o] = {}
      /\ timedOut = {} /\ overwritten = {}
      /\ payments = {} /\ reservations = {} /\ shipments = {}
  BY DEF Init, BusInit, SagaInit, PaymentInit, InventoryInit, ShippingInit
<1>2. /\ sagas[o].state = "NONE" /\ sagas[o].awaiting = "none"
      /\ txn[o].event = "none" /\ txn[o].row = NoRow /\ txn[o].row.awaiting = "none"
  BY <1>1 DEF NoRow, Closed
<1>3. /\ OpenInv(o) /\ FreshInv(o) /\ AwaitedInv(o) /\ TablesInv(o) /\ ReleaseInv(o) /\ CompletedInv(o)
  BY <1>1, <1>2 DEF OpenInv, FreshInv, AwaitedInv, Unanswered, TablesInv, ReleaseInv, CompletedInv
<1>4. CountInv(o)
  BY <1>1, <1>2, StepTables DEF CountInv, GivenUp
<1>5. TimelyInv(o)
  BY <1>1, <1>2 DEF TimelyInv, GivenUp
<1>6. QED
  BY <1>3, <1>4, <1>5 DEF FootprintInv

(* The strengthened invariant is inductive. *)
THEOREM FootprintInductive == Spec => []FInv
<1>1. Init => FInv
  BY InitIInv, InitFootprint DEF FInv
<1>2. FInv /\ [Next]_vars => FInv'
  BY NextTypeOK, NextStockInv, NextOrderInv, NextFootprint DEF FInv, IInv
<1>3. QED
  BY <1>1, <1>2, PTL DEF Spec

(* The countdown equals the number of compensating replies still to come. *)
THEOREM CountdownIsExact == Spec => []CountdownExact
<1>1. FInv => CountdownExact
  BY DEF FInv, FootprintInv, CountInv, CountdownExact
<1>2. QED
  BY <1>1, FootprintInductive, PTL

LEMMA CompletedFootprint == FInv => CompletedIsKept
<1>1. ASSUME FInv, NEW o \in Order, o \notin overwritten, sagas[o].state = "COMPLETED"
      PROVE  /\ o \in payments \cap reservations \cap shipments
             /\ Pending(o, Releases \cup {"cmd.payment.refund"}) = {}
  <2>1. OrderInv(o) /\ FootprintInv(o)
    BY <1>1 DEF FInv, IInv
  <2>2. (Releases \cup {"cmd.payment.refund"}) \cap staged[o] = {}
    BY <1>1, <2>1 DEF FootprintInv, CountInv, GivenUp
  <2>3. {"reply.shipping.dispatched", "reply.payment.charged", "reply.inventory.reserved"}
            \subseteq staged[o]
    BY <1>1, <2>1, Causes DEF FootprintInv, CompletedInv
  <2>4. o \in payments \cap reservations \cap shipments
    BY <2>1, <2>2, <2>3, Causes DEF FootprintInv, TablesInv
  <2>5. QED
    BY <2>2, <2>4 DEF Pending
<1>2. QED
  BY <1>1 DEF CompletedIsKept

(* A shipped order is paid, taken from stock and dispatched, and nothing undoes it. *)
THEOREM CompletedStaysWhole == Spec => []CompletedIsKept
BY CompletedFootprint, FootprintInductive, PTL

LEMMA CancelledFootprint == FInv => CancelledIsUndone
<1>1. ASSUME FInv, NEW o \in Order, o \notin timedOut, status[o] = "CANCELLED"
      PROVE  o \notin payments \cup reservations \cup shipments
  <2>1. /\ OrderInv(o) /\ TablesInv(o) /\ TimelyInv(o) /\ CountInv(o)
    BY <1>1 DEF FInv, IInv, FootprintInv, TimelyInv
  <2>2. GivenUp(o) /\ Due(o) = {}
    BY <1>1, <2>1 DEF OrderInv, VerdictInv, CausalInv, GivenUp, CountInv
  <2>3. /\ "cmd.payment.refund" \in staged[o] => "reply.payment.refunded" \in staged[o]
        /\ "cmd.inventory.release" \in staged[o] => "reply.inventory.released" \in staged[o]
    BY <2>1, <2>2, DueMembers, Causes
  <2>4. o \notin payments
    BY <2>1, <2>2, <2>3, Causes DEF TablesInv, CountInv, TimelyInv
  <2>5. o \notin reservations
    BY <2>1, <2>2, <2>3, Causes DEF TablesInv, CountInv, TimelyInv, OrderInv, ReservedInv, Releases
  <2>6. o \notin shipments
    BY <2>1, <2>2, Causes DEF TablesInv, TimelyInv
  <2>7. QED
    BY <2>4, <2>5, <2>6
<1>2. QED
  BY <1>1 DEF CancelledIsUndone

(* An order that failed without a timeout is undone before its client reads CANCELLED. *)
THEOREM FailureIsUndone == Spec => []CancelledIsUndone
BY CancelledFootprint, FootprintInductive, PTL

(* Stock that inventory reserved for an order that was given up is on its way back. *)
THEOREM StockIsNotStranded == Spec => []NoStrandedStock
<1>1. ASSUME FInv, NEW o \in reservations,
             sagas[o].state \in {"COMPENSATING", "CANCELLED"},
             "reply.inventory.reserved" \in staged[o]
      PROVE  Pending(o, Releases \cup {"reply.inventory.reserved"}) # {}
  <2>1. o \in Order
    BY <1>1 DEF FInv, IInv, TypeOK, InventoryTypeOK
  <2>2. "reply.inventory.reserved" \in processed[o] => Pending(o, Releases) # {}
    BY <1>1, <2>1 DEF FInv, FootprintInv, ReleaseInv
  <2>3. QED
    BY <1>1, <2>2 DEF Pending
<1>2. FInv => NoStrandedStock
  BY <1>1 DEF NoStrandedStock
<1>3. QED
  BY <1>2, FootprintInductive, PTL

=============================================================================
