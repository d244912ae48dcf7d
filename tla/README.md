# Event_Driven_Demo: a TLA+ model of the order saga

The program takes orders over HTTP and fulfils each of them with a *saga*: an
orchestrator commands payment, inventory and shipping through RabbitMQ, and undoes
what was done when a step fails or takes too long. Five services keep a Postgres
database each, and every event leaves through a transactional outbox. This directory
models the saga, the transport that carries it (outbox, relays, queues, consumers), the HTTP
side that starts it, the live feed that shows it and the failures the dashboard can cause,
model-checks them with TLC on small instances and proves their safety with TLAPS for instances
of any size.

Paths below are relative to the repository (`src/`).

## 1. Inventory: the parts of the system

| part | state it keeps | operations | talks to |
|---|---|---|---|
| order-service, HTTP (`services/order-service/app/api.py`) | `orders`, outbox; one shared connection, `_db_lock` | `POST /orders` (order row and `order.placed` in one transaction), `GET /orders/{id}` | outbox relay |
| order-service, consumer (`.../consumer.py`) | `orders.status`, `processed_events` | `order.shipped`, `order.cancelled` set the status | order.q |
| orchestrator, consumer thread (`services/orchestrator/app/__main__.py`) | `sagas` (state, awaiting, comp_pending), `processed_events`, outbox | `_handle_order_placed`, `_handle_reply` | orchestrator.q, outbox relay |
| orchestrator, watchdog thread | the same `sagas`, its own connection | every 3 s: compensate the sagas that wait longer than `STEP_TIMEOUT_S` | outbox relay |
| payment-service, 3 replicas | `payments`, `ledger` | charge, refund; `fail` toggle | payment.cmd.q, outbox relay |
| inventory-service | `stock`, `reservations` | reserve, release; `fail`, `silent`, `slow_ms` toggles | inventory.cmd.q, outbox relay |
| shipping-service | `shipments` | dispatch; `fail` toggle | shipping.cmd.q, outbox relay |
| `pyevents/db.py` | `processed_events` | `handle_once`, `process_once`, `run_script` | every handler |
| `pyevents/outbox.py` | `outbox` (published_at), `_RELAY_PAUSED` | `stage_event`, `relay_loop`, `_drain_once` | RabbitMQ |
| `pyevents/consumer.py` | message headers (attempt, original key) | `consume`: handle, retry, dead-letter, acknowledge | RabbitMQ |
| `infra/topology.py` | exchanges, queues, bindings | `declare` | RabbitMQ |
| `pyevents/publisher.py`, `connection.py` | duplicate mode, a connection | `publish`, `connect` | RabbitMQ |
| `pyevents/control.py` and every `_on_command` | the toggles, in memory; one exclusive queue per process | `publish_command`, `listen_for_commands` | fanout exchange `control` |
| the threads of a process (`main` of each service) | consumer, relay and listener, each with its own connection | they start together and end one by one | RabbitMQ, each other's process |
| observer: live feed (`services/observer/app/api.py`, `consumer.py`) | `_recent`, `_clients`, `_loop` | `broadcast`, `_fan_out`, `ws` | observer.q, the dashboards' WebSockets |
| observer: `/control`, `/kill` | none | break the others | control exchange, Docker |
| observer: `stats.py` | none | `snapshot` | all databases (reading) |
| notification-service, dashboard, contracts, scripts | none the saga depends on | | |

What makes each part correct:

* orders: one verdict, the one the saga ended in; never stuck; never half-written.
* orchestrator: steps in order, an exact countdown of compensations, ended sagas stay
  ended, and all this with two threads on the same rows.
* payment, inventory, shipping: exactly-once effect of each command; stock and ledger
  agree with the orders that were shipped; a compensation undoes exactly what was done.
* outbox and consumer: what is committed is published, what is published is handled or
  ends in the DLQ, handling has effect once.
* control channel: every replica that listens obeys the last command, restarted or not; the
  outbox of a service drains as long as one of its relays is alive.
* live feed: the history a dashboard registers with reaches it without a gap; of the events that follow, it
  misses none but those whose fan-out was cut short because a dashboard connected or was taken out while it ran (the
  code loses these, section 4); a closed dashboard that a fan-out finds does not end it, and one that does not read holds
  it up only until its ping times out.

The hard behaviours: the handler reads the saga without a lock and the watchdog may
commit before it writes; a timed-out step may still be performed; commands, replies and
compensations overtake each other (relays, replicas, retry queues); processes die before
their COMMIT; replies are lost in silence; events are dead-lettered; a fan-out gives up the loop
at every send while clients come and go; threads of one process die separately and are never
started again. `PROJECT.json` lists
all of them under `hazards`, each at its line.

## 2. Modules

| module | models | lines of code it stands for |
|---|---|---|
| `EventBus` | outbox, delivery, `processed_events`, dead letters; the events and the faults | `outbox.py`, `db.py`, `consumer.py`, `topology.py` |
| `PaymentService`, `InventoryService`, `ShippingService` | the three command handlers | `services/*/app/__main__.py` |
| `OrderService` | `POST /orders` and the status update | `api.py`, `consumer.py` |
| `Orchestrator` | the saga tables, the consumer thread and the watchdog | `orchestrator/app/__main__.py`, `pyevents/saga.py` |
| `Fulfilment` | the composition, its fairness and its properties | |
| `OrderLifecycle` | the abstract specification: what a client and an auditor may see of an order | |
| `Broker` | RabbitMQ for one consumer: work, retry and dead-letter queue | `topology.py`, `publisher.py` |
| `OutboxRelay` | the outbox table of a service and its relay threads | `outbox.py` |
| `Consumer` | the replicas of the consuming service | `consumer.py`, `db.py` |
| `Transport` | the three composed to one link, their failures and promises | |
| `OrderApi` | the threads of the HTTP pool on their shared connection | `order-service/app/api.py` |
| `Observer` | the live feed: consumer thread, fan-outs on the asyncio loop, WebSocket handlers | `observer/app/api.py`, `consumer.py` |
| `FailureLab` | processes with their threads and toggles, `POST /control`, `POST /kill` | `control.py`, `connection.py`, `outbox.py`, `api.py`, every `main` and `_on_command` |
| `MCFulfilment`, `MCTransport`, `MCOrderApi`, `MCObserver`, `MCFailureLab` | constants and symmetries of the TLC runs | |
| `FulfilmentInvariant` | the inductive invariants of the saga, in named parts | |
| `FulfilmentProofs`, `FootprintProofs`, `SettlementProofs`, `LifecycleProofs`, `TransportProofs`, `OrderApiProofs`, `ObserverProofs`, `LabProofs` | the theorems | |

There are three layers. `Transport` models one link message by message and implements `EventBus`, the
few lines the saga knows of delivery (`ImplementsEventBus`); `Fulfilment` composes the services over
`EventBus` and implements `OrderLifecycle`, what an outsider sees (`ImplementsLifecycle`). `OrderApi` looks
closer at the one action `PlaceOrder` of `OrderService` and implements it (`ImplementsPlaceOrder`): threads, failed statements and
foreign commits come down to orders that appear one at a time, the row with its event. `Observer` and `FailureLab` stand
beside them: the feed reads what the services publish, whatever that is, and the laboratory tells when the
fairness that `Transport` assumes of relays and consumers is there and when it is not.

How state and actions correspond to the code:

* **Events.** The event_id of a command, a reply or a verdict is `"<routing key>:<order id>"`; the second release has
  `.late` at its end, and `order.placed` has a uuid drawn by the one POST that creates the order. So an order has at most
  one event of each routing key, plus the `.late` release. The model therefore keeps, per order, the *set* of events staged in some outbox
  (`staged`), the set whose handler committed (`processed`) and the set that only the DLQ still
  holds (`dead`). An outbox takes a second row with the same event_id, so an event that a second compensation stages again
  leaves `dead`: it is published once more. An event that is staged and not processed may be handled at any time: this
  covers slow relays, paused relays, three competing payment replicas, the 5 s retry queue
  and every reordering they cause. Delivering a processed event again rolls back
  (`handle_once`): a stuttering step, which covers duplicate mode, relay crashes and
  redelivery. A queue's order is not used: the code does not rely on it and the retry path
  breaks it.
* **Service handlers** are one action each: they are one database transaction, and no two
  transactions of the same service on one order interfere (payment's replicas serialise on the
  ledger row, `processed_events` makes the second copy of an event wait).
* **The orchestrator's handler** is two actions, because it is the one place where another
  transaction can commit in between: `BeginHandle` takes the snapshot `saga.load` returns, the
  actions under `CommitStep` decide from the *snapshot* and apply their UPDATE to the *row*,
  as the SQL does (`dec_comp_pending` reads the row, `set_state` keeps a `comp_pending` it is
  not given). `AbortHandle` is a crash or an exception. There is one consumer thread, so at most
  one order has an open transaction.
* **The watchdog** takes any nonempty set of sagas that await a reply. Time is abstracted: a step
  may be overdue at any moment if `"timeout"` is among the faults.
* **Toggles** (`fail`, `silent`) may change between any two commands, so each is a choice.
* **Amounts**: each order has a total, `TotalCents[o]`; the stock is one SKU, one unit per order. A sum of
  totals is the number of cents of a set of orders (`Total`); `MCFulfilment` has TLC compare it with the fold over `TotalCents` for
  every set of the orders of a run.

`Faults[o]` is the set of faults that may strike order `o`; the theorems hold for every such function. Two history
variables say what has happened to an order, so that a property can be stated for the orders it is true of in runs
with every fault: `timedOut` (the watchdog compensated it) and `overwritten` (a handler overwrote a row that had changed
since it was read).

In the transport:

* **Queues** are bags: `queues[p][c]` counts the copies `c` ready in queue `p`. A copy is an event and the
  `x-retry-count` header; the body and the original routing key do not decide anything here.
* **The outbox row** of an event is absent, open (inserted, not committed), committed or published. Its
  id is taken at the INSERT, as a BIGSERIAL does, so rows are not committed in id order. A relay's claim holds
  its rows until it commits or fails (`FOR UPDATE SKIP LOCKED`); each row is published before the one commit that marks
  them all. `RelayFails` is a dead process as well as an error that `_drain_once` or `relay_loop` answers with a rollback: both
  undo the claim and neither takes back what was sent. A paused relay is one that does not claim for a while.
* **A replica** holds one copy at a time (prefetch 1) and acknowledges it last, after the commit or after the
  copy was published again. `InsertFirst` waits while another replica's transaction holds the same event_id,
  as the unique index makes it wait. `Raise` may happen before or inside the handler's transaction.
  `Crash` rolls back and has the broker requeue the copy with its old header, also when a new one
  has already been published.
* **Garbled** messages are those `scripts/poison.sh` publishes; they go to the dead-letter queue at once.

In the HTTP side one connection means one transaction for all threads. `_db_lock` covers the statements and
the commit of a POST, and the SELECT of a GET; the commit of a GET is outside it and commits whatever is open. Nobody rolls back
after an error, so a failed INSERT leaves the transaction aborted until some commit ends it. `accepted` and `seen`
are what clients were told; they are history, the code keeps neither. The sequence never repeats an id; an
id of which no trace is left is reused in the model, which keeps it finite.

In the live feed one action is what runs without giving up the asyncio loop: `Connect` is `ws` from `accept` to its first
send, `Visit` is one turn of the loop over `_clients` up to the end of a send or the wait for room in a full buffer. The
consumer thread's two steps (append to `_recent`, `run_coroutine_threadsafe`) are two actions, between which a client may
register. `SameSize` is CPython's rule: an iterator over a set raises when the size of the set has changed since it began, and
goes on when as many came as left. A fan-out that raises this way is `"cut"`: the clients it had not come to miss the message,
and its dead ones stay registered (`Break`). This is what the code does, and the properties exempt it by name (section 4 says what
it contradicts). `got`, `from` and `upto` are history: what was sent to a dashboard, and the first and the last message
of the history that `ws` listed for it.

In the laboratory a replica has three threads with a connection each. The *listener* and the *relay* are in `threads`; of the
*consumer* only its end is kept, because it is the main thread of all services but order-service and takes the
process down. A listener that loses its connection ends for good (`start_consuming` raises and nothing catches it) while the
process goes on with the toggles it has. A relay does not read: it finds out when it publishes, rolls back and opens
another channel, unless the error is one that `relay_loop` does not catch. The queue of a listener is exclusive, so `DropQueues`
takes it away with the connection. `posts` holds the commands that the exchange has yet to route to a
queue. `word` and `tangled` are history: the value last posted for a toggle since the process began, and whether that post
overlapped with another one.

## 3. Runs

`CHECK_DEADLOCK FALSE` in the runs of the saga and of the transport: once every event is handled the system
rests. Likewise in the laboratory, where every process may be down. `accepts` and `feed` check for deadlock.

| run | faults | orders | checks |
|---|---|---|---|
| `fulfilment_racing` | one order: all; the other: timeouts | 2 | TypeOK, OneVerdict, StockConserved, StepsInOrder, NoStrandedStock, CountdownExact, CompletedIsKept, CancelledIsUndone, ConsistentAtRest, LedgerBalances, NoOrderForgotten, TerminalIsFinal, CompensationUndoes, ImplementsLifecycle |
| `fulfilment_closes` | silent, timeout, crash; fair | 2 | EveryOrderCloses, CancelledStockComesBack |
| `refund_no_op` | declined, timeout | 1 | finding: CompensationIsNoOp is violated |
| `left_behind` | timeout | 1 | finding: CancelledLeavesNothing is violated |
| `lost_update` | timeout, race | 1 | finding: ShippedLinesUp is violated |
| `hanging` | timeout, race; fair | 1 | finding: EveryOrderCloses is violated |
| `delivery` | `Transport`: 2 events, 2 relays, 2 replicas, 2 attempts, 2 failures | | TypeOK, NothingLost, EffectOnce, GivenUpAfterAllAttempts, ImplementsEventBus |
| `drains` | `Transport`: 1 event, a garbled message, 1 relay, 2 replicas, 3 attempts, 2 failures; fair | | EventuallyHandled |
| `accepts` | `OrderApi`: threads, failing statements, restarts | 3 | AcceptedIsDurable, EventHasOrder, SeenIsDurable, ImplementsPlaceOrder |
| `half_order` | `OrderApi` | 3 | finding: OrderAndEventTogether is violated |
| `feed` | `Observer`: 2 dashboards, one slow, 2 messages; fair | | TypeOK, NoGap, FanOutReaches |
| `lab` | `FailureLab`: 2 replicas of one service, 2 commands, 2 losses, 1 kill; fair | | TypeOK, LastWordObeyed, BacklogDrains |

**Bounds of the saga.** None beyond the number of orders and the initial stock: each order has finitely many
events, so the state space is finite. Two orders are enough for what orders share, which is the
stock, the ledger, the consumer thread and a scan that takes both; the initial stock of 1 is
smaller than the number of orders, so it becomes negative, as the code allows. The totals of the two orders differ. In
`fulfilment_racing` the first order meets every fault, dead letters included; the second only times out, which is enough
to share scans, stock, ledger and consumer thread with the first, and keeps the run at half a million states.

**Bounds of the transport.** `MaxFailures` bounds doubled publications, rolled back handlers, failed relays and dead
replicas together; two are enough for a relay to publish twice *and* a replica to die after it republished. Handlers
raise without bound (`raises` is counted up to `MaxAttempts`, which is all a property asks). Two relays contend for two rows,
two replicas for two copies of an event. The code's 3 attempts are used in `drains`; `delivery` has 2, which
has both a retry and a last attempt. `Batch` is 2 instead of 50, so that a batch can be partly published. The
theorems of section 5 need none of these bounds.

**Bounds of the HTTP side.** Three threads and three orders: a POST, a GET that commits in its middle, and a third
request; more threads only wait for the lock.

**Bounds of the feed.** `MaxMessages` is 2 and the ring buffer holds 1 (`Recent`, 100 in the code), so that it overflows while a
client registers. One dashboard of the two is `Slow`; with a second slow one TLC only gets more of the same waits. A
dashboard connects once: a reconnection is another client to the code.

**Bounds of the laboratory.** `MaxPosts`, `MaxDrops` (lost connections, ended threads and failed starts together) and `MaxKills`.
Two posts can overlap, two losses can end the relays of both replicas or a relay and a listener, and one kill restarts both. The
replicas belong to `payment-service`, the one service the deployment runs more than one of; a command for another service is
posted too.

**Fairness of the saga** (`FairSpec`). Relays poll for ever and RabbitMQ redelivers what is not acknowledged:
every event that can be handled is (weak fairness per service and order). The orchestrator's commit
is strongly fair because a crash can disable it again and again; the consumer gives an event up
after three attempts, and that is the fault `"dead"`, absent from the liveness run. The watchdog scans every
three seconds: weak fairness of some scan. Nothing forces an order to be placed, a handler
to fail, or an event to be lost. The code has no remedy for a dead-lettered
compensation (a COMPENSATING saga has `awaiting` NULL, and the watchdog looks at `awaiting`), nor
for a thread that died; `EveryOrderCloses` says nothing of those cases. What is left of it then is `NoOrderForgotten`: an order that
stays PENDING has an event to be handled or in a dead-letter queue, or a saga the watchdog finds.

**Fairness of the feed.** The asyncio loop runs every task that can run (weak fairness of a fan-out's turns), uvicorn's ping
closes a socket that does not answer (weak fairness of `PingTimeout`), and a send that waits for room is woken by it
even if the buffer fills again at once (strong fairness of `Resume`). Nothing forces messages, clients or restarts.

**Fairness of the laboratory.** A relay that is alive runs and, as long as `connect` has attempts left, connects again. Listeners,
handlers, kills and starts are not fair: `BacklogDrains` needs none of them. It promises nothing for a service all of whose
relays are paused, ended or without a process, because the code does not start any of them again.

**Fairness of the transport.** A relay polls and reconnects for ever, a replica consumes for ever, and a TTL
expires: weak fairness of each. A process that dies is taken to be started again: `docker-compose.yml` has no restart policy, it is
whoever watches the dashboard that does it, and with nobody there nothing is promised. Writing, committing and failing are
not fair. `EventuallyHandled` therefore says that a committed event is processed or ends in the dead-letter queue,
never that it succeeds.

## 4. Findings

1. **A refund is not a no-op** (`refund_no_op`). The ledger is lowered whether or not there was a
   payment to delete, against `orchestrator/app/__main__.py:107` and `docs/stage-5.md:73`. A charge
   that is declined after its timeout leaves the ledger negative. `CompensationUndoes` and `LedgerBalances` are what is true
   instead: without a timeout a refund finds its payment, and with one the ledger is what payment answered.
2. **Cancelled orders can leave rows behind** (`left_behind`). Only late reservations are mopped up. A dispatch
   performed after its timeout leaves a shipment; a charge that runs after its refund leaves a payment
   row. `observer/app/stats.py:132` states the contrary.
3. **A lost update** (`lost_update`). A watchdog scan between the read and the write of a reply handler is
   overwritten: the saga goes on while the refund and release run, and a cancelled-and-revived
   order is shipped without payment.
4. **A saga can hang** (`hanging`). When such a saga times out again its second compensation reuses the event
   ids of the first; the services drop them, nobody replies, and the saga stays COMPENSATING.

5. **Half an order** (`half_order`). The commit of a GET, outside `_db_lock`, can fall between the two INSERTs of
   a POST and commits the order without its event. If the second INSERT fails or the process dies, the order stays PENDING for
   ever, against `order-service/app/api.py:115` and the module's own account of the outbox. The client was never told
   that the order was accepted: `AcceptedIsDurable` holds all the same.

A sixth disagreement has no run of its own; it is the exception written into the properties of `feed`. `observer/app/api.py:6-9`
promises a "live feed: every message seen on the bus" and that "connected WebSocket clients receive it". `_fan_out` iterates over
`_clients` itself (`api.py:181`) and awaits a send for each. If a dashboard connects then (`api.py:157`), or `ws` takes out one that was closed
(`api.py:166`), the set has another size when the iterator is asked for the next client; it raises, the task ends, nobody reads its error, and
every dashboard it had not come to misses the message though it is connected. `FanOutReaches` without the outcome `"cut"` is
violated, by a dashboard that connects after the first send; and TLC finds a behaviour of nine steps with the other cause: two dashboards
have connected and a message is scheduled for them, one of them closes, the fan-out visits it first, `ws` takes it out, and `Break` leaves
the other one open and registered, without the message. What is true instead is `NoGap` and `FanOutReaches` as they stand: the replayed history never suffers
from it, and no message is missed in another way.

## 5. Proofs

**The saga.** TLAPS proves, for every set of orders (finite or not), any faults of each, all totals and every initial stock:

| theorem | statement |
|---|---|
| `TypeCorrect` | `Spec => []TypeOK` |
| `Inductive` | `Spec => []IInv` |
| `VerdictIsUnique` | `Spec => []OneVerdict` |
| `StepsAreOrdered` | `Spec => []StepsInOrder` |
| `StockIsConserved` | `Spec => []StockConserved` |
| `TerminalStaysFinal` | `Spec => TerminalIsFinal` |
| `Refinement` (`LifecycleProofs`) | `Spec => ImplementsLifecycle` |
| `FootprintInductive` (`FootprintProofs`) | `Spec => []FInv` |
| `StockIsNotStranded` | `Spec => []NoStrandedStock` |
| `CountdownIsExact` | `Spec => []CountdownExact` |
| `CompletedStaysWhole` | `Spec => []CompletedIsKept` |
| `FailureIsUndone` | `Spec => []CancelledIsUndone` |
| `SettlementInductive` (`SettlementProofs`) | `Spec => []SInv` |
| `LedgerIsBalanced` | `Spec => []LedgerBalances` |
| `RestIsConsistent` | `Spec => []ConsistentAtRest` |
| `NobodyIsForgotten` | `Spec => []NoOrderForgotten` |
| `CompensationsUndo` | `Spec => CompensationUndoes` |

From the assumptions `Faults \in [Order -> SUBSET FaultKinds]`, `TotalCents \in [Order -> Nat]` and `InitialStock \in Nat`,
declared in `EventBus`, `PaymentService` and `InventoryService`.

*The argument.* None of the properties is inductive: each depends on what a handler saw when it read the
saga. `IInv` (module `FulfilmentInvariant`) adds, per order:

* `RowInv`: a saga awaits a reply exactly in the states STARTED, CHARGED and RESERVED, in the
  state of the awaited step, whose command has been staged;
* `TxnInv`: the snapshot of an open transaction is the committed row, or it is a running one and the
  row has become COMPENSATING. This is the exact extent of the race: a snapshot of a COMPENSATING
  saga is never stale, because the watchdog does not touch those, so `order.cancelled` is decided from
  the truth, and a stale one is never ended, so no handler overwrites a verdict;
* `VerdictInv`: `order.shipped` is staged exactly in COMPLETED, `order.cancelled` exactly in CANCELLED;
* `CausalInv`: what must have happened before a command or a reply could be staged;
* `ReservedInv` and `StockInv`: who has a reservation, and the sum.

Orders interact only through the stock, the ledger and the consumer thread, so the proof that a step
preserves `IInv` has one lemma per action for the order it is about (`...KeepsOrderInv`), and one
(`OthersUntouched`) for all the others. `OneVerdict`, `StepsInOrder` and `StockConserved` are consequences of
`IInv`; `TerminalIsFinal` is proved from it for each action. The refinement maps `performed` to the steps
whose command was processed without a failure reply, and each action to one step of `OrderLifecycle` or a stutter; the watchdog only
ever stutters, because a timeout always has something to compensate and never cancels at once.

*The footprint of an order.* `FInv` extends `IInv` by what an order leaves in the tables of the services, in three degrees.
Of every order: no row awaits an answer that has already been handled (`AwaitedInv`), the tables agree with the events
(`TablesInv`), and a reservation of an order that was given up has a release on its way (`ReleaseInv`): the one the
watchdog sent, or, if that one came before the reservation, the late one. Of an order that no handler overwrote: compensations are staged
exactly once it is given up, and `comp_pending` equals their replies still to come (`CountInv`). The refund and the release are
staged in one transaction with the count, and the late release answers in the name of the first; so the
count is a cardinality of a set of events, and the proof follows that set from step to step. Of an order that never timed out: the row is always the
one its handler read, and what it undoes had been done (`TimelyInv`). The exceptions are exact: `lost_update` and `left_behind` violate the
same statements without them.

*The settlement.* `SInv` extends `FInv` to what holds once orders are closed, and to the ledger all orders share.
`LedgerInv`: the ledger is the sum of the charges payment answered minus the sum of the refunds it answered, over all orders, declined
and late ones included. A sum over a set would be a fold, and what a fold computes needs an induction over data that the provers
cannot do; a sum of naturals is also the number of cents in the set (`Cents`), and the library's facts about cardinalities
of finite sets prove what a charge or a refund adds to it. Both sets stay finite because a step of payment adds one order to
one of them. `AnsweredInv` says that payments, refunds and releases have their answers; with it, orders that never timed out have left
in the sum exactly their payment rows (`LedgerBalances`). When every order is closed and none timed out, the rows of payments, reservations and
shipments are those of the shipped orders, by `CompletedIsKept` and `CancelledIsUndone`, and so is the ledger (`ConsistentAtRest`).
`ProgressInv` says that a saga which is undone waits for at least one reply; by `CountInv` that reply or its command is an event
not yet handled, which is the hard case of `NoOrderForgotten`. `CompensationUndoes` is an action property: a command that
a step handles had been staged, and `TimelyInv` says that what it undoes had then been done.

**The transport.** For every set of events, relays and replicas, every `Batch`, `MaxAttempts` and `MaxFailures`:

| theorem (`TransportProofs`) | statement |
|---|---|
| `LinkTypeCorrect` | `Spec => []TypeOK` |
| `LinkInductive` | `Spec => []LinkInv` |
| `NothingIsLost` | `Spec => []NothingLost` |
| `EffectIsDoneOnce` | `Spec => []EffectOnce` |
| `GivenUpLast` | `Spec => []GivenUpAfterAllAttempts` |
| `LinkImplementsEventBus` | `Spec => ImplementsEventBus` |

From `Garbled \cap EventId = {}`, `MaxAttempts \in Nat \ {0}`, `Batch \in Nat \ {0}` and `MaxFailures \in Nat`. `NothingLost` is not
inductive because it counts a copy that a replica is about to acknowledge. `SafeInv` does not: whoever has published an event, be
it a relay before the mark or a replica before the ack, has put it where it is safe without him. `RelayInv` says that claims are
disjoint sets of committed rows, `OriginInv` that nothing travels that was not committed, `EffectInv` that at most one
transaction holds an event_id, `AttemptInv` that no header counts more attempts than were made. For the refinement
every step leaves what is lost lost (`LostStaysLost`), so it stages one event, handles one, or buries some.

**The HTTP side.** For every pool of threads and every set of orders (`OrderApiProofs`): `AcceptedSurvives`, `EventsHaveOrders` and
`SeenSurvives`, that is `[]AcceptedIsDurable`, `[]EventHasOrder` and `[]SeenIsDurable`. `ApiInv` says who holds the lock,
what the POST in progress has inserted, and that rows in the open transaction belong to it or to an aborted one.
`ApiImplementsPlaceOrder` is the refinement, `Spec => ImplementsPlaceOrder`: an order counts as placed when its row and its event are
committed. `PlacingInv` adds that an event in the open transaction is that of the POST about to commit it, so no commit, by whomever,
brings two orders or one for the second time; `EventHasOrder` gives the row. With it the theorems about the saga
rest on the HTTP side as it is: half an order, which the finding shows, is an order that has not been placed.

**The live feed.** For every set of dashboards, any of them slow, every length of the ring buffer and every number of messages
(`ObserverProofs`): `FeedInductive` (`[]FeedInv`), `FeedTypeCorrect` (`[]TypeOK`) and `HistoryMeetsLive` (`[]NoGap`). `HistoryInv` says that `_recent` holds consecutive
messages up to the newest, so what `ws` lists at registration is everything from its first message to its last, and whatever comes after
has a fan-out that has not begun or that begins with the client in the set. `ReplayInv` is the first end of the property: a message of that
history has been sent or is still listed, and no fan-out has a say in it. `ServedInv` is the second: a later message has been sent, is on its way,
or its fan-out was cut short. `TaskInv` says what a fan-out has visited, `RegisteredInv` that a client which is served is in the set.
The theorem does not promise a dashboard every message: the ones that were cut short are lost to it (section 4).

**The control channel.** For every set of replicas, services, commands and all bounds (`LabProofs`): `LabInductive` (`[]LabInv`),
`LabTypeCorrect` and `LastWordIsObeyed` (`[]LastWordObeyed`). The property speaks of an empty queue, so it is not inductive. `ObeyInv` says
who decides meanwhile: what is on its way to the replica has the last word's value, and once nothing is, the last
command in its queue that concerns the toggle has it, and if there is none the toggle itself. `FreshInv` says that a replica which
begins again has the defaults and no queue.

**Only model-checked**: the liveness properties `EveryOrderCloses`, `CancelledStockComesBack`, `EventuallyHandled`,
`FanOutReaches` and `BacklogDrains`, because fairness is out of TLAPS's reach. Every invariant and every action property of the passing
runs is proved. That `Total` is the fold it stands for is checked by TLC on the orders of the runs.

## 6. Not modelled

* The dashboard, the notification-service, the JSON contracts and the deployment hold no state that another part reads.
* `run_script` and the bindings of the topology: every module begins with the schema and the queues in place. The
  start-up race of the scripts is decided by Postgres's advisory lock.
* The `Publisher` class of `publisher.py`: `OutboxRelay` publishes with the function of the same file; duplicate mode is part of it.
* A message that the broker never took, although the row is marked (publishing is not confirmed), and consumers
  without retry (`retry=False`).
* `connect`'s count of its attempts: it succeeds or gives up at any time.
* `stats.snapshot` reads five databases one after the other. `ConsistentAtRest` reads them in one instant; a
  snapshot torn between two of them is a wrong picture on the dashboard for one poll, with nothing at rest.
* `/stats`, `/saga`, `/queues` and `/health` only read.
* In the HTTP side of order-service, the loss of its connection.
* In the laboratory, what the consumer does (that is `Transport`): only what its end does to the process.

## 7. Plan

Done: the saga and its services with the abstract lifecycle; `OrderApi`; `Broker`, `OutboxRelay`, `Consumer` and `Transport`, which
implements `EventBus`; the footprint of an order under every fault; `Observer`; `FailureLab`; the proofs of section 5.

What could follow, in this order:

1. The order of publication: rows take their id at the INSERT and may be committed later, so polling in id
   order with one relay (`outbox.py:45`) does not by itself keep the order of a service's events.
2. A torn `snapshot`, as reads of the five databases between the steps of `Fulfilment`.
3. Unconfirmed publishing in `OutboxRelay`: a row marked although the broker has no copy.
