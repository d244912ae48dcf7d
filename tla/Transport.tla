----------------------------- MODULE Transport ------------------------------
(***************************************************************************)
(* One link of the system: the outbox of a service, its relays, the queues *)
(* and the replicas of the service that consumes them, all failing now and *)
(* then.  It implements what the saga takes from EventBus.                 *)
(***************************************************************************)
EXTENDS OutboxRelay, Consumer

(* Bound: publications in duplicate mode, rolled back handlers, failed relays and dead
   consumers, together. *)
CONSTANT MaxFailures

ASSUME MaxFailuresAssumption == MaxFailures \in Nat

VARIABLE failures

vars == <<queues, relayVars, workerVars, failures>>

Init == BrokerInit /\ RelayInit /\ ConsumerInit /\ failures = 0

Write(e) == (Stage(e) \/ CommitStage(e)) /\ UNCHANGED <<workerVars, failures>>

Relaying(r) == RelayStep(r) /\ UNCHANGED <<workerVars, failures>>

Consuming(w) == WorkerStep(w) /\ UNCHANGED <<relayVars, failures>>

Expiring == (\E c \in Copy : Expire(c)) /\ UNCHANGED <<relayVars, workerVars, failures>>

Failing ==
    /\ failures < MaxFailures
    /\ failures' = failures + 1
    /\ \/ \E e \in EventId : RollbackStage(e) /\ UNCHANGED workerVars
       \/ \E r \in Relay : RelayFails(r) /\ UNCHANGED workerVars
       \/ \E r \in Relay, e \in EventId : PublishRow(r, e, 2) /\ UNCHANGED workerVars
       \/ \E w \in Worker : Crash(w) /\ UNCHANGED relayVars

Next ==
    \/ \E e \in EventId : Write(e)
    \/ \E r \in Relay : Relaying(r)
    \/ \E w \in Worker : Consuming(w)
    \/ Expiring
    \/ Failing

Spec == Init /\ [][Next]_vars

(***************************************************************************)
(* A relay polls for ever and reconnects, a replica consumes for ever, a   *)
(* message in the retry queue expires; one that dies is started again.  No *)
(* handler has to write, to commit or to fail.                             *)
(***************************************************************************)
Fairness ==
    /\ \A r \in Relay : WF_vars(Relaying(r))
    /\ \A w \in Worker : WF_vars(Consuming(w))
    /\ WF_vars(Expiring)

FairSpec == Spec /\ Fairness

-----------------------------------------------------------------------------
TypeOK ==
    /\ BrokerTypeOK
    /\ RelayTypeOK
    /\ ConsumerTypeOK
    /\ failures \in 0..MaxFailures

Committed == {e \in EventId : outbox[e].row \in {"committed", "published"}}

(* A copy of e that may still reach a handler. *)
Live(e) ==
    \/ \E c \in Copy : c.event = e /\ queues["work"][c] + queues["retry"][c] > 0
    \/ \E w \in Worker : ~Holds(w, "idle") /\ EventOf(w) = e

Buried(e) == \E c \in Copy : c.event = e /\ queues["dlq"][c] > 0

(* An event whose row is marked published is not lost: it has been processed, or a copy of
   it is in some queue or with some replica, whoever died on the way. *)
NothingLost ==
    \A e \in EventId : outbox[e].row = "published" => e \in processed \/ Live(e) \/ Buried(e)

(* However many copies of an event reach however many replicas, its work is done once, and
   never without its event_id. *)
EffectOnce == \A e \in EventId : effects[e] = IF e \in processed THEN 1 ELSE 0

(* An event is given up only after MaxAttempts attempts that raised, crashes between the
   republish and the ack not counted. *)
GivenUpAfterAllAttempts == \A e \in EventId : Buried(e) => raises[e] >= MaxAttempts

(* Whatever a handler committed is processed in the end, or lies in the dead-letter queue. *)
EventuallyHandled ==
    \A e \in EventId : outbox[e].row = "committed" ~> (e \in processed \/ Buried(e))

-----------------------------------------------------------------------------
(* What EventBus says of the events of one order, here those of one link.  An event is dead
   when it will not be published again and no copy of it can reach a handler. *)
BusStaged == [o \in {"link"} |-> Committed]
BusProcessed == [o \in {"link"} |-> processed]
BusDead == [o \in {"link"} |->
                {e \in EventId \ processed : outbox[e].row = "published" /\ ~Live(e)}]

Bus == INSTANCE EventBus WITH
    Order <- {"link"}, Faults <- [o \in {"link"} |-> {"dead"}],
    staged <- BusStaged, processed <- BusProcessed, dead <- BusDead

BusStage(e) ==
    /\ BusStaged' = [BusStaged EXCEPT !["link"] = @ \cup {e}]
    /\ UNCHANGED <<BusProcessed, BusDead>>

(* The commit of one batch may bury several events at once. *)
BusBury(S) ==
    /\ \A e \in S : Bus!FirstTime("link", e)
    /\ BusDead' = [BusDead EXCEPT !["link"] = @ \cup S]
    /\ UNCHANGED <<BusStaged, BusProcessed>>

BusNext ==
    \/ \E e \in EventId : BusStage(e)
    \/ \E e \in EventId : Bus!FirstTime("link", e) /\ Bus!CommitUnit("link", e, {})
    \/ \E S \in SUBSET EventId : BusBury(S)

(* Every failure of relays, broker connections and replicas is, for the saga, one of the
   behaviours EventBus allows. *)
ImplementsEventBus == Bus!BusInit /\ [][BusNext]_(Bus!busVars)
=============================================================================
