------------------------------- MODULE Broker -------------------------------
(***************************************************************************)
(* RabbitMQ as topology.py sets it up for one consumer: its work queue, the*)
(* retry queue whose messages expire back into it, and the dead-letter     *)
(* queue nobody consumes.  Queues are bags: a requeued or retried message  *)
(* does not keep its place, and no handler relies on one.                  *)
(***************************************************************************)
EXTENDS Integers, FiniteSets

CONSTANTS
    EventId,        \* the events the outbox of the producer may hold
    Garbled,        \* messages published by hand whose body is not JSON (scripts/poison.sh)
    MaxAttempts     \* how often a handler is tried on a copy, DEFAULT_MAX_ATTEMPTS

ASSUME GarbledAssumption == Garbled \cap EventId = {}
ASSUME MaxAttemptsAssumption == MaxAttempts \in Nat \ {0}

Place == {"work", "retry", "dlq"}

(* A copy of a message: its event, and the x-retry-count header. *)
Copy == [event : EventId \cup Garbled, retries : 0..MaxAttempts]

Fresh(e) == [event |-> e, retries |-> 0]

VARIABLE queues     \* queues[p][c]: how many copies c are ready in queue p

BrokerTypeOK == queues \in [Place -> [Copy -> Nat]]

BrokerInit ==
    queues = [p \in Place |->
                [c \in Copy |-> IF p = "work" /\ c.event \in Garbled /\ c.retries = 0 THEN 1 ELSE 0]]

Enqueue(place, c, n) == queues' = [queues EXCEPT ![place][c] = @ + n]

(* publish(): one message, or two in duplicate mode. *)
Publish(e, times) == Enqueue("work", Fresh(e), times)

(* The TTL of a message in the retry queue runs out. *)
Expire(c) ==
    /\ queues["retry"][c] > 0
    /\ queues' = [queues EXCEPT !["retry"][c] = @ - 1, !["work"][c] = @ + 1]
=============================================================================
