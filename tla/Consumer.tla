------------------------------ MODULE Consumer ------------------------------
(***************************************************************************)
(* consume() and handle_once in the replicas of one service: prefetch 1, an*)
(* effect per event_id, a retry queue with a counter carried in a header,  *)
(* and an acknowledgement that always comes last.                          *)
(***************************************************************************)
EXTENDS Broker

CONSTANT Worker     \* the replicas, a consumer thread each

VARIABLES
    workers,    \* workers[w]: what w does with the copy it has not acknowledged
    processed,  \* the event_ids in processed_events
    effects,    \* effects[e]: how often the work of e was committed
    raises      \* raises[e]: how often a handler of e raised, counted up to MaxAttempts

workerVars == <<workers, processed, effects, raises>>

(* "delivered": before the INSERT of the event_id.  "first": it affected a row, and the
   transaction holds it.  "done" and "moved": only the ack is left. *)
Stages == {"idle", "delivered", "first", "done", "raised", "moved"}

Waiting == [pc |-> "idle", copy |-> Fresh("none")]

ConsumerTypeOK ==
    /\ workers \in [Worker -> {Waiting} \cup [pc : Stages \ {"idle"}, copy : Copy]]
    /\ processed \subseteq EventId
    /\ effects \in [EventId -> Nat]
    /\ raises \in [EventId -> Nat]

ConsumerInit ==
    /\ workers = [w \in Worker |-> Waiting]
    /\ processed = {}
    /\ effects = [e \in EventId |-> 0]
    /\ raises = [e \in EventId |-> 0]

Holds(w, pc) == workers[w].pc = pc

EventOf(w) == workers[w].copy.event

(* With prefetch 1 the broker waits for the ack before it sends the next message. *)
Deliver(w, c) ==
    /\ Holds(w, "idle")
    /\ queues["work"][c] > 0
    /\ queues' = [queues EXCEPT !["work"][c] = @ - 1]
    /\ workers' = [workers EXCEPT ![w] = [pc |-> "delivered", copy |-> c]]
    /\ UNCHANGED <<processed, effects, raises>>

(* A body that is not JSON goes straight to the dead-letter queue. *)
Poison(w) ==
    /\ Holds(w, "delivered")
    /\ EventOf(w) \in Garbled
    /\ Enqueue("dlq", workers[w].copy, 1)
    /\ workers' = [workers EXCEPT ![w].pc = "moved"]
    /\ UNCHANGED <<processed, effects, raises>>

(* Bug: the event_id is looked up first and inserted later. *)
InsertFirstUnlocked(w) ==
    /\ Holds(w, "delivered")
    /\ EventOf(w) \in EventId \ processed
    /\ workers' = [workers EXCEPT ![w].pc = "first"]
    /\ UNCHANGED <<queues, processed, effects, raises>>

(* INSERT INTO processed_events ... ON CONFLICT DO NOTHING waits for a transaction that
   inserted the same event_id. *)
InsertFirst(w) ==
    /\ Holds(w, "delivered")
    /\ EventOf(w) \in EventId \ processed
    /\ \A v \in Worker : Holds(v, "first") => EventOf(v) # EventOf(w)
    /\ workers' = [workers EXCEPT ![w].pc = "first"]
    /\ UNCHANGED <<queues, processed, effects, raises>>

(* The INSERT affected no row: nothing to do. *)
Duplicate(w) ==
    /\ Holds(w, "delivered")
    /\ EventOf(w) \in processed
    /\ workers' = [workers EXCEPT ![w].pc = "done"]
    /\ UNCHANGED <<queues, processed, effects, raises>>

CommitWork(w) ==
    /\ Holds(w, "first")
    /\ processed' = processed \cup {EventOf(w)}
    /\ effects' = [effects EXCEPT ![EventOf(w)] = @ + 1]
    /\ workers' = [workers EXCEPT ![w].pc = "done"]
    /\ UNCHANGED <<queues, raises>>

(* The handler raises, before or within its transaction, which is rolled back. *)
Raise(w) ==
    /\ Holds(w, "delivered") \/ Holds(w, "first")
    /\ EventOf(w) \in EventId
    /\ raises' = [raises EXCEPT ![EventOf(w)] = IF @ < MaxAttempts THEN @ + 1 ELSE @]
    /\ workers' = [workers EXCEPT ![w].pc = "raised"]
    /\ UNCHANGED <<queues, processed, effects>>

Retried(c) == [c EXCEPT !.retries = @ + 1]

(* Bug: the copy after the last attempt is acknowledged and nothing else. *)
RepublishDropsLast(w) ==
    /\ Holds(w, "raised")
    /\ LET c == Retried(workers[w].copy)
       IN  IF c.retries >= MaxAttempts THEN UNCHANGED queues ELSE Enqueue("retry", c, 1)
    /\ workers' = [workers EXCEPT ![w].pc = "moved"]
    /\ UNCHANGED <<processed, effects, raises>>

(* Bug: off by one, the last attempt is not made. *)
RepublishGivesUpEarly(w) ==
    /\ Holds(w, "raised")
    /\ LET c == Retried(workers[w].copy)
       IN  Enqueue(IF c.retries + 1 >= MaxAttempts THEN "dlq" ELSE "retry", c, 1)
    /\ workers' = [workers EXCEPT ![w].pc = "moved"]
    /\ UNCHANGED <<processed, effects, raises>>

(* Publish the copy again, with its counter raised, to wait or to be given up. *)
Republish(w) ==
    /\ Holds(w, "raised")
    /\ LET c == Retried(workers[w].copy)
       IN  Enqueue(IF c.retries >= MaxAttempts THEN "dlq" ELSE "retry", c, 1)
    /\ workers' = [workers EXCEPT ![w].pc = "moved"]
    /\ UNCHANGED <<processed, effects, raises>>

(* Bug: the last message is remembered after its ack. *)
AckKeepsCopy(w) ==
    /\ Holds(w, "done") \/ Holds(w, "moved")
    /\ workers' = [workers EXCEPT ![w].pc = "idle"]
    /\ UNCHANGED <<queues, processed, effects, raises>>

Ack(w) ==
    /\ Holds(w, "done") \/ Holds(w, "moved")
    /\ workers' = [workers EXCEPT ![w] = Waiting]
    /\ UNCHANGED <<queues, processed, effects, raises>>

(* The process dies: its transaction is rolled back and the broker requeues the copy as it was,
   also one that is already republished.  A handler that loses its channel and still commits,
   while the copy is delivered again, leaves what CommitWork and then this step leave. *)
Crash(w) ==
    /\ ~Holds(w, "idle")
    /\ Enqueue("work", workers[w].copy, 1)
    /\ workers' = [workers EXCEPT ![w] = Waiting]
    /\ UNCHANGED <<processed, effects, raises>>

WorkerStep(w) ==
    \/ \E c \in Copy : Deliver(w, c)
    \/ Poison(w)
    \/ InsertFirst(w)
    \/ Duplicate(w)
    \/ CommitWork(w)
    \/ Raise(w)
    \/ Republish(w)
    \/ Ack(w)
=============================================================================
