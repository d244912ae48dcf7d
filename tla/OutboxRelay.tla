----------------------------- MODULE OutboxRelay -----------------------------
(***************************************************************************)
(* The outbox table of one service and the relay threads that drain it, one*)
(* in each replica.  A handler inserts a row, which takes the next id of   *)
(* the BIGSERIAL at once, and commits it later or never.  A relay claims a *)
(* batch FOR UPDATE SKIP LOCKED, publishes it in id order, marks it and    *)
(* commits.  A paused relay is one that does not claim for a while.        *)
(***************************************************************************)
EXTENDS Broker

CONSTANTS
    Relay,      \* the relay threads of the service
    Batch       \* the LIMIT of a claim, 50 in the code

ASSUME BatchAssumption == Batch \in Nat \ {0}

VARIABLES
    outbox,     \* outbox[e]: the row of e
    lastId,     \* the sequence behind outbox.id
    relays      \* relays[r]: the rows r has claimed, and those of them it has published

relayVars == <<outbox, lastId, relays>>

(* "open": inserted by a transaction in progress.  "published": published_at is set. *)
RowState == {"absent", "open", "committed", "published"}

Idle == [claim |-> {}, done |-> {}]

RelayTypeOK ==
    /\ outbox \in [EventId -> [id : Nat, row : RowState]]
    /\ lastId \in Nat
    /\ relays \in [Relay -> [claim : SUBSET EventId, done : SUBSET EventId]]

RelayInit ==
    /\ outbox = [e \in EventId |-> [id |-> 0, row |-> "absent"]]
    /\ lastId = 0
    /\ relays = [r \in Relay |-> Idle]

(* stage_event, in the transaction of a handler. *)
Stage(e) ==
    /\ outbox[e].row = "absent"
    /\ lastId' = lastId + 1
    /\ outbox' = [outbox EXCEPT ![e] = [id |-> lastId + 1, row |-> "open"]]
    /\ UNCHANGED <<relays, queues>>

(* The handler commits. *)
CommitStage(e) ==
    /\ outbox[e].row = "open"
    /\ outbox' = [outbox EXCEPT ![e].row = "committed"]
    /\ UNCHANGED <<lastId, relays, queues>>

(* The handler rolls back: the row is gone, its id is not used again. *)
RollbackStage(e) ==
    /\ outbox[e].row = "open"
    /\ outbox' = [outbox EXCEPT ![e] = [id |-> 0, row |-> "absent"]]
    /\ UNCHANGED <<lastId, relays, queues>>

(* Bug: the relay sees rows of transactions in progress. *)
ClaimableUncommitted(e) ==
    /\ outbox[e].row \in {"open", "committed"}
    /\ \A r \in Relay : e \notin relays[r].claim

Claimable(e) ==
    /\ outbox[e].row = "committed"
    /\ \A r \in Relay : e \notin relays[r].claim

(* The Batch first of the unpublished rows that no other relay has locked. *)
Claim(r) ==
    LET free == {e \in EventId : Claimable(e)}
        older(e) == {f \in free : outbox[f].id < outbox[e].id}
    IN  /\ relays[r] = Idle
        /\ free # {}
        /\ relays' = [relays EXCEPT ![r].claim = {e \in free : Cardinality(older(e)) < Batch}]
        /\ UNCHANGED <<outbox, lastId, queues>>

(* The next row of the batch in id order: publish it and mark it, uncommitted. *)
PublishRow(r, e, times) ==
    /\ e \in relays[r].claim \ relays[r].done
    /\ \A f \in relays[r].claim \ relays[r].done : outbox[e].id <= outbox[f].id
    /\ Publish(e, times)
    /\ relays' = [relays EXCEPT ![r].done = @ \cup {e}]
    /\ UNCHANGED <<outbox, lastId>>

(* Bug: the whole batch is marked when its first row is published. *)
CommitBatchEarly(r) ==
    /\ relays[r].done # {}
    /\ outbox' = [e \in EventId |->
                    IF e \in relays[r].claim THEN [outbox[e] EXCEPT !.row = "published"] ELSE outbox[e]]
    /\ relays' = [relays EXCEPT ![r] = Idle]
    /\ UNCHANGED <<lastId, queues>>

(* The batch is published to its end: commit the marks. *)
CommitBatch(r) ==
    /\ relays[r].claim # {}
    /\ relays[r].done = relays[r].claim
    /\ outbox' = [e \in EventId |->
                    IF e \in relays[r].claim THEN [outbox[e] EXCEPT !.row = "published"] ELSE outbox[e]]
    /\ relays' = [relays EXCEPT ![r] = Idle]
    /\ UNCHANGED <<lastId, queues>>

(* The process dies or the broker's connection breaks within the batch: the claims and the
   marks are rolled back, what was published is. *)
RelayFails(r) ==
    /\ relays[r] # Idle
    /\ relays' = [relays EXCEPT ![r] = Idle]
    /\ UNCHANGED <<outbox, lastId, queues>>

RelayStep(r) ==
    \/ Claim(r)
    \/ \E e \in EventId : PublishRow(r, e, 1)
    \/ CommitBatch(r)
=============================================================================
