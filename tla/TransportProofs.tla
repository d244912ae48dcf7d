-------------------------- MODULE TransportProofs ---------------------------
(***************************************************************************)
(* The delivery promises of one link, for every set of events, relays and  *)
(* replicas, every batch size, number of attempts and number of failures.  *)
(***************************************************************************)
EXTENDS Transport, TLAPS

Has(p, c) == queues[p][c] > 0

(* The event of a copy whose fate is still open, or that was processed. *)
Safe(e) ==
    \/ e \in processed
    \/ \E p \in Place, c \in Copy : c.event = e /\ Has(p, c)
    \/ \E w \in Worker : workers[w].pc \in {"delivered", "first", "raised", "done"} /\ EventOf(w) = e

(* A relay has locked committed rows, no two relays the same. *)
RelayInv ==
    /\ \A r \in Relay : relays[r].done \subseteq relays[r].claim
    /\ \A r \in Relay : \A e \in relays[r].claim : outbox[e].row = "committed"
    /\ \A r, s \in Relay : relays[r].claim \cap relays[s].claim # {} => r = s

(* Who has published an event, or a copy of it again, has put it where it is safe without
   him: a replica that only has to acknowledge does not count. *)
SafeInv ==
    \A e \in EventId :
        \/ outbox[e].row = "published"
        \/ \E r \in Relay : e \in relays[r].done
        \/ \E w \in Worker : Holds(w, "moved") /\ EventOf(w) = e
        => Safe(e)

(* What travels was committed. *)
OriginInv ==
    /\ \A p \in Place, c \in Copy : Has(p, c) /\ c.event \in EventId => c.event \in Committed
    /\ \A w \in Worker : ~Holds(w, "idle") /\ EventOf(w) \in EventId => EventOf(w) \in Committed
    /\ processed \subseteq Committed

(* processed_events keeps the replicas apart. *)
EffectInv ==
    /\ \A w \in Worker : workers[w].pc \in {"first", "done", "raised"} => EventOf(w) \in EventId
    /\ \A w \in Worker : Holds(w, "done") => EventOf(w) \in processed
    /\ \A w \in Worker : Holds(w, "first") => EventOf(w) \notin processed
    /\ \A v, w \in Worker : Holds(v, "first") /\ Holds(w, "first") /\ EventOf(v) = EventOf(w) => v = w
    /\ EffectOnce

(* The header of a copy never counts more attempts than have been made. *)
AttemptInv ==
    /\ \A p \in {"work", "retry"}, c \in Copy :
          Has(p, c) /\ c.event \in EventId => c.retries < MaxAttempts /\ c.retries <= raises[c.event]
    /\ \A w \in Worker : ~Holds(w, "idle") /\ EventOf(w) \in EventId =>
          /\ workers[w].copy.retries < MaxAttempts
          /\ workers[w].copy.retries <= raises[EventOf(w)]
          /\ Holds(w, "raised") => workers[w].copy.retries < raises[EventOf(w)]
    /\ GivenUpAfterAllAttempts

LinkTyped == BrokerTypeOK /\ RelayTypeOK /\ ConsumerTypeOK

LinkInv == LinkTyped /\ RelayInv /\ SafeInv /\ OriginInv /\ EffectInv /\ AttemptInv

-----------------------------------------------------------------------------
(* What the operations of the broker do to its queues. *)
LEMMA EnqueueEffect ==
    ASSUME BrokerTypeOK, NEW place \in Place, NEW c \in Copy, NEW n \in Nat \ {0}, Enqueue(place, c, n)
    PROVE  /\ BrokerTypeOK'
           /\ \A p \in Place, d \in Copy : Has(p, d)' <=> Has(p, d) \/ (p = place /\ d = c)
<1> USE DEF BrokerTypeOK, Enqueue, Has
<1>1. BrokerTypeOK'
  OBVIOUS
<1>2. \A p \in Place, d \in Copy :
         queues'[p][d] = IF p = place /\ d = c THEN queues[p][d] + n ELSE queues[p][d]
  OBVIOUS
<1>3. \A p \in Place, d \in Copy : queues[p][d] \in Nat
  OBVIOUS
<1> QED
  BY <1>1, <1>2, <1>3

LEMMA TakeEffect ==
    ASSUME BrokerTypeOK, NEW c \in Copy, Has("work", c),
           queues' = [queues EXCEPT !["work"][c] = @ - 1]
    PROVE  /\ BrokerTypeOK'
           /\ \A p \in Place, d \in Copy : Has(p, d)' => Has(p, d)
           /\ \A p \in Place, d \in Copy : Has(p, d) => Has(p, d)' \/ d = c
<1> USE DEF BrokerTypeOK, Has
<1>1. "work" \in Place
  BY DEF Place
<1>2. \A p \in Place, d \in Copy :
         queues'[p][d] = IF p = "work" /\ d = c THEN queues[p][d] - 1 ELSE queues[p][d]
  BY <1>1
<1>3. \A p \in Place, d \in Copy : queues[p][d] \in Nat
  OBVIOUS
<1>4. BrokerTypeOK'
  <2>1. queues["work"][c] - 1 \in Nat
    BY <1>1
  <2> QED
    BY <1>1, <2>1
<1> QED
  BY <1>2, <1>3, <1>4

LEMMA ExpireEffect ==
    ASSUME BrokerTypeOK, NEW c \in Copy, Expire(c)
    PROVE  /\ BrokerTypeOK'
           /\ Has("retry", c)
           /\ \A p \in Place, d \in Copy : Has(p, d)' => Has(p, d) \/ (p = "work" /\ d = c)
           /\ \A p \in Place, d \in Copy : Has(p, d) => Has(p, d)' \/ (d = c /\ Has("work", c)')
<1> USE DEF BrokerTypeOK, Has, Expire
<1>1. "work" \in Place /\ "retry" \in Place
  BY DEF Place
<1>2. \A p \in Place, d \in Copy : queues[p][d] \in Nat
  OBVIOUS
<1>3. \A p \in Place, d \in Copy :
         queues'[p][d] = IF p = "work" /\ d = c THEN queues[p][d] + 1
                         ELSE IF p = "retry" /\ d = c THEN queues[p][d] - 1
                         ELSE queues[p][d]
  BY <1>1
<1>4. \A p \in Place, d \in Copy : queues'[p][d] \in Nat
  BY <1>1, <1>2, <1>3
<1>5. queues' = [p \in Place |-> [d \in Copy |-> queues'[p][d]]]
  BY <1>1
<1>6. BrokerTypeOK'
  BY <1>4, <1>5
<1>7. QED
  <2>1. Has("retry", c)
    OBVIOUS
  <2>2. \A p \in Place, d \in Copy : Has(p, d)' => Has(p, d) \/ (p = "work" /\ d = c)
    BY <1>1, <1>2, <1>3
  <2>3. \A p \in Place, d \in Copy : Has(p, d) => Has(p, d)' \/ (d = c /\ Has("work", c)')
    BY <1>1, <1>2, <1>3
  <2> QED
    BY <1>6, <2>1, <2>2, <2>3

-----------------------------------------------------------------------------
(* A step of the outbox tables alone: only its own part needs an argument. *)
LEMMA OutboxStepKeeps ==
    ASSUME LinkInv, UNCHANGED <<queues, workerVars>>, RelayTypeOK', RelayInv',
           Committed \subseteq Committed',
           \A e \in EventId :
              outbox'[e].row = "published" \/ (\E r \in Relay : e \in relays'[r].done)
              => outbox[e].row = "published" \/ (\E r \in Relay : e \in relays[r].done)
    PROVE  LinkInv'
<1> USE DEF LinkInv, workerVars
<1>1. LinkTyped'
  BY DEF LinkTyped, BrokerTypeOK, ConsumerTypeOK
<1>2. \A e : Safe(e)' <=> Safe(e)
  BY DEF Safe, Has, EventOf
<1>3. SafeInv'
  BY <1>2 DEF SafeInv, Holds, EventOf
<1>4. OriginInv'
  BY DEF OriginInv, Has, Holds, EventOf
<1>5. EffectInv'
  BY DEF EffectInv, EffectOnce, Holds, EventOf
<1>6. AttemptInv'
  BY DEF AttemptInv, GivenUpAfterAllAttempts, Buried, Has, Holds, EventOf
<1> QED
  BY <1>1, <1>3, <1>4, <1>5, <1>6

LEMMA StagingKeeps ==
    ASSUME LinkInv, NEW e \in EventId, Stage(e) \/ CommitStage(e) \/ RollbackStage(e),
           UNCHANGED workerVars
    PROVE  LinkInv'
<1> USE DEF LinkInv, LinkTyped, Stage, CommitStage, RollbackStage
<1>1. PICK id \in Nat, row \in RowState \ {"published"} :
         /\ outbox' \in [EventId -> [id : Nat, row : RowState]]
         /\ \A f \in EventId \ {e} : outbox'[f] = outbox[f]
         /\ outbox'[e] = [id |-> id, row |-> row]
         /\ outbox[e].row \in {"open", "absent"}
  <2>1. CASE Stage(e)
    <3>1. lastId + 1 \in Nat /\ "open" \in RowState
      BY DEF RelayTypeOK, RowState
    <3>2. outbox'[e] = [id |-> lastId + 1, row |-> "open"]
      BY <2>1 DEF RelayTypeOK
    <3>3. outbox' \in [EventId -> [id : Nat, row : RowState]]
      BY <2>1, <3>1 DEF RelayTypeOK
    <3>4. \A f \in EventId \ {e} : outbox'[f] = outbox[f]
      BY <2>1 DEF RelayTypeOK
    <3>5. outbox[e].row \in {"open", "absent"}
      BY <2>1
    <3> QED
      BY <3>1, <3>2, <3>3, <3>4, <3>5
  <2>2. CASE CommitStage(e)
    <3>1. outbox[e].id \in Nat /\ "committed" \in RowState
      BY DEF RelayTypeOK, RowState
    <3>2. outbox'[e] = [id |-> outbox[e].id, row |-> "committed"]
      BY <2>2 DEF RelayTypeOK
    <3>3. outbox' \in [EventId -> [id : Nat, row : RowState]]
      BY <2>2, <3>1 DEF RelayTypeOK
    <3>4. \A f \in EventId \ {e} : outbox'[f] = outbox[f]
      BY <2>2 DEF RelayTypeOK
    <3>5. outbox[e].row \in {"open", "absent"}
      BY <2>2
    <3> QED
      BY <3>1, <3>2, <3>3, <3>4, <3>5
  <2>3. CASE RollbackStage(e)
    <3>1. 0 \in Nat /\ "absent" \in RowState
      BY DEF RelayTypeOK, RowState
    <3>2. outbox'[e] = [id |-> 0, row |-> "absent"]
      BY <2>3 DEF RelayTypeOK
    <3>3. outbox' \in [EventId -> [id : Nat, row : RowState]]
      BY <2>3, <3>1 DEF RelayTypeOK
    <3>4. \A f \in EventId \ {e} : outbox'[f] = outbox[f]
      BY <2>3 DEF RelayTypeOK
    <3>5. outbox[e].row \in {"open", "absent"}
      BY <2>3
    <3> QED
      BY <3>1, <3>2, <3>3, <3>4, <3>5
  <2> QED
    BY <2>1, <2>2, <2>3
<1>2. UNCHANGED <<queues, relays>> /\ lastId' \in Nat
  BY DEF RelayTypeOK
<1>3. RelayTypeOK'
  BY <1>1, <1>2 DEF RelayTypeOK
<1>4. RelayInv'
  BY <1>1, <1>2 DEF RelayInv, RelayTypeOK
<1>5. Committed \subseteq Committed'
  BY <1>1 DEF Committed
<1> QED
  BY <1>1, <1>2, <1>3, <1>4, <1>5, OutboxStepKeeps

LEMMA ClaimKeeps ==
    ASSUME LinkInv, NEW r \in Relay, Claim(r), UNCHANGED workerVars
    PROVE  LinkInv'
<1> USE DEF LinkInv, LinkTyped
<1>1. PICK S \in SUBSET EventId :
         /\ \A e \in S : Claimable(e)
         /\ relays' = [relays EXCEPT ![r].claim = S]
  BY DEF Claim
<1>2. UNCHANGED <<outbox, lastId, queues>> /\ relays[r] = Idle
  BY DEF Claim
<1>3. /\ \A s \in Relay \ {r} : relays'[s] = relays[s]
      /\ relays'[r] = [claim |-> S, done |-> {}]
  <2>1. relays'[r] = [Idle EXCEPT !.claim = S]
    BY <1>1, <1>2 DEF RelayTypeOK
  <2>2. \A s \in Relay \ {r} : relays'[s] = relays[s]
    BY <1>1 DEF RelayTypeOK
  <2> QED
    BY <2>1, <2>2 DEF Idle
<1>4. RelayTypeOK'
  BY <1>1, <1>2, <1>3 DEF RelayTypeOK
<1>5. RelayInv'
  BY <1>1, <1>2, <1>3 DEF RelayInv, Claimable
<1>6. Committed \subseteq Committed'
  BY <1>2 DEF Committed
<1> QED
  BY <1>2, <1>3, <1>4, <1>5, <1>6, OutboxStepKeeps

LEMMA CommitBatchKeeps ==
    ASSUME LinkInv, NEW r \in Relay, CommitBatch(r), UNCHANGED workerVars
    PROVE  LinkInv'
<1> USE DEF LinkInv, LinkTyped, CommitBatch
<1>1. UNCHANGED <<lastId, queues>>
  OBVIOUS
<1>2. /\ \A s \in Relay \ {r} : relays'[s] = relays[s]
      /\ relays'[r] = Idle
  BY DEF RelayTypeOK
<1>3. \A e \in EventId :
         outbox'[e] = IF e \in relays[r].claim THEN [id |-> outbox[e].id, row |-> "published"]
                      ELSE outbox[e]
  BY DEF RelayTypeOK
<1>4. RelayTypeOK'
  <2>1. relays' \in [Relay -> [claim : SUBSET EventId, done : SUBSET EventId]]
    BY DEF RelayTypeOK, Idle
  <2>2. outbox' \in [EventId -> [id : Nat, row : RowState]]
    BY <1>3 DEF RelayTypeOK, RowState
  <2> QED
    BY <1>1, <2>1, <2>2 DEF RelayTypeOK
<1>5. RelayInv'
  BY <1>2, <1>3 DEF RelayInv, RelayTypeOK, Idle
<1>6. Committed \subseteq Committed'
  BY <1>3 DEF Committed
<1>7. \A e \in EventId :
         outbox'[e].row = "published" \/ (\E s \in Relay : e \in relays'[s].done)
         => outbox[e].row = "published" \/ (\E s \in Relay : e \in relays[s].done)
  BY <1>2, <1>3 DEF Idle
<1> QED
  BY <1>1, <1>4, <1>5, <1>6, <1>7, OutboxStepKeeps

LEMMA RelayFailsKeeps ==
    ASSUME LinkInv, NEW r \in Relay, RelayFails(r), UNCHANGED workerVars
    PROVE  LinkInv'
<1> USE DEF LinkInv, LinkTyped, RelayFails
<1>1. /\ \A s \in Relay \ {r} : relays'[s] = relays[s]
      /\ relays'[r] = Idle
  BY DEF RelayTypeOK
<1>2. RelayTypeOK'
  BY DEF RelayTypeOK, Idle
<1>3. RelayInv'
  BY <1>1 DEF RelayInv, Idle
<1>4. Committed \subseteq Committed'
  BY DEF Committed
<1>5. \A e \in EventId :
         outbox'[e].row = "published" \/ (\E s \in Relay : e \in relays'[s].done)
         => outbox[e].row = "published" \/ (\E s \in Relay : e \in relays[s].done)
  BY <1>1 DEF Idle
<1> QED
  BY <1>2, <1>3, <1>4, <1>5, OutboxStepKeeps

(* What is published is safe before its row is marked. *)
LEMMA PublishRowKeeps ==
    ASSUME LinkInv, NEW r \in Relay, NEW e \in EventId, NEW n \in Nat \ {0}, PublishRow(r, e, n),
           UNCHANGED workerVars
    PROVE  LinkInv'
<1> USE DEF LinkInv, workerVars
<1>1. /\ e \in relays[r].claim
      /\ relays' = [relays EXCEPT ![r].done = @ \cup {e}]
      /\ UNCHANGED <<outbox, lastId>>
  BY DEF PublishRow
<1>2. Fresh(e) \in Copy /\ Fresh(e).event = e /\ Fresh(e).retries = 0 /\ "work" \in Place
  BY MaxAttemptsAssumption DEF Fresh, Copy, Place
<1>3. /\ BrokerTypeOK'
      /\ \A p \in Place, d \in Copy : Has(p, d)' <=> Has(p, d) \/ (p = "work" /\ d = Fresh(e))
  BY <1>2, EnqueueEffect DEF PublishRow, Publish, LinkTyped
<1>4. /\ \A s \in Relay \ {r} : relays'[s] = relays[s]
      /\ relays'[r] = [claim |-> relays[r].claim, done |-> relays[r].done \cup {e}]
  BY <1>1 DEF LinkTyped, RelayTypeOK
<1>5. LinkTyped'
  BY <1>1, <1>3, <1>4 DEF LinkTyped, RelayTypeOK, ConsumerTypeOK
<1>6. RelayInv'
  BY <1>1, <1>4 DEF RelayInv
<1>7. Safe(e)' /\ \A f \in EventId : Safe(f) => Safe(f)'
  BY <1>2, <1>3 DEF Safe, EventOf
<1>8. SafeInv'
  BY <1>1, <1>4, <1>7 DEF SafeInv, Holds, EventOf
<1>9. OriginInv'
  <2>1. e \in Committed /\ Committed' = Committed
    BY <1>1 DEF RelayInv, Committed
  <2> QED
    BY <1>2, <1>3, <2>1 DEF OriginInv, Holds, EventOf
<1>10. EffectInv'
  BY DEF EffectInv, EffectOnce, Holds, EventOf
<1>11. AttemptInv'
  <2>1. 0 < MaxAttempts /\ 0 <= raises[e]
    BY MaxAttemptsAssumption DEF LinkTyped, ConsumerTypeOK
  <2>2. \A p \in {"work", "retry"}, c \in Copy : Has(p, c)' /\ c.event \in EventId =>
           c.retries < MaxAttempts /\ c.retries <= raises[c.event]
    BY <1>2, <1>3, <2>1 DEF AttemptInv, Place
  <2>3. \A f : Buried(f)' => Buried(f)
    BY <1>3 DEF Buried, Has, Place
  <2>4. GivenUpAfterAllAttempts'
    BY <2>3 DEF AttemptInv, GivenUpAfterAllAttempts
  <2> QED
    BY <2>2, <2>4 DEF AttemptInv, Holds, EventOf
<1> QED
  BY <1>5, <1>6, <1>8, <1>9, <1>10, <1>11

(* A step of the queues and the replicas. *)
LEMMA ReplicaStepKeeps ==
    ASSUME LinkInv, UNCHANGED relayVars, BrokerTypeOK', ConsumerTypeOK',
           OriginInv', EffectInv', AttemptInv',
           \A e \in EventId : Safe(e) => Safe(e)',
           \A w \in Worker, e \in EventId : (Holds(w, "moved") /\ EventOf(w) = e)' =>
              (Holds(w, "moved") /\ EventOf(w) = e) \/ Safe(e)'
    PROVE  LinkInv'
<1> USE DEF LinkInv, relayVars
<1>1. LinkTyped'
  BY DEF LinkTyped, RelayTypeOK
<1>2. RelayInv'
  BY DEF RelayInv
<1>3. SafeInv'
  BY DEF SafeInv
<1> QED
  BY <1>1, <1>2, <1>3

LEMMA InsertFirstKeeps ==
    ASSUME LinkInv, NEW w \in Worker, InsertFirst(w), UNCHANGED relayVars
    PROVE  LinkInv'
<1> USE DEF LinkInv, LinkTyped, InsertFirst
<1>1. /\ workers[w] \in [pc : Stages \ {"idle"}, copy : Copy]
      /\ workers[w].pc \in {"delivered"} /\ EventOf(w) \in EventId
      /\ UNCHANGED queues /\ EventOf(w) \notin processed
  BY GarbledAssumption DEF ConsumerTypeOK, Waiting, Holds, EffectInv
<1>2. /\ \A v \in Worker \ {w} : workers'[v] = workers[v]
      /\ workers'[w] = [pc |-> "first", copy |-> workers[w].copy]
  BY <1>1 DEF ConsumerTypeOK
<1>3. ConsumerTypeOK'
  BY <1>1, <1>2 DEF ConsumerTypeOK, Stages, BrokerTypeOK
<1>4. OriginInv'
  BY <1>1, <1>2 DEF OriginInv, Has, Holds, EventOf, Committed, relayVars
<1>5. EffectInv'
  BY <1>1, <1>2 DEF EffectInv, EffectOnce, Holds, EventOf, ConsumerTypeOK
<1>6. AttemptInv'
  BY <1>1, <1>2 DEF AttemptInv, GivenUpAfterAllAttempts, Buried, Has, Holds, EventOf, ConsumerTypeOK
<1>7. \A e \in EventId : Safe(e) => Safe(e)'
  BY <1>1, <1>2 DEF Safe, Has, Holds, EventOf
<1>8. \A v \in Worker, e \in EventId :
         (Holds(v, "moved") /\ EventOf(v) = e)' => Holds(v, "moved") /\ EventOf(v) = e
  BY <1>2 DEF Holds, EventOf
<1> QED
  BY <1>1, <1>3, <1>4, <1>5, <1>6, <1>7, <1>8, ReplicaStepKeeps DEF BrokerTypeOK

LEMMA DuplicateKeeps ==
    ASSUME LinkInv, NEW w \in Worker, Duplicate(w), UNCHANGED relayVars
    PROVE  LinkInv'
<1> USE DEF LinkInv, LinkTyped, Duplicate
<1>1. /\ workers[w] \in [pc : Stages \ {"idle"}, copy : Copy]
      /\ workers[w].pc \in {"delivered"} /\ EventOf(w) \in EventId
      /\ UNCHANGED queues /\ EventOf(w) \in processed
  BY GarbledAssumption DEF ConsumerTypeOK, Waiting, Holds, EffectInv
<1>2. /\ \A v \in Worker \ {w} : workers'[v] = workers[v]
      /\ workers'[w] = [pc |-> "done", copy |-> workers[w].copy]
  BY <1>1 DEF ConsumerTypeOK
<1>3. ConsumerTypeOK'
  BY <1>1, <1>2 DEF ConsumerTypeOK, Stages, BrokerTypeOK
<1>4. OriginInv'
  BY <1>1, <1>2 DEF OriginInv, Has, Holds, EventOf, Committed, relayVars
<1>5. EffectInv'
  BY <1>1, <1>2 DEF EffectInv, EffectOnce, Holds, EventOf, ConsumerTypeOK
<1>6. AttemptInv'
  BY <1>1, <1>2 DEF AttemptInv, GivenUpAfterAllAttempts, Buried, Has, Holds, EventOf, ConsumerTypeOK
<1>7. \A e \in EventId : Safe(e) => Safe(e)'
  BY <1>1, <1>2 DEF Safe, Has, Holds, EventOf
<1>8. \A v \in Worker, e \in EventId :
         (Holds(v, "moved") /\ EventOf(v) = e)' => Holds(v, "moved") /\ EventOf(v) = e
  BY <1>2 DEF Holds, EventOf
<1> QED
  BY <1>1, <1>3, <1>4, <1>5, <1>6, <1>7, <1>8, ReplicaStepKeeps DEF BrokerTypeOK

(* The event_id and the work are committed together, by one replica. *)
LEMMA CommitWorkKeeps ==
    ASSUME LinkInv, NEW w \in Worker, CommitWork(w), UNCHANGED relayVars
    PROVE  LinkInv'
<1> USE DEF LinkInv, LinkTyped, CommitWork
<1>1. /\ workers[w] \in [pc : Stages \ {"idle"}, copy : Copy]
      /\ workers[w].pc \in {"first"} /\ EventOf(w) \in EventId
      /\ UNCHANGED queues
  BY GarbledAssumption DEF ConsumerTypeOK, Waiting, Holds, EffectInv
<1>2. /\ \A v \in Worker \ {w} : workers'[v] = workers[v]
      /\ workers'[w] = [pc |-> "done", copy |-> workers[w].copy]
  BY <1>1 DEF ConsumerTypeOK
<1>3. ConsumerTypeOK'
  BY <1>1, <1>2 DEF ConsumerTypeOK, Stages, BrokerTypeOK
<1>4. OriginInv'
  BY <1>1, <1>2 DEF OriginInv, Has, Holds, EventOf, Committed, relayVars
<1>5. EffectInv'
  BY <1>1, <1>2 DEF EffectInv, EffectOnce, Holds, EventOf, ConsumerTypeOK
<1>6. AttemptInv'
  BY <1>1, <1>2 DEF AttemptInv, GivenUpAfterAllAttempts, Buried, Has, Holds, EventOf, ConsumerTypeOK
<1>7. \A e \in EventId : Safe(e) => Safe(e)'
  BY <1>1, <1>2 DEF Safe, Has, Holds, EventOf
<1>8. \A v \in Worker, e \in EventId :
         (Holds(v, "moved") /\ EventOf(v) = e)' => Holds(v, "moved") /\ EventOf(v) = e
  BY <1>2 DEF Holds, EventOf
<1> QED
  BY <1>1, <1>3, <1>4, <1>5, <1>6, <1>7, <1>8, ReplicaStepKeeps DEF BrokerTypeOK

LEMMA RaiseKeeps ==
    ASSUME LinkInv, NEW w \in Worker, Raise(w), UNCHANGED relayVars
    PROVE  LinkInv'
<1> USE DEF LinkInv, LinkTyped, Raise
<1>1. /\ workers[w] \in [pc : Stages \ {"idle"}, copy : Copy]
      /\ workers[w].pc \in {"delivered", "first"} /\ EventOf(w) \in EventId
      /\ UNCHANGED queues
  BY GarbledAssumption DEF ConsumerTypeOK, Waiting, Holds, EffectInv
<1>2. /\ \A v \in Worker \ {w} : workers'[v] = workers[v]
      /\ workers'[w] = [pc |-> "raised", copy |-> workers[w].copy]
  BY <1>1 DEF ConsumerTypeOK
<1>3. ConsumerTypeOK'
  BY <1>1, <1>2 DEF ConsumerTypeOK, Stages, BrokerTypeOK
<1>4. OriginInv'
  BY <1>1, <1>2 DEF OriginInv, Has, Holds, EventOf, Committed, relayVars
<1>5. EffectInv'
  BY <1>1, <1>2 DEF EffectInv, EffectOnce, Holds, EventOf, ConsumerTypeOK
<1>6. AttemptInv'
  <2>1. /\ workers[w].copy.retries < MaxAttempts
        /\ workers[w].copy.retries <= raises[EventOf(w)]
        /\ workers[w].copy.retries \in Nat
    BY <1>1 DEF AttemptInv, Holds, Copy
  <2>2. /\ \A e \in EventId : raises[e] \in Nat /\ raises'[e] \in Nat /\ raises[e] <= raises'[e]
        /\ workers[w].copy.retries < raises'[EventOf(w)]
    BY <1>1, <2>1, MaxAttemptsAssumption DEF ConsumerTypeOK
  <2>3. \A c \in Copy : c.retries \in Nat
    BY DEF Copy
  <2>4. \A p \in {"work", "retry"}, c \in Copy :
           Has(p, c)' /\ c.event \in EventId => c.retries < MaxAttempts /\ c.retries <= raises'[c.event]
    BY <1>1, <2>2, <2>3 DEF AttemptInv, Has
  <2>5. GivenUpAfterAllAttempts'
    BY <1>1, <2>2, MaxAttemptsAssumption DEF AttemptInv, GivenUpAfterAllAttempts, Buried
  <2>6. \A v \in Worker : (~Holds(v, "idle") /\ EventOf(v) \in EventId =>
           /\ workers[v].copy.retries < MaxAttempts
           /\ workers[v].copy.retries <= raises[EventOf(v)]
           /\ Holds(v, "raised") => workers[v].copy.retries < raises[EventOf(v)])'
    <3> SUFFICES ASSUME NEW v \in Worker, (~Holds(v, "idle") /\ EventOf(v) \in EventId)'
                 PROVE  (/\ workers[v].copy.retries < MaxAttempts
                         /\ workers[v].copy.retries <= raises[EventOf(v)]
                         /\ Holds(v, "raised") => workers[v].copy.retries < raises[EventOf(v)])'
      OBVIOUS
    <3>1. CASE v = w
      BY <1>2, <2>1, <2>2, <3>1 DEF Holds, EventOf
    <3>2. CASE v # w
      <4>1. workers'[v] = workers[v] /\ workers[v].copy.retries \in Nat
        BY <1>2, <2>3, <3>2 DEF ConsumerTypeOK, Waiting, Holds
      <4>2. ~Holds(v, "idle") /\ EventOf(v) \in EventId
        BY <4>1 DEF Holds, EventOf
      <4>3. /\ workers[v].copy.retries < MaxAttempts
            /\ workers[v].copy.retries <= raises[EventOf(v)]
            /\ Holds(v, "raised") => workers[v].copy.retries < raises[EventOf(v)]
        BY <4>2 DEF AttemptInv
      <4> QED
        BY <2>2, <4>1, <4>2, <4>3, SMTT(30) DEF Holds, EventOf
    <3> QED
      BY <3>1, <3>2
  <2> QED
    BY <2>4, <2>5, <2>6 DEF AttemptInv
<1>7. \A e \in EventId : Safe(e) => Safe(e)'
  BY <1>1, <1>2 DEF Safe, Has, Holds, EventOf
<1>8. \A v \in Worker, e \in EventId :
         (Holds(v, "moved") /\ EventOf(v) = e)' => Holds(v, "moved") /\ EventOf(v) = e
  BY <1>2 DEF Holds, EventOf
<1> QED
  BY <1>1, <1>3, <1>4, <1>5, <1>6, <1>7, <1>8, ReplicaStepKeeps DEF BrokerTypeOK

LEMMA DeliverKeeps ==
    ASSUME LinkInv, NEW w \in Worker, NEW c \in Copy, Deliver(w, c), UNCHANGED relayVars
    PROVE  LinkInv'
<1> USE DEF LinkInv, LinkTyped, Deliver
<1>1. /\ workers[w].pc = "idle" /\ Has("work", c)
      /\ UNCHANGED <<processed, effects, raises>>
      /\ "work" \in Place
  BY DEF Has, Holds, Place
<1>2. /\ \A v \in Worker \ {w} : workers'[v] = workers[v]
      /\ workers'[w] = [pc |-> "delivered", copy |-> c]
  BY <1>1 DEF ConsumerTypeOK
<1>3. /\ BrokerTypeOK'
      /\ \A p \in Place, d \in Copy : Has(p, d)' => Has(p, d)
      /\ \A p \in Place, d \in Copy : Has(p, d) => Has(p, d)' \/ d = c
  BY <1>1, TakeEffect
<1>4. ConsumerTypeOK'
  BY <1>1, <1>2 DEF ConsumerTypeOK, Stages
<1>5. OriginInv'
  BY <1>1, <1>2, <1>3 DEF OriginInv, Holds, EventOf, Committed, relayVars
<1>6. EffectInv'
  BY <1>1, <1>2 DEF EffectInv, EffectOnce, Holds, EventOf
<1>7. AttemptInv'
  <2>1. \A e : Buried(e)' => Buried(e)
    BY <1>3 DEF Buried, Has, Place
  <2>2. GivenUpAfterAllAttempts'
    BY <1>1, <2>1 DEF AttemptInv, GivenUpAfterAllAttempts
  <2> QED
    BY <1>1, <1>2, <1>3, <2>2 DEF AttemptInv, Holds, EventOf, Place
<1>8. \A e \in EventId : Safe(e) => Safe(e)'
  BY <1>1, <1>2, <1>3 DEF Safe, EventOf
<1>9. \A v \in Worker, e \in EventId :
         (Holds(v, "moved") /\ EventOf(v) = e)' => Holds(v, "moved") /\ EventOf(v) = e
  BY <1>2 DEF Holds, EventOf
<1> QED
  BY <1>3, <1>4, <1>5, <1>6, <1>7, <1>8, <1>9, ReplicaStepKeeps

LEMMA PoisonKeeps ==
    ASSUME LinkInv, NEW w \in Worker, Poison(w), UNCHANGED relayVars
    PROVE  LinkInv'
<1> USE DEF LinkInv, LinkTyped, Poison
<1>1. /\ workers[w] \in [pc : Stages \ {"idle"}, copy : Copy]
      /\ workers[w].pc = "delivered" /\ EventOf(w) \notin EventId
      /\ UNCHANGED <<processed, effects, raises>>
      /\ "dlq" \in Place
  BY GarbledAssumption DEF ConsumerTypeOK, Waiting, Holds, Place
<1>2. /\ \A v \in Worker \ {w} : workers'[v] = workers[v]
      /\ workers'[w] = [pc |-> "moved", copy |-> workers[w].copy]
  BY <1>1 DEF ConsumerTypeOK
<1>3. /\ BrokerTypeOK'
      /\ \A p \in Place, d \in Copy :
            Has(p, d)' <=> Has(p, d) \/ (p = "dlq" /\ d = workers[w].copy)
  BY <1>1, EnqueueEffect
<1>4. ConsumerTypeOK'
  BY <1>1, <1>2 DEF ConsumerTypeOK, Stages
<1>5. OriginInv'
  BY <1>1, <1>2, <1>3 DEF OriginInv, Holds, EventOf, Committed, relayVars
<1>6. EffectInv'
  BY <1>1, <1>2 DEF EffectInv, EffectOnce, Holds, EventOf
<1>7. AttemptInv'
  <2>1. \A e \in EventId : Buried(e)' => Buried(e)
    BY <1>1, <1>3 DEF Buried, Has, EventOf, Place
  <2>2. GivenUpAfterAllAttempts'
    BY <1>1, <2>1 DEF AttemptInv, GivenUpAfterAllAttempts
  <2> QED
    BY <1>1, <1>2, <1>3, <2>2 DEF AttemptInv, Holds, EventOf, Place
<1>8. \A e \in EventId : Safe(e) => Safe(e)'
  BY <1>1, <1>2, <1>3 DEF Safe, EventOf
<1>9. \A v \in Worker, e \in EventId :
         (Holds(v, "moved") /\ EventOf(v) = e)' => Holds(v, "moved") /\ EventOf(v) = e
  BY <1>1, <1>2 DEF Holds, EventOf
<1> QED
  BY <1>3, <1>4, <1>5, <1>6, <1>7, <1>8, <1>9, ReplicaStepKeeps

(* The copy is published again before the old one is acknowledged. *)
LEMMA RepublishKeeps ==
    ASSUME LinkInv, NEW w \in Worker, Republish(w), UNCHANGED relayVars
    PROVE  LinkInv'
<1> USE DEF LinkInv, LinkTyped, Republish
<1> DEFINE c == Retried(workers[w].copy)
           e == EventOf(w)
<1>1. /\ workers[w] \in [pc : Stages \ {"idle"}, copy : Copy]
      /\ workers[w].pc = "raised" /\ e \in EventId
      /\ UNCHANGED <<processed, effects, raises>>
  BY DEF ConsumerTypeOK, Waiting, Holds, EffectInv
<1>2. /\ \A v \in Worker \ {w} : workers'[v] = workers[v]
      /\ workers'[w] = [pc |-> "moved", copy |-> workers[w].copy]
  BY <1>1 DEF ConsumerTypeOK
<1>3. /\ workers[w].copy.retries \in Nat
      /\ workers[w].copy.retries < MaxAttempts
      /\ workers[w].copy.retries < raises[e]
      /\ raises[e] \in Nat
  BY <1>1 DEF AttemptInv, Holds, Copy, ConsumerTypeOK
<1>4. /\ c \in Copy /\ c.event = e
      /\ c.retries = workers[w].copy.retries + 1
  BY <1>1, <1>3, MaxAttemptsAssumption DEF Copy, Retried, EventOf
<1>5. PICK p \in {"retry", "dlq"} : Enqueue(p, c, 1) /\ (p = "dlq" <=> c.retries >= MaxAttempts)
  BY DEF Retried
<1>6. /\ BrokerTypeOK'
      /\ \A q \in Place, d \in Copy : Has(q, d)' <=> Has(q, d) \/ (q = p /\ d = c)
  BY <1>4, <1>5, EnqueueEffect DEF Place
<1>7. ConsumerTypeOK'
  BY <1>1, <1>2 DEF ConsumerTypeOK, Stages
<1>8. OriginInv'
  <2>1. e \in Committed /\ Committed' = Committed
    BY <1>1 DEF OriginInv, Holds, Committed, relayVars
  <2> QED
    BY <1>1, <1>2, <1>4, <1>6, <2>1 DEF OriginInv, Holds, EventOf
<1>9. EffectInv'
  BY <1>1, <1>2 DEF EffectInv, EffectOnce, Holds, EventOf
<1>10. AttemptInv'
  <2>1. \A f \in EventId : Buried(f)' => Buried(f) \/ (f = e /\ c.retries >= MaxAttempts)
    BY <1>4, <1>5, <1>6 DEF Buried, Has, Place
  <2>2. GivenUpAfterAllAttempts'
    BY <1>1, <1>3, <1>4, <2>1, MaxAttemptsAssumption DEF AttemptInv, GivenUpAfterAllAttempts
  <2>3. \A q \in {"work", "retry"}, d \in Copy : Has(q, d)' /\ d.event \in EventId =>
           d.retries < MaxAttempts /\ d.retries <= raises[d.event]
    BY <1>3, <1>4, <1>5, <1>6, MaxAttemptsAssumption DEF AttemptInv, Place
  <2> QED
    BY <1>1, <1>2, <2>2, <2>3 DEF AttemptInv, Holds, EventOf
<1>11. \A f \in EventId : f = e \/ Safe(f) => Safe(f)'
  <2>1. ASSUME NEW f \in EventId, f = e PROVE Safe(f)'
    BY <1>4, <1>6, <2>1 DEF Safe, Place
  <2>2. ASSUME NEW f \in EventId, Safe(f), f # e PROVE Safe(f)'
    BY <1>1, <1>2, <1>6, <2>2 DEF Safe, EventOf
  <2> QED
    BY <2>1, <2>2
<1>12. \A v \in Worker, f \in EventId :
         (Holds(v, "moved") /\ EventOf(v) = f)' => (Holds(v, "moved") /\ EventOf(v) = f) \/ f = e
  BY <1>2 DEF Holds, EventOf
<1>13. \A v \in Worker, f \in EventId :
         (Holds(v, "moved") /\ EventOf(v) = f)' => (Holds(v, "moved") /\ EventOf(v) = f) \/ Safe(f)'
  BY <1>11, <1>12
<1> QED
  BY <1>6, <1>7, <1>8, <1>9, <1>10, <1>11, <1>13, ReplicaStepKeeps

(* An acknowledged copy was processed, or its successor is safe. *)
LEMMA AckKeeps ==
    ASSUME LinkInv, NEW w \in Worker, Ack(w), UNCHANGED relayVars
    PROVE  LinkInv'
<1> USE DEF LinkInv, LinkTyped, Ack
<1>1. /\ workers[w].pc \in {"done", "moved"}
      /\ UNCHANGED <<queues, processed, effects, raises>>
  BY DEF Holds
<1>2. /\ \A v \in Worker \ {w} : workers'[v] = workers[v]
      /\ workers'[w] = Waiting
  BY DEF ConsumerTypeOK
<1>3. BrokerTypeOK' /\ ConsumerTypeOK'
  BY <1>1, <1>2 DEF BrokerTypeOK, ConsumerTypeOK
<1>4. OriginInv'
  BY <1>1, <1>2 DEF OriginInv, Has, Holds, EventOf, Waiting, Committed, relayVars
<1>5. EffectInv'
  BY <1>1, <1>2 DEF EffectInv, EffectOnce, Holds, EventOf, Waiting
<1>6. AttemptInv'
  BY <1>1, <1>2 DEF AttemptInv, GivenUpAfterAllAttempts, Buried, Has, Holds, EventOf, Waiting
<1>7. \A e \in EventId : Safe(e) => Safe(e)'
  BY <1>1, <1>2 DEF Safe, Has, EventOf, EffectInv, Holds
<1>8. \A v \in Worker, e \in EventId :
         (Holds(v, "moved") /\ EventOf(v) = e)' => Holds(v, "moved") /\ EventOf(v) = e
  BY <1>2 DEF Holds, EventOf, Waiting
<1> QED
  BY <1>3, <1>4, <1>5, <1>6, <1>7, <1>8, ReplicaStepKeeps

LEMMA CrashKeeps ==
    ASSUME LinkInv, NEW w \in Worker, Crash(w), UNCHANGED relayVars
    PROVE  LinkInv'
<1> USE DEF LinkInv, LinkTyped, Crash
<1> DEFINE c == workers[w].copy
<1>1. /\ workers[w] \in [pc : Stages \ {"idle"}, copy : Copy]
      /\ workers[w].pc # "idle" /\ c \in Copy
      /\ UNCHANGED <<processed, effects, raises>>
      /\ "work" \in Place
  BY DEF ConsumerTypeOK, Waiting, Holds, Place
<1>2. /\ \A v \in Worker \ {w} : workers'[v] = workers[v]
      /\ workers'[w] = Waiting
  BY DEF ConsumerTypeOK
<1>3. /\ BrokerTypeOK'
      /\ \A p \in Place, d \in Copy : Has(p, d)' <=> Has(p, d) \/ (p = "work" /\ d = c)
  BY <1>1, EnqueueEffect
<1>4. ConsumerTypeOK'
  BY <1>1, <1>2 DEF ConsumerTypeOK
<1>5. OriginInv'
  <2>1. c.event \in EventId => c.event \in Committed
    BY <1>1 DEF OriginInv, Holds, EventOf
  <2>2. Committed' = Committed
    BY DEF Committed, relayVars
  <2> QED
    BY <1>1, <1>2, <1>3, <2>1, <2>2 DEF OriginInv, Holds, EventOf, Waiting
<1>6. EffectInv'
  BY <1>1, <1>2 DEF EffectInv, EffectOnce, Holds, EventOf, Waiting
<1>7. AttemptInv'
  <2>1. \A e : Buried(e)' => Buried(e)
    BY <1>3 DEF Buried, Has, Place
  <2>2. GivenUpAfterAllAttempts'
    BY <1>1, <2>1 DEF AttemptInv, GivenUpAfterAllAttempts
  <2>3. c.event \in EventId => c.retries < MaxAttempts /\ c.retries <= raises[c.event]
    BY <1>1 DEF AttemptInv, Holds, EventOf
  <2> QED
    BY <1>1, <1>2, <1>3, <2>2, <2>3 DEF AttemptInv, Holds, EventOf, Waiting, Place
<1>8. \A e \in EventId : Safe(e) => Safe(e)'
  BY <1>1, <1>2, <1>3 DEF Safe, EventOf
<1>9. \A v \in Worker, e \in EventId :
         (Holds(v, "moved") /\ EventOf(v) = e)' => Holds(v, "moved") /\ EventOf(v) = e
  BY <1>2 DEF Holds, EventOf, Waiting
<1> QED
  BY <1>3, <1>4, <1>5, <1>6, <1>7, <1>8, <1>9, ReplicaStepKeeps

LEMMA ExpireKeeps ==
    ASSUME LinkInv, NEW c \in Copy, Expire(c), UNCHANGED workerVars, UNCHANGED relayVars
    PROVE  LinkInv'
<1> USE DEF LinkInv, LinkTyped, workerVars
<1>1. /\ BrokerTypeOK'
      /\ Has("retry", c)
      /\ \A p \in Place, d \in Copy : Has(p, d)' => Has(p, d) \/ (p = "work" /\ d = c)
      /\ \A p \in Place, d \in Copy : Has(p, d) => Has(p, d)' \/ (d = c /\ Has("work", c)')
  BY ExpireEffect
<1>2. "work" \in Place /\ "retry" \in Place /\ "dlq" \in Place
  BY DEF Place
<1>3. ConsumerTypeOK'
  BY DEF ConsumerTypeOK
<1>4. OriginInv'
  BY <1>1, <1>2 DEF OriginInv, Holds, EventOf, Committed, relayVars
<1>5. EffectInv'
  BY DEF EffectInv, EffectOnce, Holds, EventOf
<1>6. AttemptInv'
  <2>1. \A e : Buried(e)' => Buried(e)
    BY <1>1, <1>2 DEF Buried, Has
  <2>2. GivenUpAfterAllAttempts'
    BY <2>1 DEF AttemptInv, GivenUpAfterAllAttempts
  <2>3. \A p \in {"work", "retry"}, d \in Copy : Has(p, d)' /\ d.event \in EventId =>
           d.retries < MaxAttempts /\ d.retries <= raises[d.event]
    BY <1>1, <1>2 DEF AttemptInv
  <2> QED
    BY <2>2, <2>3 DEF AttemptInv, Holds, EventOf
<1>7. \A e \in EventId : Safe(e) => Safe(e)'
  BY <1>1, <1>2 DEF Safe, EventOf
<1>8. \A v \in Worker, e \in EventId :
         (Holds(v, "moved") /\ EventOf(v) = e)' => Holds(v, "moved") /\ EventOf(v) = e
  BY DEF Holds, EventOf
<1> QED
  BY <1>1, <1>3, <1>4, <1>5, <1>6, <1>7, <1>8, ReplicaStepKeeps

-----------------------------------------------------------------------------
(* Initially nothing travels but garbled messages. *)
LEMMA LinkInit == Init => LinkInv
<1> SUFFICES ASSUME Init PROVE LinkInv
  OBVIOUS
<1> USE DEF Init, BrokerInit, RelayInit, ConsumerInit
<1>1. LinkTyped
  BY DEF LinkTyped, BrokerTypeOK, RelayTypeOK, ConsumerTypeOK, RowState, Idle
<1>2. \A p \in Place, c \in Copy : Has(p, c) => c.event \in Garbled
  BY DEF Has
<1>3. \A c \in Copy : c.event \in Garbled => c.event \notin EventId
  BY GarbledAssumption
<1>4. RelayInv
  BY DEF RelayInv, Idle
<1>5. SafeInv
  BY DEF SafeInv, Idle, Holds, Waiting
<1>6. OriginInv
  BY <1>2, <1>3 DEF OriginInv, Holds, Waiting
<1>7. EffectInv
  BY DEF EffectInv, EffectOnce, Holds, Waiting
<1>8. AttemptInv
  <2>1. GivenUpAfterAllAttempts
    BY <1>2, <1>3 DEF GivenUpAfterAllAttempts, Buried, Has, Place
  <2> QED
    BY <1>2, <1>3, <2>1 DEF AttemptInv, Holds, Waiting, Place
<1> QED
  BY <1>1, <1>4, <1>5, <1>6, <1>7, <1>8 DEF LinkInv

LEMMA LinkStep ==
    ASSUME LinkInv, [Next]_vars
    PROVE  LinkInv'
<1>1. CASE UNCHANGED vars
  BY <1>1, OutboxStepKeeps DEF vars, relayVars, LinkInv, LinkTyped, RelayTypeOK, RelayInv, Committed
<1>2. ASSUME NEW e \in EventId, Write(e) PROVE LinkInv'
  BY <1>2, StagingKeeps DEF Write
<1>3. ASSUME NEW r \in Relay, Relaying(r) PROVE LinkInv'
  BY <1>3, ClaimKeeps, PublishRowKeeps, CommitBatchKeeps DEF Relaying, RelayStep
<1>4. ASSUME NEW w \in Worker, Consuming(w) PROVE LinkInv'
  BY <1>4, DeliverKeeps, PoisonKeeps, InsertFirstKeeps, DuplicateKeeps, CommitWorkKeeps,
     RaiseKeeps, RepublishKeeps, AckKeeps DEF Consuming, WorkerStep
<1>5. CASE Expiring
  BY <1>5, ExpireKeeps DEF Expiring
<1>6. CASE Failing
  BY <1>6, StagingKeeps, RelayFailsKeeps, PublishRowKeeps, CrashKeeps DEF Failing
<1> QED
  BY <1>1, <1>2, <1>3, <1>4, <1>5, <1>6 DEF Next

(* The invariant holds for ever. *)
THEOREM LinkInductive == Spec => []LinkInv
BY LinkInit, LinkStep, PTL DEF Spec

-----------------------------------------------------------------------------
(* However relays, broker connections and replicas fail, an event whose row is marked
   published was processed, or a copy of it is somewhere. *)
THEOREM NothingIsLost == Spec => []NothingLost
<1>1. LinkInv => NothingLost
  <2> SUFFICES ASSUME LinkInv, NEW e \in EventId, outbox[e].row = "published"
               PROVE  e \in processed \/ Live(e) \/ Buried(e)
    BY DEF NothingLost
  <2>1. Safe(e)
    BY DEF LinkInv, SafeInv
  <2>2. ASSUME NEW p \in Place, NEW c \in Copy, c.event = e, Has(p, c)
        PROVE  Live(e) \/ Buried(e)
    <3>1. \A q \in Place : queues[q][c] \in Nat
      BY DEF LinkInv, LinkTyped, BrokerTypeOK
    <3> QED
      BY <2>2, <3>1 DEF Live, Buried, Has, Place
  <2> QED
    BY <2>1, <2>2 DEF Safe, Live, Holds
<1> QED
  BY <1>1, LinkInductive, PTL

(* Copies may be many, the effect of an event is one, and goes with its event_id. *)
THEOREM EffectIsDoneOnce == Spec => []EffectOnce
<1>1. LinkInv => EffectOnce
  BY DEF LinkInv, EffectInv
<1> QED
  BY <1>1, LinkInductive, PTL

(* No event reaches the dead-letter queue with attempts left. *)
THEOREM GivenUpLast == Spec => []GivenUpAfterAllAttempts
<1>1. LinkInv => GivenUpAfterAllAttempts
  BY DEF LinkInv, AttemptInv
<1> QED
  BY <1>1, LinkInductive, PTL

(* The tables, the queues and the replicas keep their types. *)
THEOREM LinkTypeCorrect == Spec => []TypeOK
<1>1. Init => failures \in 0..MaxFailures
  BY MaxFailuresAssumption DEF Init
<1>2. failures \in 0..MaxFailures /\ [Next]_vars => (failures \in 0..MaxFailures)'
  BY MaxFailuresAssumption DEF Next, vars, Write, Relaying, Consuming, Expiring, Failing
<1>3. LinkInv /\ failures \in 0..MaxFailures => TypeOK
  BY DEF LinkInv, LinkTyped, TypeOK
<1> QED
  BY <1>1, <1>2, <1>3, LinkInductive, PTL DEF Spec

-----------------------------------------------------------------------------
(* For the saga: the events that are published and that no handler will see. *)
Lost == {e \in EventId \ processed : outbox[e].row = "published" /\ ~Live(e)}

(* Live, before and after a step, in terms of the queues that lead to a handler. *)
LEMMA LiveMeaning ==
    ASSUME BrokerTypeOK, BrokerTypeOK', NEW e
    PROVE  /\ Live(e) <=> \/ \E p \in {"work", "retry"}, c \in Copy : c.event = e /\ Has(p, c)
                          \/ \E w \in Worker : ~Holds(w, "idle") /\ EventOf(w) = e
           /\ Live(e)' <=> \/ \E p \in {"work", "retry"}, c \in Copy : c.event = e /\ Has(p, c)'
                           \/ \E w \in Worker : (~Holds(w, "idle") /\ EventOf(w) = e)'
<1>1. \A c \in Copy : /\ queues["work"][c] \in Nat /\ queues["retry"][c] \in Nat
                      /\ queues'["work"][c] \in Nat /\ queues'["retry"][c] \in Nat
  BY DEF BrokerTypeOK, Place
<1>2. \A c \in Copy : queues["work"][c] + queues["retry"][c] > 0 <=> Has("work", c) \/ Has("retry", c)
  BY <1>1 DEF Has
<1>3. \A c \in Copy :
         queues'["work"][c] + queues'["retry"][c] > 0 <=> Has("work", c)' \/ Has("retry", c)'
  BY <1>1 DEF Has
<1> QED
  BY <1>2, <1>3 DEF Live

(* A step that neither stages nor handles an event buries some, or none. *)
LEMMA BuryStep ==
    ASSUME processed \subseteq EventId, UNCHANGED processed, Committed' = Committed, Lost \subseteq Lost'
    PROVE  [BusNext]_(Bus!busVars)
<1> DEFINE S == Lost' \ Lost
<1>1. BusStaged' = BusStaged /\ BusProcessed' = BusProcessed
  BY DEF BusStaged, BusProcessed
<1>2. BusDead = [o \in {"link"} |-> Lost] /\ BusDead' = [o \in {"link"} |-> Lost']
  BY DEF BusDead, Lost
<1>3. BusDead' = [BusDead EXCEPT !["link"] = @ \cup S]
  BY <1>2
<1>4. \A e \in S : e \in Committed \ (processed \cup Lost)
  BY DEF Lost, Committed
<1>5. \A e \in S : Bus!FirstTime("link", e)
  BY <1>2, <1>4 DEF Bus!FirstTime, BusStaged, BusProcessed
<1>6. BusBury(S)
  BY <1>1, <1>3, <1>5 DEF BusBury
<1>7. S \in SUBSET EventId
  BY DEF Lost
<1> QED
  BY <1>6, <1>7 DEF BusNext

(* What is lost stays lost: neither a relay nor a replica can bring it back. *)
LEMMA LostStaysLost ==
    ASSUME LinkInv, UNCHANGED processed,
           \A e \in EventId : outbox[e].row = "published" => outbox'[e].row = "published",
           \A e \in EventId : outbox[e].row = "published" => (Live(e)' => Live(e))
    PROVE  Lost \subseteq Lost'
BY DEF Lost

LEMMA OutboxStepMaps ==
    ASSUME LinkInv, UNCHANGED <<queues, workerVars>>, Committed' = Committed,
           \A e \in EventId : outbox[e].row = "published" => outbox'[e].row = "published"
    PROVE  [BusNext]_(Bus!busVars)
<1>1. \A e : Live(e)' <=> Live(e)
  BY DEF Live, Holds, EventOf, workerVars
<1>2. Lost \subseteq Lost'
  BY <1>1, LostStaysLost DEF workerVars
<1> QED
  BY <1>2, BuryStep DEF workerVars, LinkInv, LinkTyped, ConsumerTypeOK

LEMMA StagingMaps ==
    ASSUME LinkInv, NEW e \in EventId, Stage(e) \/ CommitStage(e) \/ RollbackStage(e),
           UNCHANGED workerVars
    PROVE  [BusNext]_(Bus!busVars)
<1> USE DEF LinkInv, LinkTyped
<1>1. CASE Stage(e) \/ RollbackStage(e)
  <2>1. /\ \A f \in EventId \ {e} : outbox'[f] = outbox[f]
        /\ outbox[e].row \in {"absent", "open"} /\ outbox'[e].row \in {"absent", "open"}
        /\ UNCHANGED queues
    BY <1>1 DEF Stage, RollbackStage, RelayTypeOK
  <2>2. Committed' = Committed
    BY <2>1 DEF Committed
  <2> QED
    BY <2>1, <2>2, OutboxStepMaps
<1>2. CASE CommitStage(e)
  <2>1. /\ \A f \in EventId \ {e} : outbox'[f] = outbox[f]
        /\ outbox[e].row = "open" /\ outbox'[e].row = "committed"
        /\ UNCHANGED queues
    BY <1>2 DEF CommitStage, RelayTypeOK
  <2>2. Committed' = Committed \cup {e}
    BY <2>1 DEF Committed
  <2>3. \A f : Live(f)' <=> Live(f)
    BY <2>1 DEF Live, Holds, EventOf, workerVars
  <2>4. Lost' = Lost
    BY <2>1, <2>3 DEF Lost, workerVars
  <2>5. UNCHANGED <<BusProcessed, BusDead>>
    BY <2>4 DEF BusProcessed, BusDead, Lost, workerVars
  <2>6. BusStaged' = [BusStaged EXCEPT !["link"] = @ \cup {e}]
    BY <2>2 DEF BusStaged
  <2> QED
    BY <2>5, <2>6 DEF BusStage, BusNext
<1> QED
  BY <1>1, <1>2

LEMMA RelayMaps ==
    ASSUME LinkInv, NEW r \in Relay, Claim(r) \/ CommitBatch(r) \/ RelayFails(r), UNCHANGED workerVars
    PROVE  [BusNext]_(Bus!busVars)
<1> USE DEF LinkInv, LinkTyped
<1>1. UNCHANGED queues
  BY DEF Claim, CommitBatch, RelayFails
<1>2. \A e \in EventId : \/ outbox'[e] = outbox[e]
                         \/ outbox[e].row = "committed" /\ outbox'[e].row = "published"
  <2>1. CASE Claim(r) \/ RelayFails(r)
    BY <2>1 DEF Claim, RelayFails
  <2>2. CASE CommitBatch(r)
    <3>1. \A e \in EventId : IF e \in relays[r].claim THEN outbox'[e].row = "published"
                             ELSE outbox'[e] = outbox[e]
      BY <2>2 DEF CommitBatch, RelayTypeOK
    <3>2. \A e \in relays[r].claim : outbox[e].row = "committed"
      BY DEF RelayInv
    <3> QED
      BY <3>1, <3>2
  <2> QED
    BY <2>1, <2>2
<1>3. Committed' = Committed
  BY <1>2 DEF Committed
<1> QED
  BY <1>1, <1>2, <1>3, OutboxStepMaps

LEMMA PublishRowMaps ==
    ASSUME LinkInv, NEW r \in Relay, NEW e \in EventId, NEW n \in Nat \ {0}, PublishRow(r, e, n),
           UNCHANGED workerVars
    PROVE  [BusNext]_(Bus!busVars)
<1> USE DEF LinkInv, LinkTyped, workerVars
<1>1. UNCHANGED outbox /\ outbox[e].row = "committed"
  BY DEF PublishRow, RelayInv
<1>2. Fresh(e) \in Copy /\ Fresh(e).event = e /\ "work" \in Place
  BY MaxAttemptsAssumption DEF Fresh, Copy, Place
<1>3. /\ BrokerTypeOK'
      /\ \A p \in Place, d \in Copy : Has(p, d)' <=> Has(p, d) \/ (p = "work" /\ d = Fresh(e))
  BY <1>2, EnqueueEffect DEF PublishRow, Publish
<1>4. \A f \in EventId : f # e => (Live(f)' => Live(f))
  <2>1. \A p \in {"work", "retry"} : p \in Place
    BY DEF Place
  <2> QED
    BY <1>2, <1>3, <2>1, LiveMeaning DEF Holds, EventOf, Place
<1>5. Lost \subseteq Lost'
  BY <1>1, <1>4, LostStaysLost
<1> QED
  BY <1>1, <1>5, BuryStep DEF Committed, ConsumerTypeOK

(* A step of the replicas that leaves every unpublished or unlost event as it was. *)
LEMMA ReplicaStepMaps ==
    ASSUME LinkInv, UNCHANGED <<relayVars, processed>>,
           \A e \in EventId : outbox[e].row = "published" => (Live(e)' => Live(e))
    PROVE  [BusNext]_(Bus!busVars)
<1>1. Lost \subseteq Lost'
  BY LostStaysLost DEF relayVars
<1> QED
  BY <1>1, BuryStep DEF relayVars, Committed, LinkInv, LinkTyped, ConsumerTypeOK

LEMMA ReplicaMaps ==
    ASSUME LinkInv, LinkInv', UNCHANGED relayVars, NEW w \in Worker, Consuming(w) \/ Crash(w),
           ~CommitWork(w)
    PROVE  [BusNext]_(Bus!busVars)
<1> USE DEF LinkInv, LinkTyped
<1> DEFINE c == workers[w].copy
<1>1. /\ UNCHANGED processed
      /\ \A v \in Worker \ {w} : workers'[v] = workers[v]
  BY DEF Consuming, WorkerStep, Deliver, Poison, InsertFirst, Duplicate, Raise, Republish, Ack,
         Crash, ConsumerTypeOK
<1>2. {"work", "retry", "dlq"} \subseteq Place
  BY DEF Place
<1>3. ASSUME NEW d \in Copy, Deliver(w, d) PROVE \A e \in EventId : Live(e)' => Live(e)
  <2>1. Has("work", d) /\ workers'[w] = [pc |-> "delivered", copy |-> d]
    BY <1>3 DEF Deliver, Has, ConsumerTypeOK
  <2>2. \A p \in Place, x \in Copy : Has(p, x)' => Has(p, x)
    BY <1>3, <2>1, TakeEffect DEF Deliver
  <2> QED
    BY <1>1, <1>2, <2>1, <2>2, LiveMeaning DEF Holds, EventOf
<1>4. CASE ~\E d \in Copy : Deliver(w, d)
  <2>1. /\ ~Holds(w, "idle") /\ workers[w].copy \in Copy
        /\ workers'[w] = Waiting \/ workers'[w].copy = workers[w].copy
    BY <1>4 DEF Consuming, WorkerStep, Poison, InsertFirst, Duplicate, Raise, Republish, Ack, Crash,
                Holds, ConsumerTypeOK, Waiting
  <2>2. \/ UNCHANGED queues
        \/ \E p \in Place, d \in Copy : d.event = EventOf(w) /\ Enqueue(p, d, 1)
    <3>1. CASE Poison(w) \/ Crash(w)
      BY <1>2, <2>1, <3>1 DEF Poison, Crash, EventOf
    <3>2. CASE Republish(w)
      <4>1. /\ workers[w].copy.retries \in Nat /\ workers[w].copy.retries < MaxAttempts
            /\ EventOf(w) \in EventId
        BY <2>1, <3>2 DEF Republish, AttemptInv, EffectInv, Holds, Copy
      <4>2. Retried(workers[w].copy) \in Copy /\ Retried(workers[w].copy).event = EventOf(w)
        BY <2>1, <4>1, MaxAttemptsAssumption DEF Retried, Copy, EventOf
      <4> QED
        BY <1>2, <3>2, <4>2 DEF Republish
    <3>3. CASE ~(Poison(w) \/ Crash(w) \/ Republish(w))
      BY <1>4, <3>3 DEF Consuming, WorkerStep, InsertFirst, Duplicate, Raise, Ack
    <3> QED
      BY <3>1, <3>2, <3>3
  <2>3. \A p \in Place, x \in Copy : Has(p, x)' => Has(p, x) \/ x.event = EventOf(w)
    <3>1. CASE UNCHANGED queues
      BY <3>1 DEF Has
    <3>2. ASSUME NEW p \in Place, NEW d \in Copy, d.event = EventOf(w), Enqueue(p, d, 1)
          PROVE  \A q \in Place, x \in Copy : Has(q, x)' => Has(q, x) \/ x.event = EventOf(w)
      BY <3>2, EnqueueEffect
    <3> QED
      BY <2>2, <3>1, <3>2
  <2>4. \A v \in Worker, e \in EventId : (~Holds(v, "idle") /\ EventOf(v) = e)' =>
           ~Holds(v, "idle") /\ EventOf(v) = e
    BY <1>1, <2>1 DEF Holds, EventOf, Waiting
  <2>5. \A e \in EventId : Live(e)' => Live(e)
    <3> SUFFICES ASSUME NEW e \in EventId, Live(e)' PROVE Live(e)
      OBVIOUS
    <3>1. CASE EventOf(w) = e
      BY <2>1, <3>1, LiveMeaning
    <3>2. CASE EventOf(w) # e
      BY <1>2, <2>3, <2>4, <3>2, LiveMeaning
    <3> QED
      BY <3>1, <3>2
  <2> QED
    BY <1>1, <2>5, ReplicaStepMaps
<1>5. ASSUME NEW d \in Copy, Deliver(w, d) PROVE [BusNext]_(Bus!busVars)
  BY <1>1, <1>3, <1>5, ReplicaStepMaps
<1> QED
  BY <1>4, <1>5

LEMMA ExpireMaps ==
    ASSUME LinkInv, NEW c \in Copy, Expire(c), UNCHANGED <<relayVars, workerVars>>
    PROVE  [BusNext]_(Bus!busVars)
<1> USE DEF LinkInv, LinkTyped, workerVars
<1>1. /\ BrokerTypeOK'
      /\ Has("retry", c)
      /\ \A p \in Place, d \in Copy : Has(p, d)' => Has(p, d) \/ (p = "work" /\ d = c)
  BY ExpireEffect
<1>2. \A p \in {"work", "retry"} : p \in Place
  BY DEF Place
<1>3. \A e \in EventId : Live(e)' => Live(e)
  BY <1>1, <1>2, LiveMeaning DEF Holds, EventOf
<1> QED
  BY <1>3, ReplicaStepMaps

(* The commit of a handler is the commit of the saga's model. *)
LEMMA CommitWorkMaps ==
    ASSUME LinkInv, NEW w \in Worker, CommitWork(w), UNCHANGED relayVars
    PROVE  [BusNext]_(Bus!busVars)
<1> USE DEF LinkInv, LinkTyped, relayVars
<1>1. /\ EventOf(w) \in EventId \ processed
      /\ EventOf(w) \in Committed
      /\ Live(EventOf(w))
  BY DEF CommitWork, EffectInv, OriginInv, Holds, Live
<1>2. processed' = processed \cup {EventOf(w)} /\ UNCHANGED <<queues, outbox>>
  BY DEF CommitWork
<1>3. \A e \in EventId : Live(e)' <=> Live(e)
  <2>1. /\ \A v \in Worker \ {w} : workers'[v] = workers[v]
        /\ workers'[w].copy = workers[w].copy /\ workers[w].pc # "idle" /\ workers'[w].pc # "idle"
    BY DEF CommitWork, Holds, ConsumerTypeOK, Waiting
  <2> QED
    BY <1>2, <2>1 DEF Live, Holds, EventOf
<1>4. EventOf(w) \notin Lost
  BY <1>1 DEF Lost
<1>5. Lost' = Lost
  BY <1>1, <1>2, <1>3 DEF Lost
<1>6. /\ BusStaged' = [BusStaged EXCEPT !["link"] = @ \cup {}]
      /\ BusProcessed' = [BusProcessed EXCEPT !["link"] = @ \cup {EventOf(w)}]
      /\ BusDead' = [BusDead EXCEPT !["link"] = @ \ {}]
  BY <1>2, <1>5 DEF BusStaged, BusProcessed, BusDead, Lost, Committed
<1>7. Bus!CommitUnit("link", EventOf(w), {})
  BY <1>6 DEF Bus!CommitUnit
<1>8. Bus!FirstTime("link", EventOf(w))
  BY <1>1, <1>4 DEF Bus!FirstTime, BusStaged, BusProcessed, BusDead, Lost
<1> QED
  BY <1>1, <1>7, <1>8 DEF BusNext

LEMMA LinkMaps ==
    ASSUME LinkInv, LinkInv', [Next]_vars
    PROVE  [BusNext]_(Bus!busVars)
<1>1. CASE UNCHANGED vars
  BY <1>1, OutboxStepMaps DEF vars, relayVars, Committed
<1>2. ASSUME NEW e \in EventId, Write(e) PROVE [BusNext]_(Bus!busVars)
  BY <1>2, StagingMaps DEF Write
<1>3. ASSUME NEW r \in Relay, Relaying(r) PROVE [BusNext]_(Bus!busVars)
  BY <1>3, RelayMaps, PublishRowMaps DEF Relaying, RelayStep
<1>4. ASSUME NEW w \in Worker, Consuming(w) PROVE [BusNext]_(Bus!busVars)
  BY <1>4, ReplicaMaps, CommitWorkMaps DEF Consuming
<1>5. CASE Expiring
  BY <1>5, ExpireMaps DEF Expiring
<1>6. CASE Failing
  <2>1. ASSUME NEW w \in Worker, Crash(w), UNCHANGED relayVars PROVE [BusNext]_(Bus!busVars)
    <3>1. ~CommitWork(w)
      BY <2>1 DEF Crash, CommitWork, LinkInv, LinkTyped, ConsumerTypeOK, Waiting
    <3> QED
      BY <2>1, <3>1, ReplicaMaps
  <2> QED
    BY <1>6, <2>1, StagingMaps, RelayMaps, PublishRowMaps DEF Failing
<1> QED
  BY <1>1, <1>2, <1>3, <1>4, <1>5, <1>6 DEF Next

(* The link does what EventBus says of it: for the saga, relays, brokers and replicas that
   fail are the behaviours EventBus already has. *)
THEOREM LinkImplementsEventBus == Spec => ImplementsEventBus
<1>1. Init => Bus!BusInit
  <2> SUFFICES ASSUME Init PROVE Bus!BusInit
    OBVIOUS
  <2>1. Committed = {} /\ processed = {}
    BY DEF Init, RelayInit, ConsumerInit, Committed
  <2>2. Lost = {}
    BY DEF Init, RelayInit, Lost
  <2> QED
    BY <2>1, <2>2 DEF Bus!BusInit, BusStaged, BusProcessed, BusDead, Lost
<1>2. LinkInv /\ LinkInv' /\ [Next]_vars => [BusNext]_(Bus!busVars)
  BY LinkMaps
<1> QED
  BY <1>1, <1>2, LinkInductive, PTL DEF Spec, ImplementsEventBus
=============================================================================
