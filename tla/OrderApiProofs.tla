--------------------------- MODULE OrderApiProofs ---------------------------
(***************************************************************************)
(* What clients of the HTTP side may rely on, for every pool of threads and*)
(* every set of orders.                                                    *)
(***************************************************************************)
EXTENDS OrderApi, TLAPS

Posting(t) == threads[t].pc \in {"post", "inserted", "staged"}

(* One thread at most is inside a POST, and it is the one that holds the lock. *)
LockInv ==
    /\ \A t \in Thread : Posting(t) <=> t \in lock
    /\ \A t, u \in Thread : Posting(t) /\ Posting(u) => t = u

(* The POST in progress has an id, what it has inserted is committed or still open, and no
   statement has failed since. *)
PostInv ==
    \A t \in Thread :
        /\ Posting(t) => threads[t].order \in Order
        /\ threads[t].pc \in {"inserted", "staged"} =>
              ~conn.aborted /\ threads[t].order \in orders \cup conn.orders
        /\ threads[t].pc = "staged" => threads[t].order \in outbox \cup conn.outbox

(* Whoever finds rows in the open transaction is between the INSERTs and the COMMIT of a
   POST, or behind a failed one. *)
DebrisInv ==
    \/ conn.orders = {}
    \/ conn.aborted
    \/ \E t \in Thread : threads[t].pc \in {"inserted", "staged"}

DurableInv ==
    /\ conn.outbox \subseteq orders \cup conn.orders
    /\ EventHasOrder
    /\ SeenIsDurable
    /\ AcceptedIsDurable

ApiInv == TypeOK /\ LockInv /\ PostInv /\ DebrisInv /\ DurableInv

-----------------------------------------------------------------------------
LEMMA ApiInit == Init => ApiInv
BY DEF Init, ApiInv, TypeOK, LockInv, PostInv, DebrisInv, DurableInv, Posting, NoRequest,
       NoTransaction, EventHasOrder, SeenIsDurable, AcceptedIsDurable

(* The COMMIT of a transaction whose rows belong together keeps them together. *)
LEMMA CommitKeepsRows ==
    ASSUME TypeOK, DurableInv, Commit
    PROVE  /\ orders' \subseteq Order /\ outbox' \subseteq Order /\ conn' = NoTransaction
           /\ orders \subseteq orders' /\ outbox \subseteq outbox' /\ outbox' \subseteq orders'
           /\ ~conn.aborted => conn.orders \subseteq orders' /\ conn.outbox \subseteq outbox'
BY DEF Commit, TypeOK, DurableInv, EventHasOrder

(* One lemma per action: each keeps the invariant. *)
LEMMA StartPostKeeps ==
    ASSUME ApiInv, NEW t \in Thread, NEW o \in Order, StartPost(t, o)
    PROVE  ApiInv'
<1> USE DEF ApiInv, StartPost, NoRequest
<1>1. TypeOK'
  BY DEF TypeOK
<1>2. \A u \in Thread : ~Posting(u)
  BY DEF LockInv
<1>3. \A u \in Thread \ {t} : threads'[u] = threads[u]
  BY DEF TypeOK
<1>4. threads'[t] = [pc |-> "post", order |-> o]
  BY DEF TypeOK
<1>5. LockInv'
  BY <1>2, <1>3, <1>4 DEF LockInv, Posting
<1>6. PostInv'
  BY <1>2, <1>3, <1>4 DEF PostInv, Posting
<1>7. DebrisInv'
  BY <1>2 DEF DebrisInv, Posting
<1>8. DurableInv'
  BY DEF DurableInv, EventHasOrder, SeenIsDurable, AcceptedIsDurable
<1> QED
  BY <1>1, <1>5, <1>6, <1>7, <1>8

LEMMA InsertOrderKeeps ==
    ASSUME ApiInv, NEW t \in Thread, InsertOrder(t)
    PROVE  ApiInv'
<1> USE DEF ApiInv, InsertOrder
<1>1. threads[t].order \in Order
  BY DEF PostInv, Posting
<1>2. TypeOK'
  BY <1>1 DEF TypeOK
<1>3. \A u \in Thread \ {t} : threads'[u] = threads[u]
  BY DEF TypeOK
<1>4. threads'[t] = [pc |-> "inserted", order |-> threads[t].order]
  BY DEF TypeOK
<1>5. conn' = [orders |-> conn.orders \cup {threads[t].order}, outbox |-> conn.outbox,
               aborted |-> conn.aborted]
  BY DEF TypeOK
<1>6. LockInv'
  BY <1>3, <1>4 DEF LockInv, Posting
<1>7. PostInv'
  BY <1>3, <1>4, <1>5 DEF PostInv, LockInv, Posting
<1>8. DebrisInv'
  BY <1>4 DEF DebrisInv
<1>9. DurableInv'
  BY <1>5 DEF DurableInv, EventHasOrder, SeenIsDurable, AcceptedIsDurable
<1> QED
  BY <1>2, <1>6, <1>7, <1>8, <1>9

LEMMA StageEventKeeps ==
    ASSUME ApiInv, NEW t \in Thread, StageEvent(t)
    PROVE  ApiInv'
<1> USE DEF ApiInv, StageEvent
<1>1. threads[t].order \in Order /\ threads[t].order \in orders \cup conn.orders
  BY DEF PostInv, Posting
<1>2. TypeOK'
  BY <1>1 DEF TypeOK
<1>3. \A u \in Thread \ {t} : threads'[u] = threads[u]
  BY DEF TypeOK
<1>4. threads'[t] = [pc |-> "staged", order |-> threads[t].order]
  BY DEF TypeOK
<1>5. conn' = [orders |-> conn.orders, outbox |-> conn.outbox \cup {threads[t].order},
               aborted |-> conn.aborted]
  BY DEF TypeOK
<1>6. LockInv'
  BY <1>3, <1>4 DEF LockInv, Posting
<1>7. PostInv'
  BY <1>1, <1>3, <1>4, <1>5 DEF PostInv, LockInv, Posting
<1>8. DebrisInv'
  BY <1>4 DEF DebrisInv
<1>9. DurableInv'
  BY <1>1, <1>5 DEF DurableInv, EventHasOrder, SeenIsDurable, AcceptedIsDurable
<1> QED
  BY <1>2, <1>6, <1>7, <1>8, <1>9

LEMMA PostFailsKeeps ==
    ASSUME ApiInv, NEW t \in Thread, PostFails(t)
    PROVE  ApiInv'
<1> USE DEF ApiInv, PostFails, Leave
<1>1. Posting(t)
  BY DEF Posting
<1>2. conn' \in {conn, [conn EXCEPT !.aborted = TRUE]}
  OBVIOUS
<1>3. TypeOK'
  BY <1>2 DEF TypeOK, NoRequest
<1>4. \A u \in Thread \ {t} : threads'[u] = threads[u]
  BY DEF TypeOK
<1>5. threads'[t] = NoRequest
  BY DEF TypeOK
<1>6. \A u \in Thread : ~Posting(u)'
  BY <1>1, <1>4, <1>5 DEF LockInv, Posting, NoRequest
<1>7. LockInv'
  BY <1>1, <1>6 DEF LockInv
<1>8. PostInv'
  BY <1>6 DEF PostInv, Posting
<1>9. DebrisInv'
  <2>1. CASE conn' = [conn EXCEPT !.aborted = TRUE]
    BY <2>1 DEF DebrisInv, TypeOK
  <2>2. CASE threads[t].pc = "post" /\ UNCHANGED conn
    BY <1>1, <2>2 DEF DebrisInv, LockInv, Posting
  <2> QED
    BY <2>1, <2>2
<1>10. DurableInv'
  BY <1>2 DEF DurableInv, EventHasOrder, SeenIsDurable, AcceptedIsDurable, TypeOK
<1> QED
  BY <1>3, <1>7, <1>8, <1>9, <1>10

LEMMA FinishPostKeeps ==
    ASSUME ApiInv, NEW t \in Thread, FinishPost(t)
    PROVE  ApiInv'
<1> USE DEF ApiInv, FinishPost, Leave
<1>1. Posting(t)
  BY DEF Posting
<1>2. /\ threads[t].order \in Order
      /\ ~conn.aborted
      /\ threads[t].order \in orders \cup conn.orders
      /\ threads[t].order \in outbox \cup conn.outbox
  BY <1>1 DEF PostInv
<1>3. /\ orders' \subseteq Order /\ outbox' \subseteq Order /\ conn' = NoTransaction
      /\ orders \subseteq orders' /\ outbox \subseteq outbox' /\ outbox' \subseteq orders'
      /\ conn.orders \subseteq orders' /\ conn.outbox \subseteq outbox'
  BY <1>2, CommitKeepsRows
<1>4. TypeOK'
  BY <1>2, <1>3 DEF TypeOK, NoRequest, NoTransaction
<1>5. \A u \in Thread \ {t} : threads'[u] = threads[u]
  BY DEF TypeOK
<1>6. threads'[t] = NoRequest
  BY DEF TypeOK
<1>7. \A u \in Thread : ~Posting(u)'
  BY <1>1, <1>5, <1>6 DEF LockInv, Posting, NoRequest
<1>8. LockInv' /\ PostInv'
  BY <1>1, <1>7 DEF LockInv, PostInv, Posting
<1>9. DebrisInv'
  BY <1>3 DEF DebrisInv, NoTransaction
<1>10. DurableInv'
  BY <1>2, <1>3 DEF DurableInv, EventHasOrder, SeenIsDurable, AcceptedIsDurable, NoTransaction
<1> QED
  BY <1>4, <1>8, <1>9, <1>10

LEMMA SelectKeeps ==
    ASSUME ApiInv, NEW t \in Thread, Select(t)
    PROVE  ApiInv'
<1> USE DEF ApiInv, Select, NoRequest
<1>1. \A u \in Thread : ~Posting(u)
  BY DEF LockInv
<1>2. conn.orders = {}
  BY <1>1 DEF DebrisInv, Posting
<1>3. seen' \subseteq orders
  BY <1>2 DEF DurableInv, SeenIsDurable
<1>4. TypeOK'
  BY <1>3 DEF TypeOK
<1>5. \A u \in Thread \ {t} : threads'[u] = threads[u]
  BY DEF TypeOK
<1>6. threads'[t].pc = "selected"
  BY DEF TypeOK
<1>7. \A u \in Thread : ~Posting(u)'
  BY <1>1, <1>5, <1>6 DEF Posting
<1>8. LockInv' /\ PostInv'
  BY <1>1, <1>7 DEF LockInv, PostInv, Posting
<1>9. DebrisInv'
  BY <1>2 DEF DebrisInv
<1>10. DurableInv'
  BY <1>3 DEF DurableInv, EventHasOrder, SeenIsDurable, AcceptedIsDurable
<1> QED
  BY <1>4, <1>8, <1>9, <1>10

(* The commit of a GET may fall between the INSERTs of a POST, and takes the first along. *)
LEMMA CommitAfterSelectKeeps ==
    ASSUME ApiInv, NEW t \in Thread, CommitAfterSelect(t)
    PROVE  ApiInv'
<1> USE DEF ApiInv, CommitAfterSelect, NoRequest
<1>1. /\ orders' \subseteq Order /\ outbox' \subseteq Order /\ conn' = NoTransaction
      /\ orders \subseteq orders' /\ outbox \subseteq outbox' /\ outbox' \subseteq orders'
      /\ ~conn.aborted => conn.orders \subseteq orders' /\ conn.outbox \subseteq outbox'
  BY CommitKeepsRows
<1>2. TypeOK'
  BY <1>1 DEF TypeOK, NoTransaction
<1>3. \A u \in Thread \ {t} : threads'[u] = threads[u]
  BY DEF TypeOK
<1>4. threads'[t].pc = "idle"
  BY DEF TypeOK
<1>5. LockInv'
  BY <1>3, <1>4 DEF LockInv, Posting
<1>6. PostInv'
  BY <1>1, <1>3, <1>4 DEF PostInv, Posting, NoTransaction
<1>7. DebrisInv'
  BY <1>1 DEF DebrisInv, NoTransaction
<1>8. DurableInv'
  BY <1>1 DEF DurableInv, EventHasOrder, SeenIsDurable, AcceptedIsDurable, NoTransaction
<1> QED
  BY <1>2, <1>5, <1>6, <1>7, <1>8

LEMMA RestartKeeps ==
    ASSUME ApiInv, Restart
    PROVE  ApiInv'
<1>1. TypeOK'
  BY DEF ApiInv, Restart, TypeOK, NoRequest, NoTransaction
<1>2. LockInv' /\ PostInv' /\ DebrisInv'
  BY DEF Restart, LockInv, PostInv, DebrisInv, Posting, NoRequest, NoTransaction
<1>3. DurableInv'
  BY DEF ApiInv, Restart, DurableInv, EventHasOrder, SeenIsDurable, AcceptedIsDurable, NoTransaction
<1> QED
  BY <1>1, <1>2, <1>3 DEF ApiInv

LEMMA ApiStep ==
    ASSUME ApiInv, [Next]_vars
    PROVE  ApiInv'
<1>1. CASE UNCHANGED vars
  BY <1>1 DEF ApiInv, TypeOK, LockInv, PostInv, DebrisInv, DurableInv, Posting, vars,
              EventHasOrder, SeenIsDurable, AcceptedIsDurable
<1>2. ASSUME NEW t \in Thread, NEW o \in Order, StartPost(t, o) PROVE ApiInv'
  BY <1>2, StartPostKeeps
<1>3. ASSUME NEW t \in Thread, InsertOrder(t) \/ StageEvent(t) \/ PostFails(t) \/ FinishPost(t)
      PROVE  ApiInv'
  BY <1>3, InsertOrderKeeps, StageEventKeeps, PostFailsKeeps, FinishPostKeeps
<1>4. ASSUME NEW t \in Thread, Select(t) \/ CommitAfterSelect(t) PROVE ApiInv'
  BY <1>4, SelectKeeps, CommitAfterSelectKeeps
<1>5. CASE Restart
  BY <1>5, RestartKeeps
<1> QED
  BY <1>1, <1>2, <1>3, <1>4, <1>5 DEF Next

(* The invariant holds for ever. *)
THEOREM ApiInductive == Spec => []ApiInv
BY ApiInit, ApiStep, PTL DEF Spec

-----------------------------------------------------------------------------
(* An order answered with 202 has its row and its event, whatever GETs, failed POSTs and
   restarts do to the shared transaction. *)
THEOREM AcceptedSurvives == Spec => []AcceptedIsDurable
<1>1. ApiInv => AcceptedIsDurable
  BY DEF ApiInv, DurableInv
<1> QED
  BY <1>1, ApiInductive, PTL

(* No saga is started for an order whose row is missing. *)
THEOREM EventsHaveOrders == Spec => []EventHasOrder
<1>1. ApiInv => EventHasOrder
  BY DEF ApiInv, DurableInv
<1> QED
  BY <1>1, ApiInductive, PTL

(* What GET has reported is committed: a restart cannot take it back. *)
THEOREM SeenSurvives == Spec => []SeenIsDurable
<1>1. ApiInv => SeenIsDurable
  BY DEF ApiInv, DurableInv
<1> QED
  BY <1>1, ApiInductive, PTL
-----------------------------------------------------------------------------
(* The event of an open transaction belongs to the POST that is about to commit it, and an
   event is not committed before its POST has staged it. *)
PlacingInv ==
    /\ conn.outbox \cap outbox = {}
    /\ \A t \in Thread : threads[t].pc \in {"post", "inserted"} => threads[t].order \notin outbox
    /\ \A o \in conn.outbox :
        \E t \in Thread : threads[t].pc = "staged" /\ threads[t].order = o

(* While a POST has not staged its event, nothing is staged. *)
LEMMA NothingStaged ==
    ASSUME ApiInv, PlacingInv, NEW t \in Thread, threads[t].pc \in {"post", "inserted"}
    PROVE  conn.outbox = {}
BY DEF PlacingInv, ApiInv, LockInv, Posting

(* A commit brings at most the event of the POST in progress. *)
LEMMA CommitPlacesOne ==
    ASSUME ApiInv, PlacingInv, Commit
    PROVE  outbox' = outbox \/ \E o \in Order \ outbox : outbox' = outbox \cup {o}
<1>1. CASE conn.aborted \/ conn.outbox = {}
  BY <1>1 DEF Commit
<1>2. CASE ~conn.aborted /\ conn.outbox # {}
  <2>1. PICK o \in conn.outbox : TRUE
    BY <1>2
  <2>2. PICK t \in Thread : threads[t].pc = "staged" /\ threads[t].order = o
    BY <2>1 DEF PlacingInv
  <2>3. \A p \in conn.outbox : p = o
    BY <2>2 DEF PlacingInv, ApiInv, LockInv, Posting
  <2>4. conn.outbox = {o}
    BY <2>1, <2>3
  <2>5. o \in Order \ outbox
    BY <2>1 DEF PlacingInv, ApiInv, TypeOK
  <2> QED
    BY <1>2, <2>4, <2>5 DEF Commit
<1> QED
  BY <1>1, <1>2

LEMMA PlacingStep ==
    ASSUME ApiInv, ApiInv', PlacingInv, [Next]_vars
    PROVE  PlacingInv'
<1>1. CASE UNCHANGED vars
  BY <1>1 DEF PlacingInv, vars
<1>2. ASSUME NEW t \in Thread, NEW o \in Order, StartPost(t, o) PROVE PlacingInv'
  <2>1. /\ threads'[t] = [pc |-> "post", order |-> o]
        /\ \A u \in Thread \ {t} : threads'[u] = threads[u]
    BY <1>2 DEF StartPost, ApiInv, TypeOK
  <2>2. o \notin outbox
    BY <1>2 DEF StartPost, Unused, ApiInv, DurableInv, EventHasOrder
  <2>3. \A u \in Thread : threads[u].pc = "staged" => u # t
    BY <1>2 DEF StartPost, NoRequest
  <2> QED
    BY <1>2, <2>1, <2>2, <2>3 DEF StartPost, PlacingInv
<1>3. ASSUME NEW t \in Thread, InsertOrder(t) PROVE PlacingInv'
  <2>1. /\ threads'[t] = [pc |-> "inserted", order |-> threads[t].order]
        /\ \A u \in Thread \ {t} : threads'[u] = threads[u]
        /\ conn'.outbox = conn.outbox /\ outbox' = outbox
    BY <1>3 DEF InsertOrder, ApiInv, TypeOK
  <2>2. conn.outbox = {}
    BY <1>3, NothingStaged DEF InsertOrder
  <2> QED
    BY <1>3, <2>1, <2>2 DEF InsertOrder, PlacingInv
<1>4. ASSUME NEW t \in Thread, StageEvent(t) PROVE PlacingInv'
  <2>1. /\ threads'[t] = [pc |-> "staged", order |-> threads[t].order]
        /\ \A u \in Thread \ {t} : threads'[u] = threads[u]
        /\ conn'.outbox = conn.outbox \cup {threads[t].order} /\ outbox' = outbox
    BY <1>4 DEF StageEvent, ApiInv, TypeOK
  <2>2. conn.outbox = {}
    BY <1>4, NothingStaged DEF StageEvent
  <2> QED
    BY <1>4, <2>1, <2>2 DEF StageEvent, PlacingInv
<1>5. ASSUME NEW t \in Thread, PostFails(t) PROVE PlacingInv'
  <2>1. /\ threads'[t] = NoRequest
        /\ \A u \in Thread \ {t} : threads'[u] = threads[u]
        /\ conn'.outbox = conn.outbox /\ outbox' = outbox
    BY <1>5 DEF PostFails, Leave, ApiInv, TypeOK
  <2>2. conn.outbox = {}
    BY <1>5, NothingStaged DEF PostFails
  <2> QED
    BY <2>1, <2>2 DEF PlacingInv, NoRequest
<1>6. ASSUME NEW t \in Thread, FinishPost(t) PROVE PlacingInv'
  <2>1. conn'.outbox = {}
    BY <1>6 DEF FinishPost, Commit, NoTransaction
  <2>2. \A u \in Thread : threads'[u].pc \notin {"post", "inserted"}
    BY <1>6 DEF FinishPost, Leave, NoRequest, ApiInv, TypeOK, LockInv, Posting
  <2> QED
    BY <2>1, <2>2 DEF PlacingInv
<1>7. ASSUME NEW t \in Thread, Select(t) PROVE PlacingInv'
  <2>1. /\ threads'[t] = [threads[t] EXCEPT !.pc = "selected"]
        /\ \A u \in Thread \ {t} : threads'[u] = threads[u]
        /\ threads'[t].pc = "selected" /\ threads[t].pc = "idle"
    BY <1>7 DEF Select, ApiInv, TypeOK, NoRequest
  <2> QED
    BY <1>7, <2>1 DEF Select, PlacingInv
<1>8. ASSUME NEW t \in Thread, CommitAfterSelect(t) PROVE PlacingInv'
  <2>1. conn'.outbox = {} /\ outbox' \subseteq outbox \cup conn.outbox
    BY <1>8 DEF CommitAfterSelect, Commit, NoTransaction
  <2>2. /\ threads'[t] = NoRequest
        /\ \A u \in Thread \ {t} : threads'[u] = threads[u]
    BY <1>8 DEF CommitAfterSelect, ApiInv, TypeOK
  <2>3. ASSUME NEW u \in Thread, threads'[u].pc \in {"post", "inserted"}
        PROVE  threads'[u].order \notin outbox'
    <3>1. threads'[u] = threads[u]
      BY <2>2, <2>3 DEF NoRequest
    <3>2. conn.outbox = {}
      BY <2>3, <3>1, NothingStaged
    <3> QED
      BY <2>1, <2>3, <3>1, <3>2 DEF PlacingInv
  <2> QED
    BY <2>1, <2>3 DEF PlacingInv
<1>9. CASE Restart
  BY <1>9 DEF Restart, PlacingInv, NoRequest, NoTransaction
<1> QED
  BY <1>1, <1>2, <1>3, <1>4, <1>5, <1>6, <1>7, <1>8, <1>9 DEF Next

LEMMA PlacingInductive == Spec => []PlacingInv
<1>1. Init => PlacingInv
  BY DEF Init, PlacingInv, NoRequest, NoTransaction
<1>2. ApiInv /\ ApiInv' /\ PlacingInv /\ [Next]_vars => PlacingInv'
  BY PlacingStep
<1> QED
  BY <1>1, <1>2, ApiInductive, PTL DEF Spec

(* Committed rows stay, and events come at most one at a time. *)
LEMMA TableStep ==
    ASSUME ApiInv, PlacingInv, [Next]_vars
    PROVE  outbox' = outbox \/ \E o \in Order \ outbox : outbox' = outbox \cup {o}
<1>1. ASSUME NEW t \in Thread, FinishPost(t) \/ CommitAfterSelect(t)
      PROVE  outbox' = outbox \/ \E o \in Order \ outbox : outbox' = outbox \cup {o}
  BY <1>1, CommitPlacesOne DEF FinishPost, CommitAfterSelect
<1>2. CASE outbox' = outbox
  BY <1>2
<1> QED
  BY <1>1, <1>2 DEF Next, vars, StartPost, InsertOrder, StageEvent, PostFails, Select, Restart

LEMMA StepPlaces ==
    ASSUME ApiInv, ApiInv', PlacingInv, [Next]_vars
    PROVE  [\E o \in Order : Service!PlaceOrder(o)]_<<Placed, Staged>>
<1>1. outbox \subseteq orders /\ outbox' \subseteq orders'
  BY DEF ApiInv, DurableInv, EventHasOrder
<1>2. orders \cap outbox = outbox /\ (orders \cap outbox)' = outbox'
  BY <1>1
<1>3. CASE outbox' = outbox
  BY <1>2, <1>3 DEF Placed, Staged
<1>4. ASSUME NEW o \in Order \ outbox, outbox' = outbox \cup {o}
      PROVE  Service!PlaceOrder(o)
  <2>1. Placed[o] = "ABSENT"
    BY <1>2, <1>4 DEF Placed
  <2>2. Placed' = [Placed EXCEPT ![o] = "PENDING"]
    BY <1>2, <1>4 DEF Placed
  <2>3. Staged' = [Staged EXCEPT ![o] = @ \cup {"order.placed"}]
    BY <1>4 DEF Staged
  <2>4. UNCHANGED <<Handled, Handled>>
    BY DEF Handled
  <2> QED
    BY <2>1, <2>2, <2>3, <2>4 DEF Service!PlaceOrder
<1> QED
  BY <1>3, <1>4, TableStep

(* The pool of threads on one connection does what OrderService says of POST /orders, which is
   what the theorems about the saga take it for. *)
THEOREM ApiImplementsPlaceOrder == Spec => ImplementsPlaceOrder
<1>1. Init => Service!OrderInit /\ Service!BusInit
  BY DEF Init, Service!OrderInit, Service!BusInit, Placed, Staged, Handled
<1>2. ApiInv /\ ApiInv' /\ PlacingInv /\ [Next]_vars =>
        [\E o \in Order : Service!PlaceOrder(o)]_<<Placed, Staged>>
  BY StepPlaces
<1> QED
  BY <1>1, <1>2, ApiInductive, PlacingInductive, PTL DEF Spec, ImplementsPlaceOrder
=============================================================================
