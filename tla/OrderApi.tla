------------------------------ MODULE OrderApi ------------------------------
(***************************************************************************)
(* The HTTP side of order-service.  FastAPI runs its endpoints on a pool of*)
(* threads that share one psycopg connection, and so one transaction.  The *)
(* connection runs one statement at a time; what belongs together is kept  *)
(* together by _db_lock, except that GET commits after it released it.     *)
(***************************************************************************)
EXTENDS FiniteSets

CONSTANTS
    Thread,     \* the threads of the pool
    Order       \* the order ids the sequence hands out

VARIABLES
    threads,    \* threads[t]: where t is in its request, and the order it is about
    lock,       \* the set of threads that hold _db_lock
    conn,       \* the open transaction of _db: the rows it inserted, and whether it is aborted
    orders,     \* committed rows of orders
    outbox,     \* orders whose order.placed is a committed row of outbox
    accepted,   \* orders answered with 202
    seen        \* orders that a GET has reported

vars == <<threads, lock, conn, orders, outbox, accepted, seen>>

NoRequest == [pc |-> "idle", order |-> "none"]

NoTransaction == [orders |-> {}, outbox |-> {}, aborted |-> FALSE]

TypeOK ==
    /\ threads \in [Thread -> [pc : {"idle", "post", "inserted", "staged", "selected"},
                               order : Order \cup {"none"}]]
    /\ lock \subseteq Thread
    /\ conn \in [orders : SUBSET Order, outbox : SUBSET Order, aborted : BOOLEAN]
    /\ orders \subseteq Order
    /\ outbox \subseteq Order
    /\ accepted \subseteq Order
    /\ seen \subseteq Order

Init ==
    /\ threads = [t \in Thread |-> NoRequest]
    /\ lock = {}
    /\ conn = NoTransaction
    /\ orders = {} /\ outbox = {}
    /\ accepted = {} /\ seen = {}

(* The COMMIT of whatever the connection has open; of an aborted transaction, a rollback. *)
Commit ==
    /\ orders' = IF conn.aborted THEN orders ELSE orders \cup conn.orders
    /\ outbox' = IF conn.aborted THEN outbox ELSE outbox \cup conn.outbox
    /\ conn' = NoTransaction

(* A new id.  The sequence never repeats one, so one of which nothing is left stands for
   another. *)
Unused(o) == o \notin orders \cup conn.orders /\ \A t \in Thread : threads[t].order # o

Leave(t) ==
    /\ threads' = [threads EXCEPT ![t] = NoRequest]
    /\ lock' = lock \ {t}

(* Bug: POST does not ask for the lock. *)
StartPostUnlocked(t, o) ==
    /\ threads[t] = NoRequest
    /\ Unused(o)
    /\ threads' = [threads EXCEPT ![t] = [pc |-> "post", order |-> o]]
    /\ UNCHANGED <<lock, conn, orders, outbox, accepted, seen>>

(* POST /orders takes the lock. *)
StartPost(t, o) ==
    /\ threads[t] = NoRequest
    /\ lock = {}
    /\ Unused(o)
    /\ lock' = {t}
    /\ threads' = [threads EXCEPT ![t] = [pc |-> "post", order |-> o]]
    /\ UNCHANGED <<conn, orders, outbox, accepted, seen>>

InsertOrder(t) ==
    /\ threads[t].pc = "post"
    /\ ~conn.aborted
    /\ conn' = [conn EXCEPT !.orders = @ \cup {threads[t].order}]
    /\ threads' = [threads EXCEPT ![t].pc = "inserted"]
    /\ UNCHANGED <<lock, orders, outbox, accepted, seen>>

StageEvent(t) ==
    /\ threads[t].pc = "inserted"
    /\ ~conn.aborted
    /\ conn' = [conn EXCEPT !.outbox = @ \cup {threads[t].order}]
    /\ threads' = [threads EXCEPT ![t].pc = "staged"]
    /\ UNCHANGED <<lock, orders, outbox, accepted, seen>>

(* An INSERT raises: the database refuses it (a total beyond BIGINT), which aborts the
   transaction, or it is aborted already, or the parameters of the first cannot be encoded.
   Nobody rolls back. *)
PostFails(t) ==
    /\ \/ threads[t].pc \in {"post", "inserted"} /\ conn' = [conn EXCEPT !.aborted = TRUE]
       \/ threads[t].pc = "post" /\ UNCHANGED conn
    /\ Leave(t)
    /\ UNCHANGED <<orders, outbox, accepted, seen>>

(* Bug: the commit comes after the lock is released, as in GET. *)
FinishPostUnlocked(t) ==
    /\ threads[t].pc = "staged"
    /\ IF t \in lock
       THEN lock' = lock \ {t} /\ UNCHANGED <<threads, conn, orders, outbox, accepted>>
       ELSE Commit /\ Leave(t) /\ accepted' = accepted \cup {threads[t].order}
    /\ UNCHANGED seen

(* COMMIT under the lock, then 202. *)
FinishPost(t) ==
    /\ threads[t].pc = "staged"
    /\ Commit
    /\ Leave(t)
    /\ accepted' = accepted \cup {threads[t].order}
    /\ UNCHANGED seen

(* Bug: the SELECT does not ask for the lock. *)
SelectUnlocked(t) ==
    /\ threads[t] = NoRequest
    /\ ~conn.aborted
    /\ \E o \in Order : seen' = seen \cup ({o} \cap (orders \cup conn.orders))
    /\ threads' = [threads EXCEPT ![t].pc = "selected"]
    /\ UNCHANGED <<lock, conn, orders, outbox, accepted>>

(* GET /orders/{o}: the SELECT, within the lock.  On an aborted transaction it raises, and
   the request ends as it began. *)
Select(t) ==
    /\ threads[t] = NoRequest
    /\ lock = {}
    /\ ~conn.aborted
    /\ \E o \in Order : seen' = seen \cup ({o} \cap (orders \cup conn.orders))
    /\ threads' = [threads EXCEPT ![t].pc = "selected"]
    /\ UNCHANGED <<lock, conn, orders, outbox, accepted>>

(* Bug: a read has nothing to commit, so it rolls back. *)
RollbackAfterSelect(t) ==
    /\ threads[t].pc = "selected"
    /\ conn' = NoTransaction
    /\ threads' = [threads EXCEPT ![t] = NoRequest]
    /\ UNCHANGED <<lock, orders, outbox, accepted, seen>>

(* GET /orders/{o}: the commit, after the lock. *)
CommitAfterSelect(t) ==
    /\ threads[t].pc = "selected"
    /\ Commit
    /\ threads' = [threads EXCEPT ![t] = NoRequest]
    /\ UNCHANGED <<lock, accepted, seen>>

(* The process dies and is started again, with a new connection. *)
Restart ==
    /\ threads' = [t \in Thread |-> NoRequest]
    /\ lock' = {}
    /\ conn' = NoTransaction
    /\ UNCHANGED <<orders, outbox, accepted, seen>>

Next ==
    \/ \E t \in Thread :
        \/ \E o \in Order : StartPost(t, o)
        \/ InsertOrder(t) \/ StageEvent(t) \/ PostFails(t) \/ FinishPost(t)
        \/ Select(t) \/ CommitAfterSelect(t)
    \/ Restart

Spec == Init /\ [][Next]_vars

-----------------------------------------------------------------------------
(* An order answered with 202 survives: its row and its order.placed are committed, whatever
   other requests did to the shared transaction meanwhile. *)
AcceptedIsDurable == accepted \subseteq orders \cap outbox

(* The saga is never started for an order that does not exist. *)
EventHasOrder == outbox \subseteq orders

(* What a client has been shown survives a restart. *)
SeenIsDurable == seen \subseteq orders

(* api.py: the order row and the outbox row are committed atomically.  The commit of a GET
   on another thread between the two INSERTs commits the first alone. *)
OrderAndEventTogether == orders = outbox

-----------------------------------------------------------------------------
(* The HTTP side as OrderService has it.  An order is there for the saga when its row and its
   event are committed; nothing here handles an event. *)
Placed == [o \in Order |-> IF o \in orders \cap outbox THEN "PENDING" ELSE "ABSENT"]
Staged == [o \in Order |-> IF o \in outbox THEN {"order.placed"} ELSE {}]
Handled == [o \in Order |-> {}]

Service == INSTANCE OrderService WITH
    Faults <- Handled, status <- Placed, staged <- Staged, processed <- Handled, dead <- Handled

(* For the saga, threads, failed statements, foreign commits and restarts come down to one
   action: orders appear one at a time, each once and for good, the row with its event. *)
ImplementsPlaceOrder ==
    /\ Service!OrderInit /\ Service!BusInit
    /\ [][\E o \in Order : Service!PlaceOrder(o)]_<<Placed, Staged>>
=============================================================================
