------------------------------ MODULE Observer ------------------------------
(***************************************************************************)
(* The live feed of observer.  A consumer thread appends every message of  *)
(* observer.q to a ring buffer and schedules its fan-out on the asyncio    *)
(* loop of the HTTP side, where a fan-out gives up the loop at each send.  *)
(* A WebSocket handler registers its client and replays the ring buffer.   *)
(***************************************************************************)
EXTENDS Integers, Sequences, FiniteSets

CONSTANTS
    Client,         \* the WebSocket connections, each opened at most once
    Slow,           \* those whose browser may stop reading
    Recent,         \* the length of the ring buffer
    MaxMessages     \* bound: the messages that reach observer.q

ASSUME RecentAssumption == Recent \in Nat \ {0}
ASSUME SlowAssumption == Slow \subseteq Client
ASSUME MessagesAssumption == MaxMessages \in Nat

VARIABLES
    feed,       \* the consumer thread, and the last message it acknowledged
    recent,     \* _recent
    clients,    \* _clients
    loop,       \* whether _loop is set
    sockets,    \* sockets[c]: away, open, stalled (its buffer is full) or closed
    handlers,   \* handlers[c]: the call of ws for c, what it has left to replay, and the first
                \* and the last message of the history it listed
    got,        \* got[c]: the messages sent to c while its socket is open
    tasks       \* tasks[n]: the run of _fan_out for message n

vars == <<feed, recent, clients, loop, sockets, handlers, got, tasks>>

Message == 1..MaxMessages

(* No fan-out, and one that the loop has not begun. *)
NoTask == [pc |-> "none", start |-> {}, visited |-> {}, dead |-> {}, at |-> {}]
NewTask == [NoTask EXCEPT !.pc = "ready"]

(* No call of ws. *)
NoHandler == [pc |-> "none", left |-> <<>>, from |-> 0, upto |-> 0]

(* Every variable has its type; the ring buffer never outgrows its length. *)
TypeOK ==
    /\ feed \in [pc : {"idle", "appended", "dead"}, acked : 0..MaxMessages]
    /\ recent \in Seq(Message) /\ Len(recent) <= Recent
    /\ clients \subseteq Client
    /\ loop \in BOOLEAN
    /\ sockets \in [Client -> {"away", "open", "stalled", "closed"}]
    /\ handlers \in [Client -> [pc : {"none", "serving", "gone"}, left : Seq(Message),
                              from : Nat, upto : Nat]]
    /\ got \in [Client -> SUBSET Message]
    /\ tasks \in [Message -> [pc : {"none", "ready", "iterating", "over", "cut"},
                              start : SUBSET Client, visited : SUBSET Client,
                              dead : SUBSET Client, at : SUBSET Client]]

Init ==
    /\ feed = [pc |-> "idle", acked |-> 0]
    /\ recent = <<>> /\ clients = {} /\ loop = FALSE
    /\ sockets = [c \in Client |-> "away"]
    /\ handlers = [c \in Client |-> NoHandler]
    /\ got = [c \in Client |-> {}]
    /\ tasks = [n \in Message |-> NoTask]

(* Bug: the deque is created without its maximal length. *)
KeepAll(n) == Append(recent, n)

(* The ring buffer with n appended: a deque with a maximal length drops its oldest. *)
Keep(n) == Append(IF Len(recent) < Recent THEN recent ELSE Tail(recent), n)

(* The consumer thread takes the next message of observer.q and appends it.  The queue is
   bound to every routing key; its content is what the other services publish. *)
Receive ==
    /\ feed.pc = "idle" /\ feed.acked < MaxMessages
    /\ recent' = Keep(feed.acked + 1)
    /\ feed' = [feed EXCEPT !.pc = "appended"]
    /\ UNCHANGED <<clients, loop, sockets, handlers, got, tasks>>

(* It hands the message to the loop, if there is one, and acknowledges it. *)
Schedule ==
    /\ feed.pc = "appended"
    /\ feed' = [pc |-> "idle", acked |-> feed.acked + 1]
    /\ tasks' = IF loop THEN [tasks EXCEPT ![feed.acked + 1] = NewTask] ELSE tasks
    /\ UNCHANGED <<recent, clients, loop, sockets, handlers, got>>

(* The broker drops the connection: run_consumer raises and its thread is over, while the
   HTTP side goes on. *)
FeedDies ==
    /\ feed.pc # "dead"
    /\ feed' = [feed EXCEPT !.pc = "dead"]
    /\ UNCHANGED <<recent, clients, loop, sockets, handlers, got, tasks>>

(* FastAPI's startup hook; only then does uvicorn listen. *)
Startup ==
    /\ ~loop
    /\ loop' = TRUE
    /\ UNCHANGED <<feed, recent, clients, sockets, handlers, got, tasks>>

(* ws, from accept to its first send: nothing is awaited in between. *)
Connect(c) ==
    /\ loop /\ sockets[c] = "away"
    /\ sockets' = [sockets EXCEPT ![c] = "open"]
    /\ clients' = clients \cup {c}
    /\ handlers' = [handlers EXCEPT ![c] =
           [pc |-> "serving", left |-> recent,
            from |-> IF recent = <<>> THEN feed.acked + 1 ELSE recent[1],
            upto |-> IF recent = <<>> THEN feed.acked ELSE recent[Len(recent)]]]
    /\ UNCHANGED <<feed, recent, loop, got, tasks>>

(* ws sends the next item of the history it listed. *)
Replay(c) ==
    /\ handlers[c].pc = "serving" /\ handlers[c].left # <<>> /\ sockets[c] = "open"
    /\ got' = [got EXCEPT ![c] = @ \cup {Head(handlers[c].left)}]
    /\ handlers' = [handlers EXCEPT ![c].left = Tail(@)]
    /\ UNCHANGED <<feed, recent, clients, loop, sockets, tasks>>

(* Sending or receiving on a closed socket raises: ws takes the client out. *)
Leave(c) ==
    /\ handlers[c].pc = "serving" /\ sockets[c] = "closed"
    /\ handlers' = [handlers EXCEPT ![c] = [NoHandler EXCEPT !.pc = "gone"]]
    /\ clients' = clients \ {c}
    /\ UNCHANGED <<feed, recent, loop, sockets, got, tasks>>

(* A browser stops reading, reads again, or goes away. *)
Turns(c, from, to) ==
    /\ sockets[c] \in from
    /\ sockets' = [sockets EXCEPT ![c] = to]
    /\ got' = IF to = "closed" THEN [got EXCEPT ![c] = {}] ELSE got
    /\ UNCHANGED <<feed, recent, clients, loop, handlers, tasks>>
Stall(c) == c \in Slow /\ Turns(c, {"open"}, "stalled")
Unstall(c) == Turns(c, {"stalled"}, "open")
Close(c) == Turns(c, {"open"}, "closed")

(* uvicorn's ping of a socket that does not answer times out. *)
PingTimeout(c) == Turns(c, {"stalled"}, "closed")

(* A set iterator goes on only while the set has the size it began with. *)
SameSize(t) == t.pc = "ready" \/ Cardinality(clients) = Cardinality(t.start)

(* Bug: a send that fails is tried again until it succeeds. *)
SentUntilTaken(t, c) ==
    [t EXCEPT !.pc = "iterating",
              !.visited = @ \cup {c},
              !.at = IF sockets[c] = "open" THEN {} ELSE {c}]

(* The task of message n after the outcome of its send to c. *)
Sent(t, c) ==
    [t EXCEPT !.pc = "iterating",
              !.visited = @ \cup {c},
              !.dead = IF sockets[c] = "closed" THEN @ \cup {c} ELSE @,
              !.at = IF sockets[c] = "stalled" THEN {c} ELSE {}]

(* What c has received after a send of n to it. *)
Deliver(n, c) ==
    got' = IF sockets[c] = "open" THEN [got EXCEPT ![c] = @ \cup {n}] ELSE got

(* The fan-out of n takes a next client from the set and sends. *)
Visit(n, c) ==
    LET t == tasks[n]
        u == IF t.pc = "ready" THEN [t EXCEPT !.start = clients] ELSE t IN
    /\ t.pc \in {"ready", "iterating"} /\ t.at = {} /\ SameSize(t)
    /\ c \in clients \ t.visited
    /\ tasks' = [tasks EXCEPT ![n] = Sent(u, c)]
    /\ Deliver(n, c)
    /\ UNCHANGED <<feed, recent, clients, loop, sockets, handlers>>

(* A send that waited for room in the buffer is over, with or without success. *)
Resume(n) ==
    /\ \E c \in tasks[n].at :
        /\ sockets[c] # "stalled"
        /\ tasks' = [tasks EXCEPT ![n] = Sent(@, c)]
        /\ Deliver(n, c)
    /\ UNCHANGED <<feed, recent, clients, loop, sockets, handlers>>

(* A client connected or left between two sends: the iterator raises, the rest of the
   clients miss the message, the dead ones stay registered, and nobody reads the error. *)
Break(n) ==
    /\ tasks[n].pc = "iterating" /\ tasks[n].at = {} /\ ~SameSize(tasks[n])
    /\ tasks' = [tasks EXCEPT ![n] = [NoTask EXCEPT !.pc = "cut"]]
    /\ UNCHANGED <<feed, recent, clients, loop, sockets, handlers, got>>

(* Bug: the first dead client ends the loop. *)
FinishAtDead(n) ==
    LET t == tasks[n] IN
    /\ t.pc \in {"ready", "iterating"} /\ t.at = {} /\ SameSize(t)
    /\ clients \subseteq t.visited \/ t.dead # {}
    /\ tasks' = [tasks EXCEPT ![n] = [NoTask EXCEPT !.pc = "over"]]
    /\ clients' = clients \ t.dead
    /\ UNCHANGED <<feed, recent, loop, sockets, handlers, got>>

(* The iterator is at its end; if one client left and another came, perhaps too early. *)
Finish(n) ==
    LET t == tasks[n]
        all == clients \subseteq t.visited IN
    /\ t.pc \in {"ready", "iterating"} /\ t.at = {} /\ SameSize(t)
    /\ all \/ (t.pc = "iterating" /\ clients # t.start)
    /\ tasks' = [tasks EXCEPT ![n] = [NoTask EXCEPT !.pc = IF all THEN "over" ELSE "cut"]]
    /\ clients' = clients \ t.dead
    /\ UNCHANGED <<feed, recent, loop, sockets, handlers, got>>

(* The process is restarted: what it held in memory is gone and its sockets are closed; the
   queue and its unacknowledged message are not. *)
Restart ==
    /\ feed' = [feed EXCEPT !.pc = "idle"]
    /\ recent' = <<>> /\ clients' = {} /\ loop' = FALSE
    /\ sockets' = [c \in Client |-> IF sockets[c] = "away" THEN "away" ELSE "closed"]
    /\ handlers' = [c \in Client |-> NoHandler]
    /\ tasks' = [n \in Message |-> NoTask]
    /\ got' = [c \in Client |-> {}]

Next ==
    \/ Receive \/ Schedule \/ FeedDies \/ Startup \/ Restart
    \/ \E c \in Client : \/ Connect(c) \/ Replay(c) \/ Leave(c)
                         \/ Stall(c) \/ Unstall(c) \/ Close(c) \/ PingTimeout(c)
    \/ \E n \in Message : \/ \E c \in Client : Visit(n, c)
                          \/ Resume(n) \/ Break(n) \/ Finish(n)

(* The loop runs every task that can run and pings its sockets.  A send that waits is woken by
   the room in its buffer, even if the buffer is full again soon after. *)
Fairness ==
    /\ \A n \in Message : /\ WF_vars((\E c \in Client : Visit(n, c)) \/ Break(n) \/ Finish(n))
                          /\ SF_vars(Resume(n))
    /\ \A c \in Slow : WF_vars(PingTimeout(c))

Spec == Init /\ [][Next]_vars /\ Fairness
-----------------------------------------------------------------------------

(* The newest message that the ring buffer has held. *)
Newest == IF feed.pc = "appended" THEN feed.acked + 1 ELSE feed.acked

(* Message n is in the history that ws still replays to c. *)
InHistory(n, c) == \E i \in DOMAIN handlers[c].left : handlers[c].left[i] = n

(* Message n is on its way to c: in the hands of the consumer thread, or in a fan-out that has
   yet to come to c. *)
Coming(n, c) ==
    \/ n = feed.acked + 1
    \/ tasks[n].pc = "ready"
    \/ tasks[n].pc = "iterating" /\ (c \notin tasks[n].visited \/ c \in tasks[n].at)

(* Of a client that is connected.  It has or is still replayed every message of the history
   that ws listed, whatever becomes of the fan-outs; and of the messages after that history it
   has every one, or it is on its way, or its fan-out was cut short.  The last case is a loss:
   another client connected or left while the set of clients was iterated over. *)
NoGap ==
    \A c \in Client : sockets[c] = "open" /\ handlers[c].pc = "serving" =>
        /\ \A n \in handlers[c].from..handlers[c].upto : n \in got[c] \/ InHistory(n, c)
        /\ \A n \in handlers[c].upto + 1..Newest :
               n \in got[c] \/ Coming(n, c) \/ tasks[n].pc = "cut"

(* A fan-out that has begun, and is not cut short or lost with its process, reaches every
   client registered: a closed client that it finds does not end it, and one that does not
   read holds it up only until its ping times out.  A fan-out that is cut short is exempt,
   and it need not reach anybody: a client that connects, or that ws takes out when its socket
   closes, before the iteration is over, ends it for the clients not yet visited. *)
FanOutReaches ==
    \A n \in Message, c \in Client :
        (tasks[n].pc \in {"ready", "iterating"} /\ c \in clients)
            ~> (n \in got[c] \/ sockets[c] = "closed" \/ tasks[n].pc \in {"cut", "none"})
=============================================================================
