----------------------------- MODULE FailureLab -----------------------------
(***************************************************************************)
(* The processes of the services and the ways the dashboard breaks them:   *)
(* POST /control fans a command out to the replicas, each of which has a   *)
(* queue of its own; POST /kill kills and restarts a service's containers. *)
(* Every replica runs a consumer, an outbox relay and a command listener,  *)
(* each with its own connection to the broker; they fail one by one.  Of   *)
(* the consumer only what its end does to the others is kept.              *)
(***************************************************************************)
EXTENDS Integers, Sequences, FiniteSets

CONSTANTS
    Replica,        \* the containers
    ServiceOf,      \* ServiceOf[r]: the service that replica r runs
    Command,        \* the commands the dashboard posts: target, action, value
    MaxPosts,       \* bound: calls of POST /control
    MaxDrops,       \* bound: connections lost
    MaxKills        \* bound: calls of POST /kill

ASSUME CommandAssumption == \A c \in Command : c.value \in BOOLEAN
ASSUME BoundAssumption == MaxPosts \in Nat /\ MaxDrops \in Nat /\ MaxKills \in Nat

VARIABLES
    up,         \* the replicas whose process runs
    threads,    \* threads[r][k]: the connection of thread k of replica r
    toggles,    \* toggles[r][a]: _state and the module-level flags of replica r
    inboxes,    \* inboxes[r]: the commands in the queue of r's listener
    posts,      \* the calls of publish_command in progress: the command, where it has yet to go
    starting,   \* the containers the calls of kill have yet to start
    backlog,    \* the services with unpublished rows in their outbox
    spent,      \* how much of each bound is used
    word,       \* history: word[r][a]: the value last posted for a to r since r listens
    tangled     \* history: <<r, a>> when the last post of a to r overtook, or was overtaken by, another

vars == <<up, threads, toggles, inboxes, posts, starting, backlog, spent, word, tangled>>

Service == {ServiceOf[r] : r \in Replica}
Action == {c.action : c \in Command}
Thread == {"relay", "listener"}

(* order-service serves HTTP on its main thread; the others run their consumer there. *)
Http == {"order-service"}

Off == [a \in Action |-> FALSE]
Connecting == [k \in Thread |-> "connecting"]

(* Thread k of r is attached to the broker. *)
Works(r, k) == r \in up /\ threads[r][k] = "open"

(* The replicas whose queue is bound to the control exchange. *)
Listening == {r \in Replica : Works(r, "listener")}

(* Every variable has its type, and no command waits for a listener that is gone: a replica
   that comes back begins with an empty queue. *)
TypeOK ==
    /\ up \subseteq Replica
    /\ threads \in [Replica -> [Thread -> {"connecting", "open", "lost", "ended"}]]
    /\ toggles \in [Replica -> [Action -> BOOLEAN]]
    /\ inboxes \in [Replica -> Seq(Command)]
    /\ \A r \in Replica : inboxes[r] # <<>> => r \in Listening
    /\ posts \subseteq [id : 0..MaxPosts, command : Command, to : SUBSET Listening]
    /\ starting \subseteq Replica
    /\ backlog \subseteq Service
    /\ spent \in [posts : 0..MaxPosts, drops : 0..MaxDrops, kills : 0..MaxKills]
    /\ word \in [Replica -> [Action -> BOOLEAN]]
    /\ tangled \subseteq Replica \X Action

(* docker compose up has brought everything up. *)
Init ==
    /\ up = Replica
    /\ threads = [r \in Replica |-> [k \in Thread |-> "open"]]
    /\ toggles = [r \in Replica |-> Off]
    /\ inboxes = [r \in Replica |-> <<>>]
    /\ posts = {} /\ starting = {} /\ backlog = {}
    /\ spent = [posts |-> 0, drops |-> 0, kills |-> 0]
    /\ word = [r \in Replica |-> Off]
    /\ tangled = {}

(* The target by which a command names a service. *)
Name == [s \in {"payment-service", "inventory-service", "shipping-service"} |->
            CASE s = "payment-service" -> "payment"
              [] s = "inventory-service" -> "inventory"
              [] s = "shipping-service" -> "shipping"]

(* The guards of the services' _on_command: which of them act on a command.  A slow_ms is a
   delay or none. *)
Heeds(s, c) ==
    \/ c.action = "pause_relay"
    \/ c.action = "duplicate" /\ s # "orchestrator"
    \/ c.action = "fail" /\ s \in DOMAIN Name /\ c.target = Name[s]
    \/ c.action \in {"silent", "slow_ms"} /\ s = "inventory-service" /\ c.target = "inventory"

Says(c, r, a) == c.action = a /\ Heeds(ServiceOf[r], c)

Audience(c) == {r \in Listening : Heeds(ServiceOf[r], c)}
-----------------------------------------------------------------------------

(* publish_command closes its connection, and POST /control answers, when the broker has
   routed the command to every queue. *)
InProgress(calls) == {p \in calls : p.to # {}}

(* A command for r and a has yet to be routed to r. *)
OnItsWay(r, a) == \E p \in posts : r \in p.to /\ Says(p.command, r, a)

(* publish_command: the fanout exchange takes the command for the queues bound to it. *)
Post(c) ==
    /\ spent.posts < MaxPosts
    /\ spent' = [spent EXCEPT !.posts = @ + 1]
    /\ posts' = InProgress(posts \cup {[id |-> spent.posts, command |-> c, to |-> Listening]})
    /\ word' = [r \in Replica |-> IF r \in Audience(c)
                                  THEN [word[r] EXCEPT ![c.action] = c.value]
                                  ELSE word[r]]
    /\ tangled' = {t \in tangled : ~(t[1] \in Audience(c) /\ t[2] = c.action)}
                      \cup {<<r, c.action>> : r \in {q \in Audience(c) : OnItsWay(q, c.action)}}
    /\ UNCHANGED <<up, threads, toggles, inboxes, starting, backlog>>

(* Bug: the queue has the name of the service, so its replicas share one copy. *)
RouteToOne(p, r) ==
    /\ r \in p.to
    /\ inboxes' = [inboxes EXCEPT ![r] = Append(@, p.command)]
    /\ posts' = InProgress((posts \ {p}) \cup
                     {[p EXCEPT !.to = {q \in @ : ServiceOf[q] # ServiceOf[r]}]})
    /\ UNCHANGED <<up, threads, toggles, starting, backlog, spent, word, tangled>>

(* The broker routes a command to a queue; two in progress reach two queues in any order. *)
Route(p, r) ==
    /\ r \in p.to
    /\ inboxes' = [inboxes EXCEPT ![r] = Append(@, p.command)]
    /\ posts' = InProgress((posts \ {p}) \cup {[p EXCEPT !.to = @ \ {r}]})
    /\ UNCHANGED <<up, threads, toggles, starting, backlog, spent, word, tangled>>

(* The listener of r passes the next command to _on_command. *)
HandleCommand(r) ==
    /\ Works(r, "listener") /\ inboxes[r] # <<>>
    /\ LET c == Head(inboxes[r]) IN
           toggles' = IF Heeds(ServiceOf[r], c)
                      THEN [toggles EXCEPT ![r][c.action] = c.value] ELSE toggles
    /\ inboxes' = [inboxes EXCEPT ![r] = Tail(@)]
    /\ UNCHANGED <<up, threads, posts, starting, backlog, spent, word, tangled>>
-----------------------------------------------------------------------------

(* Bug: the queues outlive their connections. *)
KeepQueues(gone) == UNCHANGED <<inboxes, posts>>

(* The queues of these listeners are exclusive: they go with the connection, and with them
   the commands they held. *)
DropQueues(gone) ==
    /\ inboxes' = [r \in Replica |-> IF r \in gone THEN <<>> ELSE inboxes[r]]
    /\ posts' = InProgress({[p EXCEPT !.to = @ \ gone] : p \in posts})

(* Processes end: what they held in memory is gone. *)
Exit(gone) ==
    /\ up' = up \ gone
    /\ DropQueues(gone)
    /\ toggles' = [r \in Replica |-> IF r \in gone THEN Off ELSE toggles[r]]
    /\ word' = [r \in Replica |-> IF r \in gone THEN Off ELSE word[r]]
    /\ tangled' = {t \in tangled : t[1] \notin gone}
    /\ threads' = [r \in Replica |-> IF r \in gone THEN Connecting ELSE threads[r]]

(* A daemon thread of r ends by an exception nobody catches; its process goes on without it. *)
EndThread(r, k) ==
    /\ threads' = [threads EXCEPT ![r][k] = "ended"]
    /\ DropQueues(IF k = "listener" THEN {r} ELSE {})
    /\ UNCHANGED <<up, toggles, word, tangled>>

(* A thread attaches to the broker for the first time or again. *)
Attach(r, k) ==
    /\ r \in up /\ threads[r][k] = "connecting"
    /\ threads' = [threads EXCEPT ![r][k] = "open"]
    /\ UNCHANGED <<up, toggles, inboxes, posts, starting, backlog, spent, word, tangled>>

(* connect gives up after its last attempt. *)
GiveUp(r, k) ==
    /\ r \in up /\ threads[r][k] = "connecting" /\ spent.drops < MaxDrops
    /\ spent' = [spent EXCEPT !.drops = @ + 1]
    /\ EndThread(r, k)
    /\ UNCHANGED <<starting, backlog>>

(* The broker drops a connection.  start_consuming raises in a listener; a relay is not reading
   and finds out when it publishes next. *)
Drop(r, k) ==
    /\ Works(r, k) /\ spent.drops < MaxDrops
    /\ spent' = [spent EXCEPT !.drops = @ + 1]
    /\ IF k = "relay"
       THEN /\ threads' = [threads EXCEPT ![r][k] = "lost"]
            /\ UNCHANGED <<up, toggles, inboxes, posts, word, tangled>>
       ELSE EndThread(r, k)
    /\ UNCHANGED <<starting, backlog>>

(* The broker drops the consumer's connection, or connect gives up on it.  Where it is the main
   thread that consumes, the process ends with its other threads, and compose does not restart
   it; in order-service only a daemon thread ends, which no other thread here depends on. *)
ConsumerEnds(r) ==
    /\ r \in up /\ ServiceOf[r] \notin Http /\ spent.drops < MaxDrops
    /\ spent' = [spent EXCEPT !.drops = @ + 1]
    /\ Exit({r})
    /\ UNCHANGED <<starting, backlog>>
-----------------------------------------------------------------------------

(* A handler of the consumer, or of the HTTP side, commits with a row in the outbox. *)
Write(r) ==
    /\ r \in up
    /\ backlog' = backlog \cup {ServiceOf[r]}
    /\ UNCHANGED <<up, threads, toggles, inboxes, posts, starting, spent, word, tangled>>

Paused(r) == "pause_relay" \in Action /\ toggles[r]["pause_relay"]

(* The relay of r publishes the batch and marks it. *)
Drain(r) ==
    /\ Works(r, "relay") /\ ~Paused(r) /\ ServiceOf[r] \in backlog
    /\ backlog' = backlog \ {ServiceOf[r]}
    /\ UNCHANGED <<up, threads, toggles, inboxes, posts, starting, spent, word, tangled>>

(* Bug: the error of the dead channel is logged and the channel kept. *)
KeepChannel(r) ==
    /\ r \in up /\ threads[r]["relay"] = "lost" /\ ~Paused(r) /\ ServiceOf[r] \in backlog
    /\ UNCHANGED vars

(* It publishes on a dead channel, rolls back and opens another. *)
Reopen(r) ==
    /\ r \in up /\ threads[r]["relay"] = "lost" /\ ~Paused(r) /\ ServiceOf[r] \in backlog
    /\ threads' = [threads EXCEPT ![r]["relay"] = "connecting"]
    /\ UNCHANGED <<up, toggles, inboxes, posts, starting, backlog, spent, word, tangled>>

(* The relay's database connection fails: not one of the errors that relay_loop catches. *)
RelayFails(r) ==
    /\ r \in up /\ threads[r]["relay"] \in {"open", "lost"} /\ spent.drops < MaxDrops
    /\ spent' = [spent EXCEPT !.drops = @ + 1]
    /\ EndThread(r, "relay")
    /\ UNCHANGED <<starting, backlog>>
-----------------------------------------------------------------------------

(* POST /kill: SIGKILL to every container of the service, one that is down included.  The
   code kills them one by one: a container that is down before the others is one whose consumer
   has ended (ConsumerEnds). *)
Kill(s) ==
    /\ spent.kills < MaxKills
    /\ spent' = [spent EXCEPT !.kills = @ + 1]
    /\ LET those == {r \in Replica : ServiceOf[r] = s} IN
           /\ Exit(those)
           /\ starting' = starting \cup those
    /\ UNCHANGED backlog

(* It starts them one by one. *)
Start(r) ==
    /\ r \in starting
    /\ up' = up \cup {r}
    /\ starting' = starting \ {r}
    /\ UNCHANGED <<threads, toggles, inboxes, posts, backlog, spent, word, tangled>>

(* A start that fails ends the request: the rest of the service stays down. *)
StartFails(r) ==
    /\ r \in starting /\ spent.drops < MaxDrops
    /\ spent' = [spent EXCEPT !.drops = @ + 1]
    /\ starting' = {q \in starting : ServiceOf[q] # ServiceOf[r]}
    /\ UNCHANGED <<up, threads, toggles, inboxes, posts, backlog, word, tangled>>

Next ==
    \/ \E c \in Command : Post(c)
    \/ \E p \in posts, r \in Replica : Route(p, r)
    \/ \E r \in Replica : \/ HandleCommand(r) \/ Write(r) \/ Drain(r) \/ Reopen(r)
                          \/ RelayFails(r) \/ ConsumerEnds(r) \/ Start(r) \/ StartFails(r)
                          \/ \E k \in Thread : Attach(r, k) \/ GiveUp(r, k) \/ Drop(r, k)
    \/ \E s \in Service : Kill(s)

(* A relay runs and, while the broker answers within its attempts, connects. *)
Fairness ==
    \A r \in Replica : WF_vars(Drain(r) \/ Reopen(r) \/ Attach(r, "relay"))

Spec == Init /\ [][Next]_vars /\ Fairness
-----------------------------------------------------------------------------

(* All replicas react to one toggle: a listener that has emptied its queue obeys the last
   command posted to it since its process began, whatever was posted before, missed or
   restarted.  The exception are two posts of one action that overlap: the broker may route
   them to each queue in another order. *)
LastWordObeyed ==
    \A r \in Listening, a \in Action :
        inboxes[r] = <<>> /\ ~OnItsWay(r, a) /\ <<r, a>> \notin tangled
            => toggles[r][a] = word[r][a]

(* No relay can publish the outbox of s: paused, ended or with its process down. *)
Stuck(s) ==
    \A r \in Replica : ServiceOf[r] = s =>
        r \notin up \/ threads[r]["relay"] = "ended" \/ Paused(r)

(* The outbox of a service drains, through every drop of the broker's connections, as long as
   one replica's relay thread is alive and not paused. *)
BacklogDrains == \A s \in Service : s \in backlog ~> (s \notin backlog \/ Stuck(s))
=============================================================================
