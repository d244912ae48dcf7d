--------------------------- MODULE ObserverProofs ---------------------------
(* NoGap for any number of connections, any length of the ring buffer and any number of
   messages. *)
EXTENDS Observer, TLAPS

Live(c) == sockets[c] \in {"open", "stalled"}

(* The ring buffer holds consecutive messages, up to the newest one appended. *)
HistoryInv ==
    /\ \A i \in 1..Len(recent) : recent[i] = recent[1] + i - 1
    /\ Len(recent) > 0 => /\ recent[Len(recent)] >= feed.acked
                          /\ feed.pc = "idle" => recent[Len(recent)] = feed.acked
    /\ feed.pc = "appended" => Len(recent) > 0 /\ recent[Len(recent)] = feed.acked + 1

(* A client whose socket is not closed is registered, and its handler runs on a loop. *)
RegisteredInv ==
    \A c \in Client : Live(c) =>
        loop /\ c \in clients /\ handlers[c].pc = "serving"

(* A fan-out waits for at most one client while it iterates, and calls dead only closed ones. *)
TaskInv ==
    \A n \in Message :
        /\ tasks[n].pc = "ready" => tasks[n].visited = {}
        /\ tasks[n].pc # "iterating" => tasks[n].at = {}
        /\ \A c \in tasks[n].dead : sockets[c] = "closed"
        /\ \A c, d \in tasks[n].at : c = d

(* The two ends of NoGap, of stalled clients too: the history listed at registration ... *)
ReplayInv ==
    \A c \in Client : Live(c) =>
        \A n \in handlers[c].from..handlers[c].upto : n \in got[c] \/ InHistory(n, c)

(* ... and what comes after it. *)
ServedInv ==
    \A c \in Client : Live(c) =>
        \A n \in handlers[c].upto + 1..Newest :
            n \in got[c] \/ Coming(n, c) \/ tasks[n].pc = "cut"

(* The inductive invariant. *)
FeedInv == TypeOK /\ HistoryInv /\ RegisteredInv /\ TaskInv /\ ReplayInv /\ ServedInv
-----------------------------------------------------------------------------

(* The newest message is a message. *)
LEMMA NewestIsMessage ==
    ASSUME TypeOK, HistoryInv
    PROVE  /\ Newest \in 0..MaxMessages
           /\ feed.pc = "appended" => feed.acked + 1 \in Message
BY MessagesAssumption DEF TypeOK, HistoryInv, Newest, Message

(* What Append does to a sequence. *)
LEMMA AppendFacts ==
    ASSUME NEW S, NEW q \in Seq(S), NEW x \in S
    PROVE  /\ Append(q, x) \in Seq(S)
           /\ Len(Append(q, x)) = Len(q) + 1 /\ Len(q) \in Nat
           /\ \A i \in 1..Len(q) : Append(q, x)[i] = q[i]
           /\ Append(q, x)[Len(q) + 1] = x
OBVIOUS

(* What ws lists when it registers a client: every message from the first to the last. *)
LEMMA HistoryFacts ==
    ASSUME TypeOK, HistoryInv, recent # <<>>
    PROVE  /\ recent[1] \in Nat /\ recent[Len(recent)] \in Nat
           /\ Newest <= recent[Len(recent)]
           /\ \A n \in recent[1]..recent[Len(recent)] :
                  \E i \in DOMAIN recent : recent[i] = n
<1>1. /\ recent \in Seq(Message) /\ Len(recent) \in Nat /\ Len(recent) > 0
      /\ DOMAIN recent = 1..Len(recent)
  BY DEF TypeOK
<1>2. recent[1] \in Nat /\ recent[Len(recent)] \in Nat
  <2>1. 1 \in 1..Len(recent) /\ Len(recent) \in 1..Len(recent)
    BY <1>1
  <2>2. recent[1] \in Message /\ recent[Len(recent)] \in Message
    BY <1>1, <2>1
  <2> QED
    BY <2>2 DEF Message
<1>3. recent[Len(recent)] = recent[1] + Len(recent) - 1
  BY <1>1 DEF HistoryInv
<1>4. Newest <= recent[Len(recent)]
  BY <1>1, <1>2 DEF HistoryInv, Newest, TypeOK
<1>5. ASSUME NEW n \in recent[1]..recent[Len(recent)]
      PROVE  \E i \in DOMAIN recent : recent[i] = n
  <2>1. n - recent[1] + 1 \in 1..Len(recent)
    BY <1>1, <1>2, <1>3
  <2>2. recent[n - recent[1] + 1] = n
    BY <1>2, <2>1 DEF HistoryInv
  <2> QED
    BY <1>1, <2>1, <2>2
<1> QED
  BY <1>2, <1>4, <1>5

(* The ring buffer keeps its type, its length and its order. *)
LEMMA KeepFacts ==
    ASSUME TypeOK, HistoryInv, feed.pc = "idle", feed.acked < MaxMessages
    PROVE  LET r == Keep(feed.acked + 1) IN
           /\ r \in Seq(Message)
           /\ Len(r) <= Recent /\ Len(r) > 0
           /\ \A i \in 1..Len(r) : r[i] = r[1] + i - 1
           /\ r[Len(r)] = feed.acked + 1
<1> DEFINE n == feed.acked + 1
           t == IF Len(recent) < Recent THEN recent ELSE Tail(recent)
<1>1. n \in Message /\ feed.acked \in Nat
  BY MessagesAssumption DEF TypeOK, Message
<1>2. recent \in Seq(Message) /\ Len(recent) \in Nat /\ Len(recent) <= Recent
  BY DEF TypeOK
<1>3. \A i \in 1..Len(recent) : recent[i] = feed.acked - Len(recent) + i
  <2> SUFFICES ASSUME NEW i \in 1..Len(recent)
               PROVE  recent[i] = feed.acked - Len(recent) + i
    OBVIOUS
  <2>1. recent[1] \in Int
    <3>1. 1 \in 1..Len(recent)
      BY <1>2
    <3>2. recent[1] \in Message
      BY <1>2, <3>1
    <3> QED
      BY <3>2 DEF Message
  <2>2. recent[i] = recent[1] + i - 1
    BY DEF HistoryInv
  <2>3. recent[Len(recent)] = recent[1] + Len(recent) - 1 /\ recent[Len(recent)] = feed.acked
    BY <1>2 DEF HistoryInv
  <2>4. recent[1] = feed.acked - Len(recent) + 1
    <3> DEFINE l == Len(recent)
               b == recent[1]
               k == feed.acked
    <3>1. k = b + l - 1 /\ b \in Int /\ l \in Nat /\ k \in Nat
      BY <1>1, <1>2, <2>1, <2>3
    <3> HIDE DEF l, b, k
    <3>2. b = k - l + 1
      BY <3>1
    <3> QED
      BY <3>2 DEF l, b, k
  <2> DEFINE b == recent[1]
             k == feed.acked - Len(recent)
  <2>5. recent[i] = b + i - 1 /\ b = k + 1 /\ k \in Int /\ i \in Nat
    BY <1>1, <1>2, <2>2, <2>4
  <2> HIDE DEF b, k
  <2>6. recent[i] = k + i
    BY <2>5
  <2> QED
    BY <2>6 DEF k
<1>4. /\ t \in Seq(Message) /\ Len(t) \in Nat /\ Len(t) < Recent
      /\ \A i \in 1..Len(t) : t[i] = feed.acked - Len(t) + i
  <2>1. CASE Len(recent) < Recent
    BY <1>2, <1>3, <2>1
  <2>2. CASE ~(Len(recent) < Recent)
    <3>1. Len(recent) = Recent /\ recent # <<>> /\ t = Tail(recent)
      BY <1>2, <2>2, RecentAssumption
    <3>2. /\ Tail(recent) \in Seq(Message) /\ Len(Tail(recent)) = Len(recent) - 1
          /\ \A i \in 1..Len(recent) - 1 : Tail(recent)[i] = recent[i + 1]
      BY <1>2, <3>1
    <3>3. Recent \in Nat \ {0}
      BY RecentAssumption
    <3>4. Len(t) = Len(recent) - 1 /\ Len(t) \in Nat /\ Len(t) < Recent
      BY <1>2, <3>1, <3>2, <3>3
    <3>5. ASSUME NEW i \in 1..Len(t) PROVE t[i] = feed.acked - Len(t) + i
      <4>1. i + 1 \in 1..Len(recent) /\ i \in 1..Len(recent) - 1
        BY <1>2, <3>4
      <4>2. t[i] = recent[i + 1]
        BY <3>1, <3>2, <4>1
      <4>3. recent[i + 1] = feed.acked - Len(recent) + (i + 1)
        BY <1>3, <4>1
      <4> DEFINE l == Len(recent)
                 k == feed.acked
      <4>4. /\ t[i] = k - l + (i + 1) /\ Len(t) = l - 1
            /\ l \in Nat /\ k \in Nat /\ i \in Nat
        BY <1>1, <1>2, <3>4, <4>1, <4>2, <4>3
      <4> HIDE DEF l, k, t
      <4>5. t[i] = k - Len(t) + i
        BY <4>4
      <4> QED
        BY <4>5 DEF k
    <3> QED
      BY <3>1, <3>2, <3>4, <3>5
  <2> QED
    BY <2>1, <2>2
<1>5. Keep(n) = Append(t, n)
  BY DEF Keep
<1> HIDE DEF t, n
<1>6. /\ Append(t, n) \in Seq(Message) /\ Len(Append(t, n)) = Len(t) + 1
      /\ \A i \in 1..Len(t) : Append(t, n)[i] = t[i]
      /\ Append(t, n)[Len(t) + 1] = n
  BY <1>1, <1>4, AppendFacts
<1>7. \A i \in 1..Len(t) + 1 : Append(t, n)[i] = feed.acked - Len(t) + i
  BY <1>1, <1>4, <1>6 DEF n
<1>8. \A i \in 1..Len(t) + 1 : Append(t, n)[i] = Append(t, n)[1] + i - 1
  <2>1. 1 \in 1..Len(t) + 1
    BY <1>4
  <2>2. Append(t, n)[1] = feed.acked - Len(t) + 1
    BY <1>7, <2>1
  <2> SUFFICES ASSUME NEW i \in 1..Len(t) + 1
               PROVE  Append(t, n)[i] = Append(t, n)[1] + i - 1
    OBVIOUS
  <2>3. Append(t, n)[i] = feed.acked - Len(t) + i
    BY <1>7
  <2> QED
    BY <1>1, <1>4, <2>2, <2>3
<1>9. Len(t) + 1 <= Recent /\ Len(t) + 1 > 0
  BY <1>4, RecentAssumption
<1>10. Keep(feed.acked + 1) = Append(t, n) /\ n = feed.acked + 1
  BY <1>5 DEF n
<1> DEFINE r == Append(t, n)
<1>11. /\ r \in Seq(Message) /\ Len(r) = Len(t) + 1
       /\ \A i \in 1..Len(t) + 1 : r[i] = r[1] + i - 1
       /\ r[Len(t) + 1] = n
  BY <1>6, <1>8
<1> HIDE DEF r
<1>12. r \in Seq(Message) /\ Len(r) <= Recent /\ Len(r) > 0
  BY <1>9, <1>11
<1>13. \A i \in 1..Len(r) : r[i] = r[1] + i - 1
  BY <1>11
<1>14. r[Len(r)] = n
  BY <1>11
<1>15. Keep(feed.acked + 1) = r
  BY <1>10 DEF r
<1> QED
  BY <1>10, <1>12, <1>13, <1>14, <1>15

-----------------------------------------------------------------------------
(* A socket only ever turns to another of its states, and what is kept of a closed one goes. *)
LEMMA SocketFacts ==
    ASSUME NEW c \in Client, Stall(c) \/ Unstall(c) \/ Close(c) \/ PingTimeout(c)
    PROVE  \E from \in {{"open"}, {"stalled"}}, to \in {"open", "stalled", "closed"} :
               Turns(c, from, to)
BY DEF Stall, Unstall, Close, PingTimeout

(* The handler of a client that left, over any set of histories. *)
LEMMA GoneHandler ==
    ASSUME NEW S, <<>> \in S
    PROVE  [NoHandler EXCEPT !.pc = "gone"] \in [pc : {"none", "serving", "gone"}, left : S, from : Nat, upto : Nat]
BY DEF NoHandler

(* What a send leaves of a task. *)
LEMMA SentFacts ==
    ASSUME NEW c \in Client, NEW t,
           t \in [pc : {"none", "ready", "iterating", "over", "cut"}, start : SUBSET Client,
                  visited : SUBSET Client, dead : SUBSET Client, at : SUBSET Client]
    PROVE  /\ Sent(t, c) \in [pc : {"iterating"}, start : SUBSET Client, visited : SUBSET Client,
                              dead : SUBSET Client, at : SUBSET Client]
           /\ Sent(t, c).start = t.start
           /\ Sent(t, c).visited = t.visited \cup {c}
           /\ Sent(t, c).dead = IF sockets[c] = "closed" THEN t.dead \cup {c} ELSE t.dead
           /\ Sent(t, c).at = IF sockets[c] = "stalled" THEN {c} ELSE {}
BY DEF Sent

(* What a fan-out is that may have begun just now. *)
LEMMA BegunFacts ==
    ASSUME NEW t, clients \subseteq Client,
           t \in [pc : {"none", "ready", "iterating", "over", "cut"}, start : SUBSET Client,
                  visited : SUBSET Client, dead : SUBSET Client, at : SUBSET Client]
    PROVE  LET u == IF t.pc = "ready" THEN [t EXCEPT !.start = clients] ELSE t IN
           /\ u \in [pc : {"none", "ready", "iterating", "over", "cut"}, start : SUBSET Client,
                     visited : SUBSET Client, dead : SUBSET Client, at : SUBSET Client]
           /\ u.visited = t.visited /\ u.dead = t.dead
OBVIOUS

(* A send leaves a task of the same type. *)
LEMMA SentType ==
    ASSUME NEW c \in Client, NEW t,
           t \in [pc : {"none", "ready", "iterating", "over", "cut"}, start : SUBSET Client,
                  visited : SUBSET Client, dead : SUBSET Client, at : SUBSET Client]
    PROVE  Sent(t, c) \in [pc : {"none", "ready", "iterating", "over", "cut"}, start : SUBSET Client,
                           visited : SUBSET Client, dead : SUBSET Client, at : SUBSET Client]
BY DEF Sent

(* What remains to replay after the next item, over any set of histories. *)
LEMMA ReplayedHandler ==
    ASSUME NEW S, NEW h, NEW rest \in S,
           h \in [pc : {"none", "serving", "gone"}, left : S, from : Nat, upto : Nat]
    PROVE  [h EXCEPT !.left = rest] \in [pc : {"none", "serving", "gone"}, left : S, from : Nat, upto : Nat]
OBVIOUS

(* Every step keeps the types. *)
LEMMA TypeStep ==
    ASSUME TypeOK, HistoryInv, [Next]_vars
    PROVE  TypeOK'
<1> USE DEF TypeOK
<1>1. CASE UNCHANGED vars
  BY <1>1 DEF vars
<1>2. CASE Receive
  <2>1. Keep(feed.acked + 1) \in Seq(Message) /\ Len(Keep(feed.acked + 1)) <= Recent
    BY <1>2, KeepFacts DEF Receive
  <2> QED
    BY <1>2, <2>1 DEF Receive
<1>3. CASE Schedule
  <2>1. feed.acked + 1 \in Message /\ feed.acked + 1 \in 0..MaxMessages
    BY <1>3, NewestIsMessage, MessagesAssumption DEF Schedule, Message
  <2> QED
    BY <1>3, <2>1 DEF Schedule, NewTask, NoTask
<1>4. CASE FeedDies
  BY <1>4 DEF FeedDies
<1>5. CASE Startup
  BY <1>5 DEF Startup
<1>6. CASE Restart
  <2>1. <<>> \in Seq(Message) /\ Len(<<>>) <= Recent
    BY RecentAssumption
  <2> QED
    BY <1>6, <2>1 DEF Restart, NoHandler, NoTask
<1>7. ASSUME NEW c \in Client, Connect(c) \/ Replay(c) \/ Leave(c) PROVE TypeOK'
  <2>1. CASE Connect(c)
    <3>1. CASE recent = <<>>
      <4>1. feed.acked \in Nat
        BY MessagesAssumption
      <4> QED
        BY <2>1, <3>1, <4>1 DEF Connect
    <3>2. CASE recent # <<>>
      <4>1. recent[1] \in Nat /\ recent[Len(recent)] \in Nat
        BY <3>2, HistoryFacts
      <4> QED
        BY <2>1, <3>2, <4>1 DEF Connect
    <3> QED
      BY <3>1, <3>2
  <2>2. CASE Replay(c)
    <3>1. Head(handlers[c].left) \in Message /\ Tail(handlers[c].left) \in Seq(Message)
      BY <2>2 DEF Replay
    <3>2. [handlers[c] EXCEPT !.left = Tail(@)]
              \in [pc : {"none", "serving", "gone"}, left : Seq(Message), from : Nat, upto : Nat]
      <4>1. handlers[c] \in [pc : {"none", "serving", "gone"}, left : Seq(Message), from : Nat, upto : Nat]
        OBVIOUS
      <4> HIDE DEF TypeOK
      <4> QED
        BY <3>1, <4>1, ReplayedHandler
    <3>3. handlers' = [handlers EXCEPT ![c] = [handlers[c] EXCEPT !.left = Tail(@)]]
      BY <2>2 DEF Replay
    <3>4. got[c] \cup {Head(handlers[c].left)} \in SUBSET Message
      BY <3>1
    <3>5. got' = [got EXCEPT ![c] = got[c] \cup {Head(handlers[c].left)}]
      BY <2>2 DEF Replay
    <3> QED
      BY <2>2, <3>2, <3>3, <3>4, <3>5 DEF Replay
  <2>3. CASE Leave(c)
    <3>1. [NoHandler EXCEPT !.pc = "gone"]
              \in [pc : {"none", "serving", "gone"}, left : Seq(Message), from : Nat, upto : Nat]
      <4>1. <<>> \in Seq(Message)
        OBVIOUS
      <4> HIDE DEF TypeOK
      <4> QED
        BY <4>1, GoneHandler
    <3> QED
      BY <2>3, <3>1 DEF Leave
  <2> QED
    BY <1>7, <2>1, <2>2, <2>3
<1>8. ASSUME NEW c \in Client, Stall(c) \/ Unstall(c) \/ Close(c) \/ PingTimeout(c) PROVE TypeOK'
  <2> PICK from \in {{"open"}, {"stalled"}}, to \in {"open", "stalled", "closed"} : Turns(c, from, to)
    BY <1>8, SocketFacts
  <2>1. sockets' \in [Client -> {"away", "open", "stalled", "closed"}]
    BY DEF Turns
  <2>2. got' \in [Client -> SUBSET Message]
    <3>1. got' = [got EXCEPT ![c] = {}] \/ got' = got
      BY DEF Turns
    <3> QED
      BY <3>1
  <2>3. UNCHANGED <<feed, recent, clients, loop, handlers, tasks>>
    BY DEF Turns
  <2> QED
    BY <2>1, <2>2, <2>3
<1>9. ASSUME NEW n \in Message, \E c \in Client : Visit(n, c) PROVE TypeOK'
  <2> PICK c \in Client : Visit(n, c)
    BY <1>9
  <2> DEFINE u == IF tasks[n].pc = "ready" THEN [tasks[n] EXCEPT !.start = clients] ELSE tasks[n]
  <2>1. u \in [pc : {"none", "ready", "iterating", "over", "cut"}, start : SUBSET Client,
               visited : SUBSET Client, dead : SUBSET Client, at : SUBSET Client]
    <3>1. /\ clients \subseteq Client
          /\ tasks[n] \in [pc : {"none", "ready", "iterating", "over", "cut"}, start : SUBSET Client,
                           visited : SUBSET Client, dead : SUBSET Client, at : SUBSET Client]
      OBVIOUS
    <3> HIDE DEF TypeOK
    <3> QED
      BY <3>1, BegunFacts
  <2>2. tasks' = [tasks EXCEPT ![n] = Sent(u, c)]
    BY DEF Visit
  <2> HIDE DEF u
  <2>3. tasks' \in [Message -> [pc : {"none", "ready", "iterating", "over", "cut"},
                                start : SUBSET Client, visited : SUBSET Client,
                                dead : SUBSET Client, at : SUBSET Client]]
    <3>1. Sent(u, c) \in [pc : {"none", "ready", "iterating", "over", "cut"}, start : SUBSET Client,
                          visited : SUBSET Client, dead : SUBSET Client, at : SUBSET Client]
      BY <2>1, SentType
    <3> QED
      BY <2>2, <3>1
  <2>4. got' \in [Client -> SUBSET Message]
    <3>1. got[c] \cup {n} \in SUBSET Message
      OBVIOUS
    <3> QED
      BY <3>1 DEF Visit, Deliver
  <2> QED
    BY <2>3, <2>4 DEF Visit
<1>10. ASSUME NEW n \in Message, Resume(n) \/ Break(n) \/ Finish(n) PROVE TypeOK'
  <2>1. CASE Resume(n)
    <3> PICK c \in tasks[n].at : /\ tasks' = [tasks EXCEPT ![n] = Sent(tasks[n], c)]
                                 /\ Deliver(n, c)
      BY <2>1 DEF Resume
    <3>1. c \in Client
      OBVIOUS
    <3>2. tasks' \in [Message -> [pc : {"none", "ready", "iterating", "over", "cut"},
                                  start : SUBSET Client, visited : SUBSET Client,
                                  dead : SUBSET Client, at : SUBSET Client]]
      <4>1. tasks[n] \in [pc : {"none", "ready", "iterating", "over", "cut"}, start : SUBSET Client,
                          visited : SUBSET Client, dead : SUBSET Client, at : SUBSET Client]
        OBVIOUS
      <4>2. Sent(tasks[n], c) \in [pc : {"none", "ready", "iterating", "over", "cut"},
                                   start : SUBSET Client, visited : SUBSET Client,
                                   dead : SUBSET Client, at : SUBSET Client]
        BY <3>1, <4>1, SentType
      <4> QED
        BY <4>2
    <3>3. got' \in [Client -> SUBSET Message]
      <4>1. got[c] \cup {n} \in SUBSET Message
        BY <3>1
      <4> QED
        BY <3>1, <4>1 DEF Deliver
    <3> QED
      BY <2>1, <3>2, <3>3 DEF Resume
  <2>2. CASE Break(n)
    BY <2>2 DEF Break, NoTask
  <2>3. CASE Finish(n)
    BY <2>3 DEF Finish, NoTask
  <2> QED
    BY <1>10, <2>1, <2>2, <2>3
<1> QED
  BY <1>1, <1>2, <1>3, <1>4, <1>5, <1>6, <1>7, <1>8, <1>9, <1>10 DEF Next

(* The ring buffer stays consecutive; only the consumer thread and a restart touch it. *)
LEMMA HistoryStep ==
    ASSUME TypeOK, HistoryInv, [Next]_vars
    PROVE  HistoryInv'
<1>1. CASE UNCHANGED <<feed, recent>>
  BY <1>1 DEF HistoryInv
<1>2. CASE Receive
  BY <1>2, KeepFacts DEF Receive, HistoryInv, TypeOK
<1>3. CASE Schedule
  BY <1>3 DEF Schedule, HistoryInv, TypeOK
<1>4. CASE FeedDies
  BY <1>4 DEF FeedDies, HistoryInv, TypeOK
<1>5. CASE Restart
  BY <1>5 DEF Restart, HistoryInv, TypeOK
<1> QED
  BY <1>1, <1>2, <1>3, <1>4, <1>5
     DEF Next, vars, Startup, Connect, Replay, Leave, Stall, Unstall, Close, PingTimeout, Turns,
         Visit, Resume, Break, Finish

(* Whoever has an open socket stays registered: a client leaves the set only when it is dead. *)
LEMMA RegisteredStep ==
    ASSUME TypeOK, HistoryInv, RegisteredInv, TaskInv, [Next]_vars
    PROVE  RegisteredInv'
<1> USE DEF TypeOK, RegisteredInv, Live
<1>1. CASE UNCHANGED <<clients, loop, sockets, handlers>>
  BY <1>1
<1>2. CASE Startup
  BY <1>2 DEF Startup
<1>3. CASE Restart
  BY <1>3 DEF Restart
<1>4. ASSUME NEW c \in Client, Connect(c) PROVE RegisteredInv'
  BY <1>4 DEF Connect
<1>5. ASSUME NEW c \in Client, Replay(c) PROVE RegisteredInv'
  BY <1>5 DEF Replay
<1>6. ASSUME NEW c \in Client, Leave(c) PROVE RegisteredInv'
  BY <1>6 DEF Leave
<1>7. ASSUME NEW c \in Client, Stall(c) \/ Unstall(c) \/ Close(c) \/ PingTimeout(c) PROVE RegisteredInv'
  <2> PICK from \in {{"open"}, {"stalled"}}, to \in {"open", "stalled", "closed"} : Turns(c, from, to)
    BY <1>7, SocketFacts
  <2>1. UNCHANGED <<clients, loop, handlers>> /\ \A a \in Client : Live(a)' => Live(a)
    BY DEF Turns
  <2> QED
    BY <2>1
<1>8. ASSUME NEW n \in Message, Finish(n) PROVE RegisteredInv'
  BY <1>8 DEF Finish, TaskInv
<1> QED
  BY <1>1, <1>2, <1>3, <1>4, <1>5, <1>6, <1>7, <1>8
     DEF Next, vars, Receive, Schedule, FeedDies, Visit, Resume, Break

(* One fan-out goes on and the sockets are as they were. *)
LEMMA OneTaskStep ==
    ASSUME TypeOK, TaskInv, NEW n \in Message, NEW x,
           tasks' = [tasks EXCEPT ![n] = x], sockets' = sockets,
           x.pc # "ready", x.pc # "iterating" => x.at = {},
           \A c \in x.dead : sockets[c] = "closed",
           \A c, d \in x.at : c = d
    PROVE  TaskInv'
<1> SUFFICES ASSUME NEW m \in Message
             PROVE  /\ tasks'[m].pc = "ready" => tasks'[m].visited = {}
                    /\ tasks'[m].pc # "iterating" => tasks'[m].at = {}
                    /\ \A c \in tasks'[m].dead : sockets'[c] = "closed"
                    /\ \A c, d \in tasks'[m].at : c = d
  BY DEF TaskInv
<1>1. tasks'[m] = IF m = n THEN x ELSE tasks[m]
  BY DEF TypeOK
<1>2. CASE m = n
  BY <1>1, <1>2
<1>3. CASE m # n
  BY <1>1, <1>3 DEF TaskInv
<1> QED
  BY <1>2, <1>3

(* What a fan-out knows of its clients stays true: a closed socket never opens again. *)
LEMMA TaskStep ==
    ASSUME TypeOK, HistoryInv, RegisteredInv, TaskInv, [Next]_vars
    PROVE  TaskInv'
<1> USE DEF TypeOK, TaskInv
<1>1. CASE UNCHANGED <<sockets, tasks>>
  BY <1>1
<1>2. CASE Schedule
  BY <1>2, NewestIsMessage DEF Schedule, NewTask, NoTask
<1>3. CASE Restart
  BY <1>3 DEF Restart, NoTask
<1>4. ASSUME NEW c \in Client, Connect(c) PROVE TaskInv'
  BY <1>4 DEF Connect
<1>5. ASSUME NEW c \in Client, Stall(c) \/ Unstall(c) \/ Close(c) \/ PingTimeout(c) PROVE TaskInv'
  <2> PICK from \in {{"open"}, {"stalled"}}, to \in {"open", "stalled", "closed"} : Turns(c, from, to)
    BY <1>5, SocketFacts
  <2>1. tasks' = tasks /\ \A a \in Client : sockets[a] = "closed" => sockets'[a] = "closed"
    BY DEF Turns
  <2> QED
    BY <2>1
<1>6. ASSUME NEW n \in Message, \E c \in Client : Visit(n, c) PROVE TaskInv'
  <2> PICK c \in Client : Visit(n, c)
    BY <1>6
  <2> DEFINE u == IF tasks[n].pc = "ready" THEN [tasks[n] EXCEPT !.start = clients] ELSE tasks[n]
  <2>1. /\ u \in [pc : {"none", "ready", "iterating", "over", "cut"}, start : SUBSET Client,
                  visited : SUBSET Client, dead : SUBSET Client, at : SUBSET Client]
        /\ u.dead = tasks[n].dead
    <3>1. /\ clients \subseteq Client
          /\ tasks[n] \in [pc : {"none", "ready", "iterating", "over", "cut"}, start : SUBSET Client,
                           visited : SUBSET Client, dead : SUBSET Client, at : SUBSET Client]
      OBVIOUS
    <3> HIDE DEF TypeOK, TaskInv
    <3> QED
      BY <3>1, BegunFacts
  <2>2. tasks' = [tasks EXCEPT ![n] = Sent(u, c)] /\ sockets' = sockets
    BY DEF Visit
  <2> HIDE DEF u
  <2> DEFINE x == Sent(u, c)
  <2>3. /\ x.pc = "iterating"
        /\ x.dead = IF sockets[c] = "closed" THEN u.dead \cup {c} ELSE u.dead
        /\ x.at = IF sockets[c] = "stalled" THEN {c} ELSE {}
    <3> HIDE DEF TypeOK, TaskInv
    <3>1. /\ x \in [pc : {"iterating"}, start : SUBSET Client, visited : SUBSET Client,
                     dead : SUBSET Client, at : SUBSET Client]
          /\ x.dead = IF sockets[c] = "closed" THEN u.dead \cup {c} ELSE u.dead
          /\ x.at = IF sockets[c] = "stalled" THEN {c} ELSE {}
      BY <2>1, SentFacts
    <3> HIDE DEF x
    <3> QED
      BY <3>1
  <2>4. \A d \in x.dead : sockets[d] = "closed"
    BY <2>1, <2>3
  <2>5. x.pc = "iterating" /\ \A d, f \in x.at : d = f
    BY <2>3
  <2>6. tasks' = [tasks EXCEPT ![n] = x]
    BY <2>2
  <2> HIDE DEF x, TypeOK, TaskInv
  <2> QED
    BY <2>2, <2>4, <2>5, <2>6, OneTaskStep
<1>7. ASSUME NEW n \in Message, Resume(n) PROVE TaskInv'
  <2> PICK c \in tasks[n].at : tasks' = [tasks EXCEPT ![n] = Sent(tasks[n], c)]
    BY <1>7 DEF Resume
  <2>1. c \in Client /\ sockets' = sockets
    BY <1>7 DEF Resume
  <2> DEFINE x == Sent(tasks[n], c)
  <2>3. /\ x.pc = "iterating"
        /\ x.dead = IF sockets[c] = "closed" THEN tasks[n].dead \cup {c} ELSE tasks[n].dead
        /\ x.at = IF sockets[c] = "stalled" THEN {c} ELSE {}
    <3>1. tasks[n] \in [pc : {"none", "ready", "iterating", "over", "cut"}, start : SUBSET Client,
                        visited : SUBSET Client, dead : SUBSET Client, at : SUBSET Client]
      OBVIOUS
    <3> HIDE DEF TypeOK, TaskInv
    <3>2. /\ x \in [pc : {"iterating"}, start : SUBSET Client, visited : SUBSET Client,
                     dead : SUBSET Client, at : SUBSET Client]
          /\ x.dead = IF sockets[c] = "closed" THEN tasks[n].dead \cup {c} ELSE tasks[n].dead
          /\ x.at = IF sockets[c] = "stalled" THEN {c} ELSE {}
      BY <2>1, <3>1, SentFacts
    <3> HIDE DEF x
    <3> QED
      BY <3>2
  <2>4. \A d \in x.dead : sockets[d] = "closed"
    BY <2>3
  <2>5. x.pc = "iterating" /\ \A d, f \in x.at : d = f
    BY <2>3
  <2>6. tasks' = [tasks EXCEPT ![n] = x]
    OBVIOUS
  <2> HIDE DEF x, TypeOK, TaskInv
  <2> QED
    BY <2>1, <2>4, <2>5, <2>6, OneTaskStep
<1>8. ASSUME NEW n \in Message, Break(n) \/ Finish(n) PROVE TaskInv'
  <2> DEFINE x == [NoTask EXCEPT !.pc = IF Finish(n) /\ clients \subseteq tasks[n].visited
                                        THEN "over" ELSE "cut"]
  <2>1. x.pc # "ready" /\ x.dead = {} /\ x.at = {}
    BY DEF NoTask
  <2>2. tasks' = [tasks EXCEPT ![n] = x] /\ sockets' = sockets
    <3>1. CASE Finish(n)
      BY <3>1 DEF Finish
    <3>2. CASE ~Finish(n)
      BY <1>8, <3>2 DEF Break
    <3> QED
      BY <3>1, <3>2
  <2> HIDE DEF x, TypeOK, TaskInv
  <2> QED
    BY <2>1, <2>2, OneTaskStep
<1> QED
  BY <1>1, <1>2, <1>3, <1>4, <1>5, <1>6, <1>7, <1>8
     DEF Next, vars, Receive, FeedDies, Startup, Replay, Leave

(* A message of the history that a client registered with stays there until it is sent. *)
LEMMA ReplayStep ==
    ASSUME FeedInv, [Next]_vars, TypeOK'
    PROVE  ReplayInv'
<1> SUFFICES ASSUME NEW c \in Client, Live(c)',
                    NEW n \in handlers'[c].from..handlers'[c].upto
             PROVE  n \in got'[c] \/ InHistory(n, c)'
  BY DEF ReplayInv
<1>1. handlers'[c].from \in Nat /\ handlers'[c].upto \in Nat
  BY DEF TypeOK
<1>2. ASSUME Live(c), handlers'[c] = handlers[c], got[c] \subseteq got'[c]
      PROVE  n \in got'[c] \/ InHistory(n, c)'
  BY <1>2 DEF FeedInv, ReplayInv, InHistory
<1>3. CASE UNCHANGED <<sockets, handlers>> /\ got[c] \subseteq got'[c]
  BY <1>2, <1>3 DEF Live
<1>4. CASE Restart
  BY <1>4 DEF Restart, Live, FeedInv, TypeOK
<1>5. ASSUME NEW d \in Client, Connect(d) PROVE n \in got'[c] \/ InHistory(n, c)'
  <2>1. CASE d = c
    <3>1. /\ handlers'[c].left = recent
          /\ handlers'[c].from = IF recent = <<>> THEN feed.acked + 1 ELSE recent[1]
          /\ handlers'[c].upto = IF recent = <<>> THEN feed.acked ELSE recent[Len(recent)]
      BY <1>5, <2>1 DEF Connect, FeedInv, TypeOK
    <3>2. recent # <<>>
      BY <1>1, <3>1 DEF FeedInv, TypeOK
    <3>3. n \in recent[1]..recent[Len(recent)]
      BY <3>1, <3>2
    <3>4. \E i \in DOMAIN recent : recent[i] = n
      BY <3>2, <3>3, HistoryFacts DEF FeedInv
    <3> QED
      BY <3>1, <3>4 DEF InHistory
  <2>2. CASE d # c
    BY <1>2, <1>5, <2>2 DEF Connect, Live, FeedInv, TypeOK
  <2> QED
    BY <2>1, <2>2
<1>6. ASSUME NEW d \in Client, Replay(d) PROVE n \in got'[c] \/ InHistory(n, c)'
  <2>1. CASE d = c
    <3> DEFINE q == handlers[c].left
    <3>1. q \in Seq(Message) /\ q # <<>> /\ Live(c)
      BY <1>6, <2>1 DEF Replay, FeedInv, TypeOK, Live
    <3>2. /\ handlers'[c].left = Tail(q)
          /\ handlers'[c].from = handlers[c].from /\ handlers'[c].upto = handlers[c].upto
          /\ got'[c] = got[c] \cup {Head(q)}
      BY <1>6, <2>1 DEF Replay, FeedInv, TypeOK
    <3>3. n \in got[c] \/ \E i \in DOMAIN q : q[i] = n
      BY <3>1, <3>2 DEF FeedInv, ReplayInv, InHistory
    <3> HIDE DEF q
    <3>4. ASSUME NEW i \in DOMAIN q, q[i] = n PROVE n \in got'[c] \/ InHistory(n, c)'
      <4>1. CASE i = 1
        BY <3>1, <3>2, <3>4, <4>1
      <4>2. CASE i # 1
        <5>1. i - 1 \in DOMAIN Tail(q) /\ Tail(q)[i - 1] = q[i]
          BY <3>1, <4>2
        <5> QED
          BY <3>2, <3>4, <5>1 DEF InHistory
      <4> QED
        BY <4>1, <4>2
    <3> QED
      BY <3>2, <3>3, <3>4
  <2>2. CASE d # c
    BY <1>2, <1>6, <2>2 DEF Replay, Live, FeedInv, TypeOK
  <2> QED
    BY <2>1, <2>2
<1>7. ASSUME NEW d \in Client, Leave(d) PROVE n \in got'[c] \/ InHistory(n, c)'
  <2>1. d # c
    BY <1>7 DEF Leave, Live
  <2> QED
    BY <1>2, <1>7, <2>1 DEF Leave, Live, FeedInv, TypeOK
<1>8. ASSUME NEW d \in Client, Stall(d) \/ Unstall(d) \/ Close(d) \/ PingTimeout(d)
      PROVE  n \in got'[c] \/ InHistory(n, c)'
  <2> PICK from \in {{"open"}, {"stalled"}}, to \in {"open", "stalled", "closed"} : Turns(d, from, to)
    BY <1>8, SocketFacts
  <2>1. Live(c) /\ got'[c] = got[c] /\ handlers' = handlers
    BY DEF Turns, Live, FeedInv, TypeOK
  <2> QED
    BY <1>2, <2>1
<1>9. ASSUME NEW m \in Message, Resume(m) \/ \E d \in Client : Visit(m, d)
      PROVE  UNCHANGED <<sockets, handlers>> /\ got[c] \subseteq got'[c]
  <2>1. PICK d : Deliver(m, d) /\ UNCHANGED <<sockets, handlers>>
    BY <1>9 DEF Visit, Resume
  <2>2. got \in [Client -> SUBSET Message]
    BY DEF FeedInv, TypeOK
  <2> QED
    BY <2>1, <2>2 DEF Deliver
<1> QED
  BY <1>3, <1>4, <1>5, <1>6, <1>7, <1>8, <1>9
     DEF Next, vars, Receive, Schedule, FeedDies, Startup, Break, Finish

(* A message that follows the history of a client with an open socket is owed to it until it
   is sent or cut off. *)
LEMMA ServedStep ==
    ASSUME FeedInv, [Next]_vars, TypeOK', HistoryInv'
    PROVE  ServedInv'
<1> SUFFICES ASSUME NEW c \in Client, Live(c)', NEW n \in handlers'[c].upto + 1..Newest'
             PROVE  n \in got'[c] \/ Coming(n, c)' \/ tasks'[n].pc = "cut"
  BY DEF ServedInv
<1> DEFINE Owed == n \in got[c] \/ Coming(n, c) \/ tasks[n].pc = "cut"
<1>1. /\ n \in Message /\ n \in Nat
      /\ feed.acked \in Nat /\ Newest \in 0..MaxMessages /\ handlers'[c].upto \in Nat
  <2>1. handlers'[c].upto \in Nat
    BY DEF TypeOK
  <2>2. Newest' \in 0..MaxMessages
    <3>1. /\ feed'.acked \in 0..MaxMessages
          /\ feed'.pc = "appended" => Len(recent') > 0 /\ recent'[Len(recent')] = feed'.acked + 1
      BY DEF TypeOK, HistoryInv
    <3>2. Len(recent') > 0 => recent'[Len(recent')] \in Message
      <4>1. recent' \in Seq(Message)
        BY DEF TypeOK
      <4> QED
        BY <4>1
    <3> QED
      BY <3>1, <3>2, MessagesAssumption DEF Newest, Message
  <2>3. Newest \in 0..MaxMessages
    BY NewestIsMessage DEF FeedInv
  <2> QED
    BY <2>1, <2>2, <2>3, MessagesAssumption DEF Message, FeedInv, TypeOK
<1>2. ASSUME Live(c), handlers[c].upto = handlers'[c].upto, n <= Newest PROVE Owed
  BY <1>1, <1>2 DEF FeedInv, ServedInv
<1>3. CASE UNCHANGED <<feed, sockets, handlers, got, tasks>>
  <2>1. Live(c) /\ Newest' = Newest
    BY <1>3 DEF Live, Newest
  <2>2. Owed
    BY <1>1, <1>2, <1>3, <2>1
  <2> QED
    BY <1>3, <2>2 DEF Coming
<1>4. CASE Receive
  <2>1. Newest' = feed.acked + 1 /\ Newest = feed.acked /\ feed'.acked = feed.acked
    BY <1>4 DEF Receive, Newest, FeedInv, TypeOK
  <2>2. CASE n = feed.acked + 1
    BY <2>1, <2>2 DEF Coming
  <2>3. CASE n # feed.acked + 1
    <3>1. Owed
      BY <1>1, <1>2, <1>4, <2>1, <2>3 DEF Receive, Live
    <3> QED
      BY <1>4, <2>1, <2>3, <3>1 DEF Receive, Coming
  <2> QED
    BY <2>2, <2>3
<1>5. CASE Schedule
  <2>1. /\ Newest' = feed.acked + 1 /\ Newest = feed.acked + 1
        /\ feed'.acked = feed.acked + 1 /\ UNCHANGED <<sockets, handlers, got>>
    BY <1>5 DEF Schedule, Newest, FeedInv, TypeOK
  <2>2. Live(c) /\ loop
    BY <2>1 DEF Live, FeedInv, RegisteredInv
  <2>3. tasks' = [tasks EXCEPT ![feed.acked + 1] = NewTask]
    BY <1>5, <2>2 DEF Schedule
  <2>4. CASE n = feed.acked + 1
    <3>1. tasks'[n].pc = "ready"
      BY <1>1, <2>3, <2>4 DEF FeedInv, TypeOK, NewTask, NoTask
    <3> QED
      BY <3>1 DEF Coming
  <2>5. CASE n # feed.acked + 1
    <3>1. Owed
      BY <1>1, <1>2, <2>1, <2>2
    <3>2. tasks'[n] = tasks[n]
      BY <1>1, <2>3, <2>5 DEF FeedInv, TypeOK
    <3> QED
      BY <2>1, <2>5, <3>1, <3>2 DEF Coming
  <2> QED
    BY <2>4, <2>5
<1>6. CASE FeedDies
  <2>1. Newest' = feed.acked /\ feed'.acked = feed.acked /\ Newest >= feed.acked
    BY <1>1, <1>6 DEF FeedDies, Newest, FeedInv, TypeOK
  <2>2. Owed
    BY <1>1, <1>2, <1>6, <2>1 DEF FeedDies, Live
  <2> QED
    BY <1>6, <2>1, <2>2 DEF FeedDies, Coming
<1>7. CASE Restart
  BY <1>7 DEF Restart, Live, FeedInv, TypeOK
<1>8. ASSUME NEW d \in Client, Connect(d) PROVE n \in got'[c] \/ Coming(n, c)' \/ tasks'[n].pc = "cut"
  <2>1. Newest' = Newest /\ feed' = feed /\ got' = got /\ tasks' = tasks
    BY <1>8 DEF Connect, Newest
  <2>2. CASE d = c
    <3>1. handlers'[c].upto = IF recent = <<>> THEN feed.acked ELSE recent[Len(recent)]
      BY <1>8, <2>2 DEF Connect, FeedInv, TypeOK
    <3>2. CASE recent = <<>>
      <4>1. feed.pc # "appended"
        BY <3>2 DEF FeedInv, HistoryInv
      <4>2. Newest = feed.acked
        BY <4>1 DEF Newest
      <4> QED
        BY <1>1, <2>1, <3>1, <3>2, <4>2
    <3>3. CASE recent # <<>>
      <4>1. Newest <= recent[Len(recent)] /\ recent[Len(recent)] \in Nat
        BY <3>3, HistoryFacts DEF FeedInv
      <4> QED
        BY <1>1, <2>1, <3>1, <3>3, <4>1
    <3> QED
      BY <3>2, <3>3
  <2>3. CASE d # c
    <3>1. handlers'[c] = handlers[c] /\ sockets'[c] = sockets[c]
      BY <1>8, <2>3 DEF Connect, FeedInv, TypeOK
    <3>2. Owed
      BY <1>1, <1>2, <2>1, <3>1 DEF Live
    <3> QED
      BY <2>1, <3>1, <3>2 DEF Coming
  <2> QED
    BY <2>2, <2>3
<1>9. ASSUME NEW d \in Client, Replay(d) PROVE n \in got'[c] \/ Coming(n, c)' \/ tasks'[n].pc = "cut"
  <2>1. Newest' = Newest /\ feed' = feed /\ sockets' = sockets /\ tasks' = tasks
    BY <1>9 DEF Replay, Newest
  <2>2. handlers'[c].upto = handlers[c].upto /\ got[c] \subseteq got'[c]
    BY <1>9 DEF Replay, FeedInv, TypeOK
  <2>3. Owed
    BY <1>1, <1>2, <2>1, <2>2 DEF Live
  <2> QED
    BY <2>1, <2>2, <2>3 DEF Coming
<1>10. ASSUME NEW d \in Client, Leave(d) PROVE n \in got'[c] \/ Coming(n, c)' \/ tasks'[n].pc = "cut"
  <2>1. d # c /\ Live(c)
    BY <1>10 DEF Leave, Live
  <2>2. handlers'[c] = handlers[c] /\ Newest' = Newest
    BY <1>10, <2>1 DEF Leave, FeedInv, TypeOK, Newest
  <2>3. Owed
    BY <1>1, <1>2, <2>1, <2>2
  <2> QED
    BY <1>10, <2>2, <2>3 DEF Leave, Coming
<1>11. ASSUME NEW d \in Client, Stall(d) \/ Unstall(d) \/ Close(d) \/ PingTimeout(d)
       PROVE  n \in got'[c] \/ Coming(n, c)' \/ tasks'[n].pc = "cut"
  <2> PICK from \in {{"open"}, {"stalled"}}, to \in {"open", "stalled", "closed"} : Turns(d, from, to)
    BY <1>11, SocketFacts
  <2>1. UNCHANGED <<feed, handlers, tasks>> /\ Newest' = Newest
    BY DEF Turns, Newest
  <2>2. Live(c) /\ got'[c] = got[c]
    BY DEF Turns, Live, FeedInv, TypeOK
  <2>3. Owed
    BY <1>1, <1>2, <2>1, <2>2
  <2> QED
    BY <2>1, <2>2, <2>3 DEF Coming
<1>12. ASSUME NEW m \in Message, NEW x, tasks' = [tasks EXCEPT ![m] = x],
              UNCHANGED <<feed, sockets, handlers>>,
              \A a \in Client : got[a] \subseteq got'[a],
              m = n /\ tasks[n].pc = "cut" => x.pc = "cut",
              m = n /\ tasks[n].pc \in {"ready", "iterating"}
                  /\ (tasks[n].pc = "ready" \/ c \notin tasks[n].visited \/ c \in tasks[n].at)
                  => \/ n \in got'[c] \/ x.pc = "cut"
                     \/ x.pc = "iterating" /\ (c \notin x.visited \/ c \in x.at)
       PROVE  n \in got'[c] \/ Coming(n, c)' \/ tasks'[n].pc = "cut"
  <2>1. Live(c) /\ Newest' = Newest
    BY <1>12 DEF Live, Newest
  <2>2. Owed
    BY <1>1, <1>2, <1>12, <2>1
  <2>3. tasks'[n] = IF m = n THEN x ELSE tasks[n]
    BY <1>1, <1>12 DEF FeedInv, TypeOK
  <2>4. CASE n \in got[c]
    BY <1>12, <2>4
  <2>5. CASE n = feed.acked + 1
    BY <1>12, <2>5 DEF Coming
  <2>6. CASE tasks[n].pc = "cut"
    BY <1>12, <2>3, <2>6
  <2>7. CASE /\ tasks[n].pc \in {"ready", "iterating"}
             /\ tasks[n].pc = "ready" \/ c \notin tasks[n].visited \/ c \in tasks[n].at
    BY <1>12, <2>3, <2>7 DEF Coming
  <2> QED
    BY <2>2, <2>4, <2>5, <2>6, <2>7 DEF Coming
<1>13. ASSUME NEW m \in Message, NEW d \in Client, Visit(m, d)
       PROVE  n \in got'[c] \/ Coming(n, c)' \/ tasks'[n].pc = "cut"
  <2> DEFINE u == IF tasks[m].pc = "ready" THEN [tasks[m] EXCEPT !.start = clients] ELSE tasks[m]
             x == Sent(u, d)
  <2>1. /\ u \in [pc : {"none", "ready", "iterating", "over", "cut"}, start : SUBSET Client,
                  visited : SUBSET Client, dead : SUBSET Client, at : SUBSET Client]
        /\ u.visited = tasks[m].visited
    <3>1. /\ clients \subseteq Client
          /\ tasks[m] \in [pc : {"none", "ready", "iterating", "over", "cut"}, start : SUBSET Client,
                           visited : SUBSET Client, dead : SUBSET Client, at : SUBSET Client]
      BY DEF FeedInv, TypeOK
    <3> QED
      BY <3>1, BegunFacts
  <2>2. /\ tasks' = [tasks EXCEPT ![m] = x] /\ UNCHANGED <<feed, sockets, handlers>>
        /\ tasks[m].pc \in {"ready", "iterating"} /\ tasks[m].at = {}
    BY <1>13 DEF Visit
  <2> HIDE DEF u
  <2>3. /\ x \in [pc : {"iterating"}, start : SUBSET Client, visited : SUBSET Client,
                  dead : SUBSET Client, at : SUBSET Client]
        /\ x.visited = u.visited \cup {d}
        /\ x.at = IF sockets[d] = "stalled" THEN {d} ELSE {}
    BY <2>1, SentFacts
  <2> HIDE DEF x
  <2>4. x.pc = "iterating" /\ x.visited = tasks[m].visited \cup {d}
    BY <2>1, <2>3
  <2>5. \A a \in Client : got[a] \subseteq got'[a]
    BY <1>13 DEF Visit, Deliver, FeedInv, TypeOK
  <2>6. ASSUME m = n, tasks[n].pc = "ready" \/ c \notin tasks[n].visited
        PROVE  n \in got'[c] \/ c \notin x.visited \/ c \in x.at
    <3>1. c \notin tasks[n].visited
      BY <1>1, <2>6 DEF FeedInv, TaskInv
    <3>2. CASE c # d
      BY <2>4, <2>6, <3>1, <3>2
    <3>3. CASE c = d
      <4>1. sockets[c] \in {"open", "stalled"}
        BY <2>2 DEF Live
      <4>2. CASE sockets[c] = "open"
        BY <1>13, <2>6, <3>3, <4>2 DEF Visit, Deliver, FeedInv, TypeOK
      <4>3. CASE sockets[c] = "stalled"
        BY <2>3, <3>3, <4>3
      <4> QED
        BY <4>1, <4>2, <4>3
    <3> QED
      BY <3>2, <3>3
  <2>7. m = n => tasks[n].at = {} /\ tasks[n].pc # "cut"
    BY <2>2
  <2> QED
    BY <1>12, <2>2, <2>4, <2>5, <2>6, <2>7
<1>14. ASSUME NEW m \in Message, Resume(m)
       PROVE  n \in got'[c] \/ Coming(n, c)' \/ tasks'[n].pc = "cut"
  <2> PICK d \in tasks[m].at : /\ sockets[d] # "stalled"
                               /\ tasks' = [tasks EXCEPT ![m] = Sent(tasks[m], d)]
                               /\ Deliver(m, d)
    BY <1>14 DEF Resume
  <2> DEFINE x == Sent(tasks[m], d)
  <2>1. /\ tasks[m] \in [pc : {"none", "ready", "iterating", "over", "cut"}, start : SUBSET Client,
                         visited : SUBSET Client, dead : SUBSET Client, at : SUBSET Client]
        /\ d \in Client
    BY DEF FeedInv, TypeOK
  <2>2. tasks' = [tasks EXCEPT ![m] = x] /\ UNCHANGED <<feed, sockets, handlers>>
    BY <1>14 DEF Resume
  <2>3. /\ x \in [pc : {"iterating"}, start : SUBSET Client, visited : SUBSET Client,
                  dead : SUBSET Client, at : SUBSET Client]
        /\ x.visited = tasks[m].visited \cup {d}
    BY <2>1, SentFacts
  <2> HIDE DEF x
  <2>4. x.pc = "iterating" /\ x.visited = tasks[m].visited \cup {d}
    BY <2>3
  <2>5. \A a \in Client : got[a] \subseteq got'[a]
    BY <2>1 DEF Deliver, FeedInv, TypeOK
  <2>6. tasks[m].pc = "iterating" /\ \A a \in tasks[m].at : a = d
    BY DEF FeedInv, TaskInv
  <2>7. ASSUME m = n, c \notin tasks[n].visited \/ c \in tasks[n].at
        PROVE  n \in got'[c] \/ c \notin x.visited
    <3>1. CASE c # d
      BY <2>4, <2>6, <2>7, <3>1
    <3>2. CASE c = d
      <4>1. sockets[c] = "open"
        BY <2>2, <3>2 DEF Live
      <4> QED
        BY <2>1, <2>7, <3>2, <4>1 DEF Deliver, FeedInv, TypeOK
    <3> QED
      BY <3>1, <3>2
  <2> QED
    BY <1>12, <2>2, <2>4, <2>5, <2>6, <2>7
<1>15. ASSUME NEW m \in Message, Break(m) \/ Finish(m)
       PROVE  n \in got'[c] \/ Coming(n, c)' \/ tasks'[n].pc = "cut"
  <2> DEFINE all == Finish(m) /\ clients \subseteq tasks[m].visited
             x == [NoTask EXCEPT !.pc = IF all THEN "over" ELSE "cut"]
  <2>1. x.pc = IF all THEN "over" ELSE "cut"
    BY DEF NoTask
  <2>2. /\ tasks' = [tasks EXCEPT ![m] = x] /\ UNCHANGED <<feed, sockets, handlers, got>>
        /\ tasks[m].pc \in {"ready", "iterating"} /\ tasks[m].at = {}
    <3>1. CASE Finish(m)
      BY <3>1 DEF Finish
    <3>2. CASE ~Finish(m)
      BY <1>15, <3>2 DEF Break
    <3> QED
      BY <3>1, <3>2
  <2> HIDE DEF x
  <2>3. CASE ~all
    BY <1>12, <2>1, <2>2, <2>3
  <2>4. CASE all
    <3>1. c \in clients
      BY <2>2 DEF FeedInv, RegisteredInv, Live
    <3>2. c \in tasks[m].visited
      BY <2>4, <3>1
    <3>3. tasks[m].pc # "ready"
      BY <3>2 DEF FeedInv, TaskInv
    <3> HIDE DEF all
    <3> QED
      BY <1>12, <2>2, <3>2, <3>3
  <2> QED
    BY <2>3, <2>4
<1> QED
  <2> HIDE DEF Owed
  <2>1. CASE UNCHANGED vars \/ Startup
    BY <1>3, <2>1 DEF vars, Startup
  <2> QED
    BY <1>4, <1>5, <1>6, <1>7, <1>8, <1>9, <1>10, <1>11, <1>13, <1>14, <1>15, <2>1 DEF Next

(* The first state has nothing to serve. *)
LEMMA FeedInit == ASSUME Init PROVE FeedInv
<1>1. TypeOK
  <2>1. <<>> \in Seq(Message) /\ Len(<<>>) = 0
    OBVIOUS
  <2> DEFINE S == Seq(Message)
  <2>2. handlers \in [Client -> [pc : {"none", "serving", "gone"}, left : S, from : Nat, upto : Nat]]
    <3>1. <<>> \in S
      BY <2>1
    <3> HIDE DEF S
    <3> QED
      BY <3>1 DEF Init, NoHandler
  <2>3. tasks \in [Message -> [pc : {"none", "ready", "iterating", "over", "cut"},
                               start : SUBSET Client, visited : SUBSET Client,
                               dead : SUBSET Client, at : SUBSET Client]]
    BY DEF Init, NoTask
  <2>4. feed \in [pc : {"idle", "appended", "dead"}, acked : 0..MaxMessages]
    BY MessagesAssumption DEF Init
  <2>5. recent \in Seq(Message) /\ Len(recent) <= Recent
    BY <2>1, RecentAssumption DEF Init
  <2>6. /\ clients \subseteq Client /\ loop \in BOOLEAN
        /\ sockets \in [Client -> {"away", "open", "stalled", "closed"}]
        /\ got \in [Client -> SUBSET Message]
    BY DEF Init
  <2> QED
    BY <2>2, <2>3, <2>4, <2>5, <2>6 DEF TypeOK
<1>2. HistoryInv
  BY DEF Init, HistoryInv
<1>3. RegisteredInv /\ ReplayInv /\ ServedInv
  BY DEF Init, RegisteredInv, ReplayInv, ServedInv, Live
<1>4. TaskInv
  BY DEF Init, TaskInv, NoTask
<1> QED
  BY <1>1, <1>2, <1>3, <1>4 DEF FeedInv

(* The live feed keeps its types and its inductive invariant. *)
THEOREM FeedInductive == Spec => []FeedInv
<1>1. Init => FeedInv
  BY FeedInit
<1>2. FeedInv /\ [Next]_vars => FeedInv'
  <2> SUFFICES ASSUME FeedInv, [Next]_vars PROVE FeedInv'
    OBVIOUS
  <2>1. TypeOK' /\ HistoryInv' /\ RegisteredInv' /\ TaskInv'
    BY TypeStep, HistoryStep, RegisteredStep, TaskStep DEF FeedInv
  <2>2. ReplayInv' /\ ServedInv'
    BY <2>1, ReplayStep, ServedStep
  <2> QED
    BY <2>1, <2>2 DEF FeedInv
<1> QED
  BY <1>1, <1>2, PTL DEF Spec

(* The clients, their queues and the tasks of the live feed keep the types the model gives
   them; of observer's hub and its ws handlers. *)
THEOREM FeedTypeCorrect == Spec => []TypeOK
<1>1. FeedInv => TypeOK
  BY DEF FeedInv
<1> QED
  BY <1>1, FeedInductive, PTL

(* Every message of the history that a dashboard registers with is sent to it, whatever the
   other dashboards do; of the messages after it, a connected dashboard can miss none but those
   whose fan-out was cut short because another one connected or left while it ran; of
   observer's ws, broadcast and _fan_out. *)
THEOREM HistoryMeetsLive == Spec => []NoGap
<1>1. FeedInv => NoGap
  BY DEF FeedInv, ReplayInv, ServedInv, NoGap, Live
<1> QED
  BY <1>1, FeedInductive, PTL
=============================================================================
