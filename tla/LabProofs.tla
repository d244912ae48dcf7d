----------------------------- MODULE LabProofs -----------------------------
(***************************************************************************)
(* Proofs about the commands of the dashboard, for every set of replicas   *)
(* and commands and every bound.                                           *)
(***************************************************************************)
EXTENDS FailureLab, TLAPS

(* A process that is down, or whose listener has yet to attach, has the defaults and no queue. *)
FreshInv(r) ==
    /\ r \notin up => threads[r]["listener"] = "connecting"
    /\ threads[r]["listener"] = "connecting" =>
           inboxes[r] = <<>> /\ toggles[r] = Off /\ word[r] = Off

(* Whatever is on its way to r is the last word. *)
ComesInv(r, a) ==
    \A p \in posts : r \in p.to /\ Says(p.command, r, a) => p.command.value = word[r][a]

(* Command i of the queue q is the last of them that says anything of a. *)
LastOf(i, q, r, a) ==
    /\ i \in 1..Len(q)
    /\ Says(q[i], r, a)
    /\ \A j \in 1..Len(q) : j > i => ~Says(q[j], r, a)

(* What a will be when r has emptied its queue is the last word. *)
BecomesInv(r, a) ==
    /\ \A i \in 1..Len(inboxes[r]) :
           LastOf(i, inboxes[r], r, a) => inboxes[r][i].value = word[r][a]
    /\ (\A j \in 1..Len(inboxes[r]) : ~Says(inboxes[r][j], r, a)) =>
           toggles[r][a] = word[r][a]

(* The two of them: as long as something is on its way, it decides; after that, the queue. *)
ObeyInv(r, a) ==
    /\ ComesInv(r, a)
    /\ ~OnItsWay(r, a) => BecomesInv(r, a)

(* The inductive invariant. *)
LabInv ==
    /\ TypeOK
    /\ \A r \in Replica : FreshInv(r)
    /\ \A r \in Listening, a \in Action : <<r, a>> \notin tangled => ObeyInv(r, a)
-----------------------------------------------------------------------------

(* The types without the part that relates them to Listening. *)
PartsOK ==
    /\ up \subseteq Replica
    /\ threads \in [Replica -> [Thread -> {"connecting", "open", "lost", "ended"}]]
    /\ toggles \in [Replica -> [Action -> BOOLEAN]]
    /\ starting \subseteq Replica
    /\ backlog \subseteq Service
    /\ spent \in [posts : 0..MaxPosts, drops : 0..MaxDrops, kills : 0..MaxKills]
    /\ word \in [Replica -> [Action -> BOOLEAN]]
    /\ tangled \subseteq Replica \X Action

(* The types of what waits for the listeners. *)
QueuesOK ==
    /\ inboxes \in [Replica -> Seq(Command)]
    /\ \A r \in Replica : inboxes[r] # <<>> => r \in Listening
    /\ posts \subseteq [id : 0..MaxPosts, command : Command, to : SUBSET Listening]

LEMMA TypeParts ==
    /\ TypeOK <=> PartsOK /\ QueuesOK
    /\ TypeOK' <=> PartsOK' /\ QueuesOK'
BY DEF TypeOK, PartsOK, QueuesOK

(* A listener is attached: what it takes. *)
LEMMA ListeningFacts ==
    /\ \A r : r \in Listening <=> r \in Replica /\ r \in up /\ threads[r]["listener"] = "open"
    /\ \A r : r \in Listening' <=> r \in Replica /\ r \in up' /\ threads'[r]["listener"] = "open"
BY DEF Listening, Works

(* What the commands are. *)
LEMMA ActionFacts == \A c \in Command : c.action \in Action /\ c.value \in BOOLEAN
BY CommandAssumption DEF Action

(* The queues of gone are dropped: what is left of the others'. *)
LEMMA Dropped ==
    ASSUME LabInv, NEW gone, DropQueues(gone)
    PROVE  /\ inboxes' \in [Replica -> Seq(Command)]
           /\ \A r \in Replica : inboxes'[r] = IF r \in gone THEN <<>> ELSE inboxes[r]
           /\ posts' \subseteq [id : 0..MaxPosts, command : Command, to : SUBSET (Listening \ gone)]
           /\ \A q \in posts' : \E p \in posts : q.command = p.command /\ q.to = p.to \ gone
           /\ \A p \in posts : p.to \ gone # {} =>
                  \E q \in posts' : q.command = p.command /\ q.to = p.to \ gone
<1> DEFINE Less(p) == [p EXCEPT !.to = @ \ gone]
<1>1. posts \subseteq [id : 0..MaxPosts, command : Command, to : SUBSET Listening]
  BY DEF LabInv, TypeOK
<1>2. \A p \in posts : /\ Less(p) \in [id : 0..MaxPosts, command : Command,
                                         to : SUBSET (Listening \ gone)]
                       /\ Less(p).command = p.command /\ Less(p).to = p.to \ gone
  BY <1>1
<1>3. posts' = {q \in {Less(p) : p \in posts} : q.to # {}}
  BY DEF DropQueues, InProgress
<1>4. \A r \in Replica : inboxes'[r] = IF r \in gone THEN <<>> ELSE inboxes[r]
  BY DEF DropQueues
<1>5. inboxes' \in [Replica -> Seq(Command)]
  <2>1. <<>> \in Seq(Command)
    OBVIOUS
  <2>2. \A r \in Replica : inboxes[r] \in Seq(Command)
    BY DEF LabInv, TypeOK
  <2> QED
    BY <2>1, <2>2 DEF DropQueues
<1> HIDE DEF Less
<1> QED
  BY <1>2, <1>3, <1>4, <1>5

(* Processes end: the types, and who listens. *)
LEMMA ExitKeeps ==
    ASSUME LabInv, NEW gone, gone \subseteq Replica, Exit(gone)
    PROVE  /\ QueuesOK'
           /\ up' \subseteq Replica
           /\ threads' \in [Replica -> [Thread -> {"connecting", "open", "lost", "ended"}]]
           /\ toggles' \in [Replica -> [Action -> BOOLEAN]]
           /\ word' \in [Replica -> [Action -> BOOLEAN]]
           /\ tangled' \subseteq Replica \X Action
           /\ Listening' = Listening \ gone
           /\ \A r \in Replica : FreshInv(r)'
<1> USE DEF LabInv
<1>1. PartsOK /\ QueuesOK
  BY TypeParts
<1>2. threads' \in [Replica -> [Thread -> {"connecting", "open", "lost", "ended"}]]
  BY <1>1 DEF Exit, Connecting, PartsOK, Thread
<1>3. \A r \in Replica : threads'[r] = IF r \in gone THEN Connecting ELSE threads[r]
  BY DEF Exit
<1>4. Connecting["listener"] = "connecting"
  BY DEF Connecting, Thread
<1>5. Listening' = Listening \ gone
  BY <1>3, <1>4, ListeningFacts DEF Exit
<1>6. QueuesOK'
  <2>1. ASSUME NEW q \in Replica, inboxes'[q] # <<>>
        PROVE  q \in Listening'
    BY <1>1, <1>5, <2>1, Dropped DEF Exit, QueuesOK
  <2>2. posts' \subseteq [id : 0..MaxPosts, command : Command, to : SUBSET Listening']
    BY <1>5, Dropped DEF Exit
  <2>3. inboxes' \in [Replica -> Seq(Command)]
    BY Dropped DEF Exit
  <2> QED
    BY <2>1, <2>2, <2>3 DEF QueuesOK
<1>7. /\ toggles' \in [Replica -> [Action -> BOOLEAN]]
      /\ word' \in [Replica -> [Action -> BOOLEAN]]
  <2>1. Off \in [Action -> BOOLEAN]
    BY DEF Off
  <2> QED
    BY <1>1, <2>1 DEF Exit, PartsOK
<1>8. ASSUME NEW r \in Replica PROVE FreshInv(r)'
  <2>1. /\ inboxes'[r] = IF r \in gone THEN <<>> ELSE inboxes[r]
        /\ toggles'[r] = IF r \in gone THEN Off ELSE toggles[r]
        /\ word'[r] = IF r \in gone THEN Off ELSE word[r]
    BY Dropped DEF Exit
  <2>2. Off' = Off
    BY DEF Off, Action
  <2> QED
    BY <1>3, <1>4, <2>1, <2>2 DEF FreshInv, Exit
<1> QED
  BY <1>1, <1>2, <1>5, <1>6, <1>7, <1>8 DEF Exit, PartsOK

(* A thread ends: the types, and who listens. *)
LEMMA EndThreadKeeps ==
    ASSUME LabInv, NEW r \in Replica, NEW k \in Thread, r \in up, EndThread(r, k)
    PROVE  /\ QueuesOK'
           /\ threads' \in [Replica -> [Thread -> {"connecting", "open", "lost", "ended"}]]
           /\ Listening' = Listening \ (IF k = "listener" THEN {r} ELSE {})
           /\ \A q \in Replica : FreshInv(q)'
<1> USE DEF LabInv
<1>1. PartsOK /\ QueuesOK
  BY TypeParts
<1> DEFINE gone == IF k = "listener" THEN {r} ELSE {}
<1>2. threads' \in [Replica -> [Thread -> {"connecting", "open", "lost", "ended"}]]
  BY <1>1 DEF EndThread, PartsOK
<1>3. \A q \in Replica : threads'[q]["listener"] =
          IF q \in gone THEN "ended" ELSE threads[q]["listener"]
  BY <1>1 DEF EndThread, PartsOK, Thread
<1>4. DropQueues(gone) /\ UNCHANGED <<up, toggles, word, tangled>>
  BY DEF EndThread
<1> HIDE DEF gone
<1>5. Listening' = Listening \ gone
  BY <1>3, <1>4, ListeningFacts
<1>6. QueuesOK'
  <2>1. ASSUME NEW q \in Replica, inboxes'[q] # <<>>
        PROVE  q \in Listening'
    BY <1>1, <1>4, <1>5, <2>1, Dropped DEF QueuesOK
  <2>2. posts' \subseteq [id : 0..MaxPosts, command : Command, to : SUBSET Listening']
    BY <1>4, <1>5, Dropped
  <2>3. inboxes' \in [Replica -> Seq(Command)]
    BY <1>4, Dropped
  <2> QED
    BY <2>1, <2>2, <2>3 DEF QueuesOK
<1>7. ASSUME NEW q \in Replica PROVE FreshInv(q)'
  <2>1. Off' = Off
    BY DEF Off, Action
  <2>2. inboxes'[q] = IF q \in gone THEN <<>> ELSE inboxes[q]
    BY <1>4, Dropped
  <2>3. gone \subseteq {r}
    BY DEF gone
  <2> QED
    BY <1>3, <1>4, <2>1, <2>2, <2>3 DEF FreshInv
<1> QED
  BY <1>2, <1>5, <1>6, <1>7 DEF gone

(* Nothing happens to the queues, and nobody stops listening. *)
LEMMA QueuesStay ==
    ASSUME LabInv, UNCHANGED <<inboxes, posts>>, Listening \subseteq Listening'
    PROVE  QueuesOK'
<1>1. QueuesOK
  BY TypeParts DEF LabInv
<1>2. /\ inboxes' \in [Replica -> Seq(Command)]
      /\ \A r \in Replica : inboxes'[r] # <<>> => r \in Listening'
  BY <1>1 DEF QueuesOK
<1>3. posts' \subseteq [id : 0..MaxPosts, command : Command, to : SUBSET Listening']
  BY <1>1 DEF QueuesOK
<1> QED
  BY <1>2, <1>3 DEF QueuesOK

(* Every step keeps the types. *)
LEMMA TypeStep == ASSUME LabInv, [Next]_vars PROVE TypeOK'
<1> USE BoundAssumption
<1>1. PartsOK /\ QueuesOK
  BY TypeParts DEF LabInv
<1>2. ASSUME UNCHANGED <<up, threads, inboxes, posts>> PROVE QueuesOK'
  BY <1>2, ListeningFacts, QueuesStay
<1> DEFINE Spent == [posts : 0..MaxPosts, drops : 0..MaxDrops, kills : 0..MaxKills]
<1>20. /\ spent.posts < MaxPosts => [spent EXCEPT !.posts = @ + 1] \in Spent
       /\ spent.drops < MaxDrops => [spent EXCEPT !.drops = @ + 1] \in Spent
       /\ spent.kills < MaxKills => [spent EXCEPT !.kills = @ + 1] \in Spent
  <2>1. spent \in Spent
    BY <1>1 DEF PartsOK
  <2> QED
    BY <2>1
<1>3. CASE UNCHANGED vars
  BY <1>1, <1>2, <1>3, TypeParts DEF vars, PartsOK
<1>4. ASSUME NEW c \in Command, Post(c) PROVE TypeOK'
  <2>1. Listening' = Listening
    BY <1>4, ListeningFacts DEF Post
  <2>2. posts' \subseteq [id : 0..MaxPosts, command : Command, to : SUBSET Listening]
    <3>1. [id |-> spent.posts, command |-> c, to |-> Listening]
              \in [id : 0..MaxPosts, command : Command, to : SUBSET Listening]
      BY <1>1 DEF PartsOK
    <3> QED
      BY <1>1, <1>4, <3>1 DEF QueuesOK, Post, InProgress
  <2>3. QueuesOK'
    BY <1>1, <1>4, <2>1, <2>2 DEF QueuesOK, Post
  <2>4. spent' \in [posts : 0..MaxPosts, drops : 0..MaxDrops, kills : 0..MaxKills]
    BY <1>1, <1>4 DEF PartsOK, Post
  <2>5. word' \in [Replica -> [Action -> BOOLEAN]]
    BY <1>1, <1>4, ActionFacts DEF PartsOK, Post
  <2>6. tangled' \subseteq Replica \X Action
    BY <1>1, <1>4, ActionFacts DEF PartsOK, Post, Audience, Listening
  <2> QED
    BY <1>1, <1>4, <2>3, <2>4, <2>5, <2>6, TypeParts DEF PartsOK, Post
<1>5. ASSUME NEW p \in posts, NEW r \in Replica, Route(p, r) PROVE TypeOK'
  <2>1. Listening' = Listening
    BY <1>5, ListeningFacts DEF Route
  <2>2. /\ p \in [id : 0..MaxPosts, command : Command, to : SUBSET Listening]
        /\ r \in p.to /\ r \in Listening
    BY <1>1, <1>5 DEF QueuesOK, Route
  <2>3. posts' \subseteq [id : 0..MaxPosts, command : Command, to : SUBSET Listening]
    <3>1. [p EXCEPT !.to = @ \ {r}] \in [id : 0..MaxPosts, command : Command, to : SUBSET Listening]
      BY <2>2
    <3> QED
      BY <1>1, <1>5, <3>1 DEF QueuesOK, Route, InProgress
  <2>4. /\ inboxes' \in [Replica -> Seq(Command)]
        /\ \A q \in Replica : inboxes'[q] # <<>> => q \in Listening'
    <3>1. Append(inboxes[r], p.command) \in Seq(Command)
      BY <1>1, <2>2 DEF QueuesOK
    <3> QED
      BY <1>1, <1>5, <2>1, <2>2, <3>1 DEF QueuesOK, Route
  <2> QED
    BY <1>1, <1>5, <2>1, <2>3, <2>4, TypeParts DEF PartsOK, QueuesOK, Route
<1>6. ASSUME NEW r \in Replica, HandleCommand(r) PROVE TypeOK'
  <2>1. Listening' = Listening
    BY <1>6, ListeningFacts DEF HandleCommand
  <2>2. Head(inboxes[r]) \in Command /\ Tail(inboxes[r]) \in Seq(Command) /\ r \in Listening
    BY <1>1, <1>6 DEF QueuesOK, HandleCommand, Listening
  <2>3. /\ inboxes' \in [Replica -> Seq(Command)]
        /\ \A q \in Replica : inboxes'[q] # <<>> => q \in Listening'
    BY <1>1, <1>6, <2>1, <2>2 DEF QueuesOK, HandleCommand
  <2>4. toggles' \in [Replica -> [Action -> BOOLEAN]]
    BY <1>1, <1>6, <2>2, ActionFacts DEF PartsOK, HandleCommand
  <2> QED
    BY <1>1, <1>6, <2>1, <2>3, <2>4, TypeParts DEF PartsOK, QueuesOK, HandleCommand
<1>7. ASSUME NEW r \in Replica, Write(r) \/ Drain(r) \/ StartFails(r) PROVE TypeOK'
  <2>1. PartsOK'
    BY <1>1, <1>7 DEF PartsOK, Write, Drain, StartFails, Service
  <2> QED
    BY <1>2, <1>7, <2>1, TypeParts DEF Write, Drain, StartFails
<1>8. ASSUME NEW r \in Replica, Start(r) PROVE TypeOK'
  <2>1. PartsOK'
    BY <1>1, <1>8 DEF PartsOK, Start
  <2>2. QueuesOK'
    BY <1>8, ListeningFacts, QueuesStay DEF Start
  <2> QED
    BY <2>1, <2>2, TypeParts
<1>9. ASSUME NEW r \in Replica, NEW k \in Thread, Attach(r, k) PROVE TypeOK'
  <2>1. PartsOK'
    BY <1>1, <1>9 DEF PartsOK, Attach
  <2>2. QueuesOK'
    BY <1>1, <1>9, ListeningFacts, QueuesStay DEF Attach, PartsOK, Thread
  <2> QED
    BY <2>1, <2>2, TypeParts
<1>10. ASSUME NEW r \in Replica, Reopen(r) PROVE TypeOK'
  <2>1. PartsOK'
    BY <1>1, <1>10 DEF PartsOK, Reopen, Thread
  <2>2. QueuesOK'
    BY <1>1, <1>10, ListeningFacts, QueuesStay DEF Reopen, PartsOK, Thread
  <2> QED
    BY <2>1, <2>2, TypeParts
<1>11. ASSUME NEW r \in Replica, NEW k \in Thread, r \in up, EndThread(r, k),
              UNCHANGED <<starting, backlog>>,
              spent' = [spent EXCEPT !.drops = @ + 1], spent.drops < MaxDrops
       PROVE  TypeOK'
  <2>1. /\ QueuesOK'
        /\ threads' \in [Replica -> [Thread -> {"connecting", "open", "lost", "ended"}]]
    BY <1>11, EndThreadKeeps
  <2>2. UNCHANGED <<up, toggles, word, tangled>>
    BY <1>11 DEF EndThread
  <2>3. PartsOK'
    BY <1>1, <1>11, <2>1, <2>2 DEF PartsOK
  <2> QED
    BY <2>1, <2>3, TypeParts
<1>12. ASSUME NEW r \in Replica, NEW k \in Thread, GiveUp(r, k) \/ Drop(r, k) \/ RelayFails(r)
       PROVE  TypeOK'
  <2>1. CASE Drop(r, k) /\ k = "relay"
    <3>1. /\ UNCHANGED <<up, toggles, inboxes, posts, word, tangled, starting, backlog>>
          /\ threads' = [threads EXCEPT ![r]["relay"] = "lost"]
          /\ spent' \in Spent
      BY <1>20, <2>1 DEF Drop
    <3>2. PartsOK'
      BY <1>1, <3>1 DEF PartsOK
    <3>3. \A q \in Replica : threads'[q]["listener"] = threads[q]["listener"]
      BY <1>1, <3>1 DEF PartsOK, Thread
    <3>4. QueuesOK'
      BY <3>1, <3>3, ListeningFacts, QueuesStay
    <3> QED
      BY <3>2, <3>4, TypeParts
  <2>2. CASE GiveUp(r, k) \/ (Drop(r, k) /\ k # "relay")
    BY <1>11, <2>2 DEF GiveUp, Drop, Works
  <2>3. CASE RelayFails(r)
    BY <1>11, <2>3 DEF RelayFails, Thread
  <2> QED
    BY <1>12, <2>1, <2>2, <2>3
<1>13. ASSUME NEW gone, gone \subseteq Replica, Exit(gone),
              spent' \in [posts : 0..MaxPosts, drops : 0..MaxDrops, kills : 0..MaxKills],
              starting' \subseteq Replica, UNCHANGED backlog
       PROVE  TypeOK'
  BY <1>1, <1>13, ExitKeeps, TypeParts DEF PartsOK
<1>14. ASSUME NEW r \in Replica, ConsumerEnds(r) PROVE TypeOK'
  <2>1. /\ spent' \in Spent /\ Exit({r}) /\ UNCHANGED backlog
        /\ starting' \subseteq Replica
    BY <1>1, <1>14, <1>20 DEF PartsOK, ConsumerEnds
  <2> QED
    BY <1>13, <2>1
<1>15. ASSUME NEW s \in Service, Kill(s) PROVE TypeOK'
  <2> DEFINE those == {r \in Replica : ServiceOf[r] = s}
  <2>1. /\ spent' \in Spent /\ Exit(those) /\ UNCHANGED backlog
        /\ starting' \subseteq Replica
    BY <1>1, <1>15, <1>20 DEF PartsOK, Kill
  <2> QED
    BY <1>13, <2>1
<1> QED
  BY <1>3, <1>4, <1>5, <1>6, <1>7, <1>8, <1>9, <1>10, <1>12, <1>14, <1>15 DEF Next, Thread

(* Every step leaves a process that is down, or whose listener has yet to attach, as it was. *)
LEMMA FreshStep == ASSUME LabInv, [Next]_vars, NEW r \in Replica PROVE FreshInv(r)'
<1>1. FreshInv(r) /\ PartsOK /\ QueuesOK
  BY TypeParts DEF LabInv
<1>2. Off' = Off
  BY DEF Off, Action
<1>3. ASSUME UNCHANGED <<threads, toggles>>, up \subseteq up',
             threads[r]["listener"] # "open" =>
                 inboxes'[r] = inboxes[r] /\ word'[r] = word[r]
      PROVE  FreshInv(r)'
  BY <1>1, <1>2, <1>3 DEF FreshInv
<1>4. CASE UNCHANGED vars
  BY <1>3, <1>4 DEF vars
<1>5. ASSUME NEW c \in Command, Post(c) PROVE FreshInv(r)'
  <2>1. threads[r]["listener"] # "open" => word'[r] = word[r]
    BY <1>5, ListeningFacts DEF Post, Audience
  <2> QED
    BY <1>3, <1>5, <2>1 DEF Post
<1>6. ASSUME NEW p \in posts, NEW q \in Replica, Route(p, q) PROVE FreshInv(r)'
  <2>1. q \in Listening
    BY <1>1, <1>6 DEF QueuesOK, Route
  <2>2. threads[r]["listener"] # "open" => inboxes'[r] = inboxes[r]
    BY <1>1, <1>6, <2>1, ListeningFacts DEF Route, QueuesOK
  <2> QED
    BY <1>3, <1>6, <2>2 DEF Route
<1>7. ASSUME NEW q \in Replica, HandleCommand(q) PROVE FreshInv(r)'
  <2>1. q \in up /\ threads[q]["listener"] = "open"
    BY <1>7 DEF HandleCommand, Works
  <2>2. r # q => inboxes'[r] = inboxes[r] /\ toggles'[r] = toggles[r]
    BY <1>1, <1>7 DEF HandleCommand, QueuesOK, PartsOK
  <2>3. UNCHANGED <<up, threads, word>>
    BY <1>7 DEF HandleCommand
  <2> QED
    BY <1>1, <1>2, <2>1, <2>2, <2>3 DEF FreshInv
<1>8. ASSUME NEW q \in Replica, Write(q) \/ Drain(q) \/ StartFails(q) \/ Start(q)
      PROVE  FreshInv(r)'
  BY <1>3, <1>8 DEF Write, Drain, StartFails, Start
<1>9. ASSUME UNCHANGED <<up, toggles, inboxes, word>>,
             threads'[r]["listener"] # "connecting" => r \in up,
             threads'[r]["listener"] = "connecting" => threads[r]["listener"] = "connecting"
      PROVE  FreshInv(r)'
  BY <1>1, <1>2, <1>9 DEF FreshInv
<1>10. ASSUME NEW q \in Replica, NEW k \in Thread, Attach(q, k) PROVE FreshInv(r)'
  <2>1. threads'[r]["listener"] = IF r = q /\ k = "listener" THEN "open" ELSE threads[r]["listener"]
    BY <1>1, <1>10 DEF Attach, PartsOK, Thread
  <2> QED
    BY <1>1, <1>9, <1>10, <2>1 DEF Attach, FreshInv
<1>11. ASSUME NEW q \in Replica, Reopen(q) PROVE FreshInv(r)'
  <2>1. threads'[r]["listener"] = threads[r]["listener"]
    BY <1>1, <1>11 DEF Reopen, PartsOK, Thread
  <2> QED
    BY <1>1, <1>9, <1>11, <2>1 DEF Reopen, FreshInv
<1>12. ASSUME NEW q \in Replica, NEW k \in Thread, GiveUp(q, k) \/ Drop(q, k) \/ RelayFails(q)
       PROVE  FreshInv(r)'
  <2>1. CASE Drop(q, k) /\ k = "relay"
    <3>1. UNCHANGED <<up, toggles, inboxes, word>> /\ threads' = [threads EXCEPT ![q]["relay"] = "lost"]
      BY <2>1 DEF Drop
    <3>2. threads'[r]["listener"] = threads[r]["listener"]
      BY <1>1, <3>1 DEF PartsOK, Thread
    <3> QED
      BY <1>1, <1>9, <3>1, <3>2 DEF FreshInv
  <2>2. CASE GiveUp(q, k) \/ (Drop(q, k) /\ k # "relay")
    BY <2>2, EndThreadKeeps DEF GiveUp, Drop, Works
  <2>3. CASE RelayFails(q)
    BY <2>3, EndThreadKeeps DEF RelayFails, Thread
  <2> QED
    BY <1>12, <2>1, <2>2, <2>3
<1>13. ASSUME NEW q \in Replica, ConsumerEnds(q) PROVE FreshInv(r)'
  <2>1. Exit({q}) /\ {q} \subseteq Replica
    BY <1>13 DEF ConsumerEnds
  <2> QED
    BY <2>1, ExitKeeps
<1>14. ASSUME NEW s \in Service, Kill(s) PROVE FreshInv(r)'
  <2> DEFINE those == {q \in Replica : ServiceOf[q] = s}
  <2>1. Exit(those) /\ those \subseteq Replica
    BY <1>14 DEF Kill
  <2> QED
    BY <2>1, ExitKeeps
<1> QED
  BY <1>4, <1>5, <1>6, <1>7, <1>8, <1>10, <1>11, <1>12, <1>13, <1>14 DEF Next, Thread
-----------------------------------------------------------------------------

(* A step that leaves r's memory and queue alone, and of what is on its way to r drops nothing,
   leaves r obedient. *)
LEMMA Undisturbed ==
    ASSUME NEW r \in Replica, NEW a \in Action, ObeyInv(r, a),
           inboxes'[r] = inboxes[r], toggles'[r] = toggles[r], word'[r][a] = word[r][a],
           \A q \in posts' : r \in q.to =>
               \E p \in posts : q.command = p.command /\ r \in p.to,
           \A p \in posts : r \in p.to =>
               \E q \in posts' : q.command = p.command /\ r \in q.to
    PROVE  ObeyInv(r, a)'
<1>1. ComesInv(r, a)'
  <2>1. ComesInv(r, a)
    BY DEF ObeyInv
  <2>2. ASSUME NEW q \in posts', r \in q.to, Says(q.command, r, a)
        PROVE  q.command.value = word'[r][a]
    BY <2>1, <2>2 DEF ComesInv
  <2> QED
    BY <2>2 DEF ComesInv, Says, Heeds, Name
<1>2. ASSUME NEW p \in posts, r \in p.to, Says(p.command, r, a) PROVE OnItsWay(r, a)'
  <2> PICK q \in posts' : q.command = p.command /\ r \in q.to
    BY <1>2
  <2>1. Says(q.command, r, a)
    BY <1>2
  <2> QED
    BY <2>1 DEF OnItsWay, Says, Heeds, Name
<1>3. OnItsWay(r, a) => OnItsWay(r, a)'
  BY <1>2 DEF OnItsWay
<1>4. BecomesInv(r, a) => BecomesInv(r, a)'
  BY DEF BecomesInv, LastOf, Says, Heeds, Name
<1> QED
  BY <1>1, <1>3, <1>4 DEF ObeyInv

(* Queues that are dropped are not those of an obedient listener. *)
LEMMA DropDisturbsNobody ==
    ASSUME LabInv, NEW r \in Replica, NEW a \in Action, NEW gone, DropQueues(gone), r \notin gone,
           ObeyInv(r, a), toggles'[r] = toggles[r], word'[r][a] = word[r][a]
    PROVE  ObeyInv(r, a)'
<1>1. inboxes'[r] = inboxes[r]
  BY Dropped
<1>2. \A q \in posts' : r \in q.to => \E p \in posts : q.command = p.command /\ r \in p.to
  BY Dropped
<1>3. \A p \in posts : r \in p.to => \E q \in posts' : q.command = p.command /\ r \in q.to
  BY Dropped
<1> QED
  BY <1>1, <1>2, <1>3, Undisturbed

(* A command joins the queue of r and is no longer on its way. *)
LEMMA RouteObeys ==
    ASSUME LabInv, NEW r \in Replica, NEW a \in Action, ObeyInv(r, a),
           NEW p \in posts, NEW q \in Replica, Route(p, q)
    PROVE  ObeyInv(r, a)'
<1>1. PartsOK /\ QueuesOK
  BY TypeParts DEF LabInv
<1>2. /\ p \in [id : 0..MaxPosts, command : Command, to : SUBSET Listening] /\ q \in p.to
      /\ UNCHANGED <<toggles, word>>
  BY <1>1 DEF QueuesOK, Route
<1> DEFINE rest == [p EXCEPT !.to = @ \ {q}]
<1>3. rest.command = p.command /\ rest.to = p.to \ {q}
  BY <1>2
<1>4. posts' = {x \in (posts \ {p}) \cup {rest} : x.to # {}}
  BY DEF Route, InProgress
<1> HIDE DEF rest
<1>5. CASE q # r
  <2>1. inboxes'[r] = inboxes[r]
    BY <1>1, <1>5 DEF Route, QueuesOK
  <2>2. \A x \in posts' : r \in x.to => \E y \in posts : x.command = y.command /\ r \in y.to
    BY <1>3, <1>4
  <2>3. \A y \in posts : r \in y.to => \E x \in posts' : x.command = y.command /\ r \in x.to
    BY <1>3, <1>4, <1>5
  <2> QED
    BY <1>2, <2>1, <2>2, <2>3, Undisturbed
<1>6. CASE q = r
  <2> DEFINE old == inboxes[r]
             new == inboxes'[r]
  <2>1. /\ old \in Seq(Command) /\ new = Append(old, p.command)
        /\ p.command \in Command
    BY <1>1, <1>2, <1>6 DEF Route, QueuesOK
  <2>2. /\ Len(new) = Len(old) + 1 /\ Len(old) \in Nat
        /\ new[Len(old) + 1] = p.command
        /\ \A i \in 1..Len(old) : new[i] = old[i]
    BY <2>1
  <2>3. \A x \in posts' : r \in x.to => x \in posts
    BY <1>3, <1>4, <1>6
  <2>4. ComesInv(r, a)'
    BY <1>2, <2>3 DEF ObeyInv, ComesInv, Says, Heeds, Name
  <2> HIDE DEF old, new
  <2>5. CASE Says(p.command, r, a)
    <3>1. p.command.value = word[r][a]
      BY <1>2, <1>6, <2>5 DEF ObeyInv, ComesInv
    <3>2. ASSUME NEW i \in 1..Len(new), LastOf(i, new, r, a) PROVE new[i].value = word[r][a]
      <4>1. i = Len(old) + 1
        BY <2>2, <2>5, <3>2 DEF LastOf
      <4> QED
        BY <2>2, <3>1, <4>1
    <3>3. ~\A j \in 1..Len(new) : ~Says(new[j], r, a)
      BY <2>2, <2>5
    <3>4. BecomesInv(r, a)'
      BY <1>2, <3>2, <3>3 DEF BecomesInv, LastOf, new, Says, Heeds, Name
    <3> QED
      BY <2>4, <3>4 DEF ObeyInv
  <2>6. CASE ~Says(p.command, r, a)
    <3>1. OnItsWay(r, a) => OnItsWay(r, a)'
      <4> SUFFICES ASSUME NEW x \in posts, r \in x.to, Says(x.command, r, a) PROVE OnItsWay(r, a)'
        BY DEF OnItsWay
      <4>1. x \in posts'
        BY <1>4, <2>6
      <4> QED
        BY <4>1 DEF OnItsWay, Says, Heeds, Name
    <3>2. ASSUME BecomesInv(r, a) PROVE BecomesInv(r, a)'
      <4>1. ASSUME NEW i \in 1..Len(new), LastOf(i, new, r, a) PROVE new[i].value = word[r][a]
        <5>1. i # Len(old) + 1
          BY <2>2, <2>6, <4>1 DEF LastOf
        <5>2. i \in 1..Len(old)
          BY <2>2, <5>1
        <5>3. LastOf(i, old, r, a)
          BY <2>2, <4>1, <5>2 DEF LastOf
        <5> QED
          BY <2>2, <3>2, <5>2, <5>3 DEF BecomesInv, old
      <4>2. (\A j \in 1..Len(new) : ~Says(new[j], r, a)) => toggles[r][a] = word[r][a]
        BY <2>2, <3>2 DEF BecomesInv, old
      <4> QED
        BY <1>2, <4>1, <4>2 DEF BecomesInv, LastOf, new, Says, Heeds, Name
    <3> QED
      BY <2>4, <3>1, <3>2 DEF ObeyInv
  <2> QED
    BY <2>5, <2>6
<1> QED
  BY <1>5, <1>6

(* A listener passes its next command on. *)
LEMMA HandleObeys ==
    ASSUME LabInv, NEW r \in Replica, NEW a \in Action, ObeyInv(r, a),
           NEW q \in Replica, HandleCommand(q)
    PROVE  ObeyInv(r, a)'
<1>1. PartsOK /\ QueuesOK
  BY TypeParts DEF LabInv
<1>2. CASE q # r
  BY <1>1, <1>2, Undisturbed DEF HandleCommand, PartsOK, QueuesOK
<1>3. CASE q = r
  <2> DEFINE old == inboxes[r]
             new == inboxes'[r]
             c == Head(old)
  <2>1. /\ old \in Seq(Command) /\ old # <<>> /\ new = Tail(old)
        /\ c \in Command
    BY <1>1, <1>3 DEF HandleCommand, QueuesOK
  <2>2. /\ Len(old) = Len(new) + 1 /\ Len(new) \in Nat
        /\ old[1] = c
        /\ \A i \in 1..Len(new) : new[i] = old[i + 1]
    BY <2>1
  <2>3. UNCHANGED <<posts, word>>
    BY <1>3 DEF HandleCommand
  <2>4. toggles'[r][a] = IF Says(c, r, a) THEN c.value ELSE toggles[r][a]
    BY <1>1, <1>3, <2>1, ActionFacts DEF HandleCommand, PartsOK, Says
  <2> HIDE DEF old, new, c
  <2>5. ASSUME BecomesInv(r, a) PROVE BecomesInv(r, a)'
    <3>1. ASSUME NEW i \in 1..Len(new), LastOf(i, new, r, a) PROVE new[i].value = word[r][a]
      <4>1. i + 1 \in 1..Len(old)
        BY <2>2
      <4>2. \A j \in 1..Len(old) : j > i + 1 => ~Says(old[j], r, a)
        <5> SUFFICES ASSUME NEW j \in 1..Len(old), j > i + 1 PROVE ~Says(old[j], r, a)
          OBVIOUS
        <5>1. j - 1 \in 1..Len(new) /\ j - 1 > i /\ (j - 1) + 1 = j
          BY <2>2
        <5> QED
          BY <2>2, <3>1, <5>1 DEF LastOf
      <4>3. LastOf(i + 1, old, r, a)
        BY <2>2, <3>1, <4>1, <4>2 DEF LastOf
      <4> QED
        BY <2>2, <2>5, <4>1, <4>3 DEF BecomesInv, old
    <3>2. ASSUME \A j \in 1..Len(new) : ~Says(new[j], r, a) PROVE toggles'[r][a] = word[r][a]
      <4>1. \A j \in 1..Len(old) : j > 1 => ~Says(old[j], r, a)
        <5> SUFFICES ASSUME NEW j \in 1..Len(old), j > 1 PROVE ~Says(old[j], r, a)
          OBVIOUS
        <5>1. j - 1 \in 1..Len(new) /\ (j - 1) + 1 = j
          BY <2>2
        <5> QED
          BY <2>2, <3>2, <5>1
      <4>2. CASE Says(c, r, a)
        <5>1. 1 \in 1..Len(old) /\ LastOf(1, old, r, a)
          BY <2>2, <4>1, <4>2 DEF LastOf
        <5> QED
          BY <2>2, <2>4, <2>5, <4>2, <5>1 DEF BecomesInv, old
      <4>3. CASE ~Says(c, r, a)
        <5>1. \A j \in 1..Len(old) : ~Says(old[j], r, a)
          BY <2>2, <4>1, <4>3
        <5> QED
          BY <2>4, <2>5, <4>3, <5>1 DEF BecomesInv, old
      <4> QED
        BY <4>2, <4>3
    <3> QED
      BY <2>3, <3>1, <3>2 DEF BecomesInv, LastOf, new, Says, Heeds, Name
  <2>6. ComesInv(r, a)' /\ (OnItsWay(r, a) <=> OnItsWay(r, a)')
    BY <2>3 DEF ObeyInv, ComesInv, OnItsWay, Says, Heeds, Name
  <2> QED
    BY <2>5, <2>6 DEF ObeyInv
<1> QED
  BY <1>2, <1>3

(* The dashboard posts a command. *)
LEMMA PostObeys ==
    ASSUME LabInv, NEW r \in Listening, NEW a \in Action, NEW c \in Command, Post(c),
           <<r, a>> \notin tangled => ObeyInv(r, a), <<r, a>> \notin tangled'
    PROVE  ObeyInv(r, a)'
<1>1. PartsOK /\ QueuesOK
  BY TypeParts DEF LabInv
<1> DEFINE new == [id |-> spent.posts, command |-> c, to |-> Listening]
<1>2. new.command = c /\ new.to = Listening
  OBVIOUS
<1>3. posts' = {x \in posts \cup {new} : x.to # {}}
  BY DEF Post, InProgress
<1> HIDE DEF new
<1>4. UNCHANGED <<inboxes, toggles>>
  BY DEF Post
<1>5. r \in Replica
  BY ListeningFacts
<1>6. word'[r] = IF r \in Audience(c) THEN [word[r] EXCEPT ![c.action] = c.value] ELSE word[r]
  BY <1>5 DEF Post
<1>7. tangled' = {t \in tangled : ~(t[1] \in Audience(c) /\ t[2] = c.action)}
                    \cup {<<q, c.action>> : q \in {q \in Audience(c) : OnItsWay(q, c.action)}}
  BY DEF Post
<1>8. CASE Says(c, r, a)
  <2>1. r \in Audience(c) /\ c.action = a
    BY <1>8 DEF Says, Audience
  <2>2. ~OnItsWay(r, a)
    BY <1>7, <2>1
  <2>3. word'[r][a] = c.value
    BY <1>1, <1>5, <1>6, <2>1 DEF PartsOK
  <2>4. ComesInv(r, a)'
    <3> SUFFICES ASSUME NEW p \in posts', r \in p.to, Says(p.command, r, a)
                 PROVE  p.command.value = word'[r][a]
      BY DEF ComesInv, Says, Heeds, Name
    <3>1. p = new
      BY <1>3, <2>2 DEF OnItsWay
    <3> QED
      BY <1>2, <2>3, <3>1
  <2>5. OnItsWay(r, a)'
    <3>1. new \in posts' /\ r \in new.to /\ Says(new.command, r, a)
      BY <1>2, <1>3, <1>8
    <3> QED
      BY <3>1 DEF OnItsWay, Says, Heeds, Name
  <2> QED
    BY <2>4, <2>5 DEF ObeyInv
<1>9. CASE ~Says(c, r, a)
  <2>1. r \notin Audience(c) \/ c.action # a
    BY <1>9 DEF Says, Audience
  <2>2. word'[r][a] = word[r][a]
    BY <1>1, <1>5, <1>6, <2>1 DEF PartsOK
  <2>3. ObeyInv(r, a)
    BY <1>7, <2>1
  <2>4. ComesInv(r, a)'
    <3> SUFFICES ASSUME NEW p \in posts', r \in p.to, Says(p.command, r, a)
                 PROVE  p.command.value = word'[r][a]
      BY DEF ComesInv, Says, Heeds, Name
    <3>1. p \in posts
      BY <1>2, <1>3, <1>9
    <3> QED
      BY <2>2, <2>3, <3>1 DEF ObeyInv, ComesInv
  <2>5. OnItsWay(r, a) => OnItsWay(r, a)'
    BY <1>3 DEF OnItsWay, Says, Heeds, Name
  <2>6. BecomesInv(r, a) => BecomesInv(r, a)'
    BY <1>4, <2>2 DEF BecomesInv, LastOf, Says, Heeds, Name
  <2> QED
    BY <2>3, <2>4, <2>5, <2>6 DEF ObeyInv
<1> QED
  BY <1>8, <1>9

(* Every step leaves the listeners obedient. *)
LEMMA ObeyStep ==
    ASSUME LabInv, [Next]_vars, NEW r \in Listening', NEW a \in Action, <<r, a>> \notin tangled'
    PROVE  ObeyInv(r, a)'
<1>1. PartsOK /\ QueuesOK /\ r \in Replica
  BY TypeParts, ListeningFacts DEF LabInv
<1>2. ASSUME r \in Listening, <<r, a>> \notin tangled PROVE ObeyInv(r, a)
  BY <1>2 DEF LabInv
<1>3. ASSUME UNCHANGED <<inboxes, toggles, posts, word, tangled>>, r \in Listening
      PROVE  ObeyInv(r, a)'
  <2>1. ObeyInv(r, a)
    BY <1>2, <1>3
  <2> QED
    BY <1>1, <1>3, <2>1, Undisturbed
<1>4. CASE UNCHANGED vars
  BY <1>3, <1>4, ListeningFacts DEF vars
<1>5. ASSUME NEW c \in Command, Post(c) PROVE ObeyInv(r, a)'
  <2>1. r \in Listening
    BY <1>5, ListeningFacts DEF Post
  <2> QED
    BY <1>2, <1>5, <2>1, PostObeys
<1>6. ASSUME NEW p \in posts, NEW q \in Replica, Route(p, q) PROVE ObeyInv(r, a)'
  <2>1. r \in Listening /\ <<r, a>> \notin tangled
    BY <1>6, ListeningFacts DEF Route
  <2> QED
    BY <1>1, <1>2, <1>6, <2>1, RouteObeys
<1>7. ASSUME NEW q \in Replica, HandleCommand(q) PROVE ObeyInv(r, a)'
  <2>1. r \in Listening /\ <<r, a>> \notin tangled
    BY <1>7, ListeningFacts DEF HandleCommand
  <2> QED
    BY <1>1, <1>2, <1>7, <2>1, HandleObeys
<1>8. ASSUME r \notin Listening, threads[r]["listener"] = "connecting", UNCHANGED <<inboxes, toggles, posts, word>>
      PROVE  ObeyInv(r, a)'
  <2>1. inboxes[r] = <<>> /\ toggles[r] = Off /\ word[r] = Off
    BY <1>1, <1>8 DEF LabInv, FreshInv
  <2>2. \A p \in posts : r \notin p.to
    BY <1>1, <1>8 DEF QueuesOK
  <2>3. ComesInv(r, a)'
    BY <1>8, <2>2 DEF ComesInv
  <2>4. inboxes'[r] = <<>> /\ toggles'[r][a] = word'[r][a]
    BY <1>8, <2>1
  <2>5. \A i \in 1..Len(<<>>) : FALSE
    OBVIOUS
  <2>6. BecomesInv(r, a)'
    BY <2>4, <2>5 DEF BecomesInv
  <2> QED
    BY <2>3, <2>6 DEF ObeyInv
<1>9. ASSUME NEW q \in Replica, Write(q) \/ Drain(q) \/ StartFails(q) PROVE ObeyInv(r, a)'
  BY <1>3, <1>9, ListeningFacts DEF Write, Drain, StartFails
<1>10. ASSUME NEW q \in Replica, Start(q) PROVE ObeyInv(r, a)'
  <2>1. r \notin up => threads[r]["listener"] = "connecting"
    BY <1>1 DEF LabInv, FreshInv
  <2> QED
    BY <1>3, <1>10, <2>1, ListeningFacts DEF Start
<1>11. ASSUME NEW q \in Replica, NEW k \in Thread, Attach(q, k) PROVE ObeyInv(r, a)'
  <2>1. CASE r \in Listening
    BY <1>3, <1>11, <2>1 DEF Attach
  <2>2. CASE r \notin Listening
    <3>1. threads[r]["listener"] = "connecting"
      BY <1>1, <1>11, <2>2, ListeningFacts DEF Attach, PartsOK, Thread
    <3> QED
      BY <1>8, <1>11, <2>2, <3>1 DEF Attach
  <2> QED
    BY <2>1, <2>2
<1>12. ASSUME NEW q \in Replica, Reopen(q) PROVE ObeyInv(r, a)'
  <2>1. r \in Listening
    BY <1>1, <1>12, ListeningFacts DEF Reopen, PartsOK, Thread
  <2> QED
    BY <1>3, <1>12, <2>1 DEF Reopen
<1>13. ASSUME NEW q \in Replica, NEW k \in Thread, q \in up, EndThread(q, k) PROVE ObeyInv(r, a)'
  <2> DEFINE gone == IF k = "listener" THEN {q} ELSE {}
  <2>1. r \in Listening /\ r \notin gone
    BY <1>13, EndThreadKeeps
  <2>2. DropQueues(gone) /\ UNCHANGED <<toggles, word, tangled>>
    BY <1>13 DEF EndThread
  <2> HIDE DEF gone
  <2> QED
    BY <1>1, <1>2, <2>1, <2>2, DropDisturbsNobody
<1>14. ASSUME NEW q \in Replica, NEW k \in Thread, GiveUp(q, k) \/ Drop(q, k) \/ RelayFails(q)
       PROVE  ObeyInv(r, a)'
  <2>1. CASE Drop(q, k) /\ k = "relay"
    <3>1. /\ UNCHANGED <<up, toggles, inboxes, posts, word, tangled>>
          /\ threads' = [threads EXCEPT ![q]["relay"] = "lost"]
      BY <2>1 DEF Drop
    <3>2. r \in Listening
      BY <1>1, <3>1, ListeningFacts DEF PartsOK, Thread
    <3> QED
      BY <1>3, <3>1, <3>2
  <2>2. CASE GiveUp(q, k) \/ (Drop(q, k) /\ k # "relay")
    BY <1>13, <2>2 DEF GiveUp, Drop, Works
  <2>3. CASE RelayFails(q)
    BY <1>13, <2>3 DEF RelayFails, Thread
  <2> QED
    BY <1>14, <2>1, <2>2, <2>3
<1>15. ASSUME NEW gone, gone \subseteq Replica, Exit(gone) PROVE ObeyInv(r, a)'
  <2>1. r \in Listening /\ r \notin gone
    BY <1>15, ExitKeeps
  <2>2. /\ DropQueues(gone) /\ toggles'[r] = toggles[r] /\ word'[r] = word[r]
        /\ <<r, a>> \notin tangled
    BY <1>1, <1>15, <2>1 DEF Exit
  <2> QED
    BY <1>1, <1>2, <2>1, <2>2, DropDisturbsNobody
<1>16. ASSUME NEW q \in Replica, ConsumerEnds(q) PROVE ObeyInv(r, a)'
  <2>1. Exit({q}) /\ {q} \subseteq Replica
    BY <1>16 DEF ConsumerEnds
  <2> QED
    BY <1>15, <2>1
<1>17. ASSUME NEW s \in Service, Kill(s) PROVE ObeyInv(r, a)'
  <2> DEFINE those == {q \in Replica : ServiceOf[q] = s}
  <2>1. Exit(those) /\ those \subseteq Replica
    BY <1>17 DEF Kill
  <2> QED
    BY <1>15, <2>1
<1> QED
  BY <1>4, <1>5, <1>6, <1>7, <1>9, <1>10, <1>11, <1>12, <1>14, <1>16, <1>17 DEF Next, Thread

(* The first state has nothing to obey. *)
LEMMA LabInit == ASSUME Init PROVE LabInv
<1>1. <<>> \in Seq(Command) /\ \A i \in 1..Len(<<>>) : FALSE
  OBVIOUS
<1>2. Off \in [Action -> BOOLEAN]
  BY DEF Off
<1>3. inboxes \in [Replica -> Seq(Command)]
  BY <1>1 DEF Init
<1>4. threads \in [Replica -> [Thread -> {"connecting", "open", "lost", "ended"}]]
  BY DEF Init
<1>5. spent \in [posts : 0..MaxPosts, drops : 0..MaxDrops, kills : 0..MaxKills]
  BY BoundAssumption DEF Init
<1>6. TypeOK
  BY <1>2, <1>3, <1>4, <1>5 DEF Init, TypeOK
<1>7. \A r \in Replica : FreshInv(r)
  BY DEF Init, FreshInv, Thread
<1>8. ASSUME NEW r \in Listening, NEW a \in Action PROVE ObeyInv(r, a)
  <2>1. r \in Replica /\ inboxes[r] = <<>> /\ toggles[r] = word[r]
    BY ListeningFacts DEF Init
  <2>2. ComesInv(r, a)
    BY DEF Init, ComesInv
  <2>3. BecomesInv(r, a)
    BY <1>1, <2>1 DEF BecomesInv
  <2> QED
    BY <2>2, <2>3 DEF ObeyInv
<1> QED
  BY <1>6, <1>7, <1>8 DEF LabInv

(* The laboratory keeps its types and its inductive invariant. *)
THEOREM LabInductive == Spec => []LabInv
<1>1. Init => LabInv
  BY LabInit
<1>2. LabInv /\ [Next]_vars => LabInv'
  <2> SUFFICES ASSUME LabInv, [Next]_vars PROVE LabInv'
    OBVIOUS
  <2>1. TypeOK'
    BY TypeStep
  <2>2. \A r \in Replica : FreshInv(r)'
    BY FreshStep
  <2>3. \A r \in Listening', a \in Action : <<r, a>> \notin tangled' => ObeyInv(r, a)'
    BY ObeyStep
  <2>4. Action' = Action
    BY DEF Action
  <2> QED
    BY <2>1, <2>2, <2>3, <2>4 DEF LabInv
<1> QED
  BY <1>1, <1>2, PTL DEF Spec

(* However replicas fail, restart and fall behind, one that listens and has emptied its queue
   obeys the last command of each toggle, unless its posts overlapped; of publish_command and
   listen_for_commands. *)
THEOREM LastWordIsObeyed == Spec => []LastWordObeyed
<1>1. LabInv => LastWordObeyed
  <2> SUFFICES ASSUME LabInv, NEW r \in Listening, NEW a \in Action, inboxes[r] = <<>>,
                      ~OnItsWay(r, a), <<r, a>> \notin tangled
               PROVE  toggles[r][a] = word[r][a]
    BY DEF LastWordObeyed
  <2>1. BecomesInv(r, a)
    BY DEF LabInv, ObeyInv
  <2>2. \A j \in 1..Len(inboxes[r]) : FALSE
    OBVIOUS
  <2> QED
    BY <2>1, <2>2 DEF BecomesInv
<1> QED
  BY <1>1, LabInductive, PTL

(* The laboratory's types, of every variable. *)
THEOREM LabTypeCorrect == Spec => []TypeOK
<1>1. LabInv => TypeOK
  BY DEF LabInv
<1> QED
  BY <1>1, LabInductive, PTL
=============================================================================
