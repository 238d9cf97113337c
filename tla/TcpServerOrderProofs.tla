------------------------- MODULE TcpServerOrderProofs -------------------------
(***************************************************************************)
(* Theorems about who is polled and who receives what in TcpServer: for    *)
(* every number of clients, descriptors, buffers and queue slots.          *)
(***************************************************************************)
EXTENDS TcpServerProofs

(***************************************************************************)
(* The invariants.                                                         *)
(***************************************************************************)

\* As long as no write of a broadcast has failed: the descriptors in m_pollfds
\* are different ones, and they are those of the connections.
PolledOnce ==
  ~failed =>
    /\ \A i, j \in DOMAIN pollfds : i # j => pollfds[i].fd # pollfds[j].fd
    /\ \A fd \in Fds : peer[fd] # NoClient
         <=> \E i \in DOMAIN pollfds : pollfds[i].fd = fd

\* The messages in the queue were read one after the other.
QueueInOrder ==
  /\ \A i, j \in DOMAIN out_queue : i < j => out_queue[i].id < out_queue[j].id
  /\ \A i \in DOMAIN out_queue :
       /\ out_queue[i].id <= reads
       /\ pc = "post" => out_queue[i].id < msg.id
       /\ pc = "send" => msg.id < out_queue[i].id
  /\ pc \in {"post", "send"} => msg.id <= reads

\* Nobody has received what is still to be sent; of the message being sent only
\* those whose turn was, and each has one turn.
Received ==
  ~failed =>
    /\ \A c \in Clients : got[c] <= reads
    /\ \A c \in Clients, i \in DOMAIN out_queue : got[c] < out_queue[i].id
    /\ pc = "post" => \A c \in Clients : got[c] < msg.id
    /\ pc = "send" =>
         /\ \A c \in Clients : got[c] <= msg.id
         /\ \A c \in Clients : got[c] = msg.id =>
              \E j \in 1..at - 1 : targets[j] # m_fd /\ peer[targets[j]] = c
         /\ \A i, j \in DOMAIN targets : i # j => targets[i] # targets[j]

\* Without slow clients a client that is heard is also writable.
Drained ==
  /\ slow = {}
  /\ \A i \in DOMAIN pollfds :
       pollfds[i].fd # m_fd /\ "in" \in pollfds[i].revents
         => "out" \in pollfds[i].revents
  /\ Len(out_queue) <= (IF pc = "out" THEN 1 ELSE 0)
  /\ pc \in {"out", "post"} => 2 <= it /\ {"in", "out"} \subseteq It.revents

(***************************************************************************)
(* Who is polled.                                                          *)
(***************************************************************************)

OnceInv == ShapeInv /\ PolledOnce

\* The actions that leave the descriptors as they are, and one that gives up.
LEMMA OnceFrame ==
  ASSUME PolledOnce,
         \/ UNCHANGED <<pollfds, peer, failed>>
         \/ failed' = TRUE
  PROVE  PolledOnce'
BY DEF PolledOnce

\* In the beginning only the listening socket is polled.
LEMMA InitOnce == Init => PolledOnce
<1>. SUFFICES ASSUME Init PROVE PolledOnce
  OBVIOUS
<1>1. DOMAIN pollfds = {1} /\ pollfds[1].fd = m_fd /\ m_fd \notin Fds
  BY Facts DEF Init
<1>2. \A fd \in Fds : peer[fd] = NoClient
  BY DEF Init
<1>. QED
  BY <1>1, <1>2 DEF PolledOnce

\* ::poll changes events, not descriptors.
LEMMA PollOnce == OnceInv /\ Poll => PolledOnce'
<1>. SUFFICES ASSUME OnceInv, Poll PROVE PolledOnce'
  OBVIOUS
<1>1. /\ pollfds' \in Seq(Pollfd) /\ Len(pollfds') = Len(pollfds)
      /\ \A i \in 1..Len(pollfds) : pollfds'[i].fd = pollfds[i].fd
  BY Polled DEF OnceInv, ShapeInv
<1>2. DOMAIN pollfds' = 1..Len(pollfds) /\ DOMAIN pollfds = 1..Len(pollfds)
  BY <1>1, Elements DEF OnceInv, ShapeInv
<1>3. UNCHANGED <<peer, failed>>
  BY DEF Poll, kernel, history
<1>. QED
  BY <1>1, <1>2, <1>3 DEF OnceInv, PolledOnce

\* The client who is dropped is polled no more, and the others still are.
LEMMA DropOnce ==
  ASSUME OnceInv, it \in 2..Len(pollfds), CloseFd(It.fd),
         pollfds' = RemoveAt(pollfds, it), failed' = failed
  PROVE  PolledOnce'
<1>. USE DEF OnceInv, ShapeInv
<1>1. PICK n \in Nat : n = Len(pollfds) /\ DOMAIN pollfds = 1..n
  BY Elements
<1>2. It.fd \in Fds /\ it \in 1..n /\ It = pollfds[it]
  BY <1>1, Elements DEF It, Vector
<1>3. /\ peer'[It.fd] = NoClient /\ \A f \in Fds \ {It.fd} : peer'[f] = peer[f]
      /\ \A c \in Clients : link[c] \notin {"idle", "waiting"}
                             => link'[c] \notin {"idle", "waiting"}
  BY <1>2, Closed
<1>4. /\ DOMAIN pollfds' = 1..n - 1
      /\ \A i \in 1..n - 1 : pollfds'[i] = IF i < it THEN pollfds[i] ELSE pollfds[i + 1]
  <2>1. /\ pollfds' \in Seq(Pollfd) /\ Len(pollfds') = Len(pollfds) - 1
        /\ \A i \in 1..Len(pollfds) - 1 :
             pollfds'[i] = IF i < it THEN pollfds[i] ELSE pollfds[i + 1]
    BY <1>3, ElementErased
  <2>2. DOMAIN pollfds' = 1..Len(pollfds')
    BY <2>1
  <2>. QED
    BY <1>1, <2>1, <2>2
<1>. DEFINE g(i) == IF i < it THEN i ELSE i + 1
<1>5. /\ \A i \in 1..n - 1 : g(i) \in 1..n /\ g(i) # it /\ pollfds'[i] = pollfds[g(i)]
      /\ \A i, j \in 1..n - 1 : i # j => g(i) # g(j)
      /\ \A k \in 1..n : k = it \/ \E i \in 1..n - 1 : g(i) = k
  <2>1. \A i \in 1..n - 1 : g(i) \in 1..n /\ g(i) # it
    BY <1>2
  <2>2. \A i \in 1..n - 1 : pollfds'[i] = pollfds[g(i)]
    BY <1>4
  <2>3. \A i, j \in 1..n - 1 : i # j => g(i) # g(j)
    BY <1>2
  <2>4. ASSUME NEW k \in 1..n, k # it PROVE \E i \in 1..n - 1 : g(i) = k
    <3>1. CASE k < it
      <4>1. k \in 1..n - 1 /\ g(k) = k
        BY <1>2, <3>1
      <4>. QED
        BY <4>1
    <3>2. CASE ~(k < it)
      <4>1. k - 1 \in 1..n - 1 /\ g(k - 1) = k
        BY <1>2, <2>4, <3>2
      <4>. QED
        BY <4>1
    <3>. QED
      BY <3>1, <3>2
  <2>. QED
    BY <2>1, <2>2, <2>3, <2>4
<1>. HIDE DEF g
<1>6. SUFFICES ASSUME ~failed PROVE
        /\ \A i, j \in 1..n - 1 : i # j => pollfds'[i].fd # pollfds'[j].fd
        /\ \A fd \in Fds : peer'[fd] # NoClient
             <=> \E i \in 1..n - 1 : pollfds'[i].fd = fd
  BY <1>4 DEF PolledOnce
<1>7. /\ \A i, j \in 1..n : i # j => pollfds[i].fd # pollfds[j].fd
      /\ \A fd \in Fds : peer[fd] # NoClient <=> \E i \in 1..n : pollfds[i].fd = fd
  BY <1>1, <1>6 DEF PolledOnce
<1>8. ASSUME NEW i \in 1..n - 1, NEW j \in 1..n - 1, i # j
      PROVE  pollfds'[i].fd # pollfds'[j].fd
  <2>1. /\ g(i) \in 1..n /\ g(j) \in 1..n /\ g(i) # g(j)
        /\ pollfds'[i] = pollfds[g(i)] /\ pollfds'[j] = pollfds[g(j)]
    BY <1>5, <1>8, Zenon
  <2>2. pollfds[g(i)].fd # pollfds[g(j)].fd
    BY <1>7, <2>1, Zenon
  <2>. QED
    BY <2>1, <2>2, Zenon
<1>9. ASSUME NEW fd \in Fds
      PROVE  peer'[fd] # NoClient <=> \E i \in 1..n - 1 : pollfds'[i].fd = fd
  <2>1. CASE fd = It.fd
    <3>1. peer'[fd] = NoClient
      BY <1>3, <2>1
    <3>2. ASSUME NEW i \in 1..n - 1 PROVE pollfds'[i].fd # fd
      <4>1. g(i) \in 1..n /\ g(i) # it /\ pollfds'[i] = pollfds[g(i)]
        BY <1>5, Zenon
      <4>2. pollfds[g(i)].fd # pollfds[it].fd
        BY <1>2, <1>7, <4>1, Zenon
      <4>. QED
        BY <1>2, <2>1, <4>1, <4>2, Zenon
    <3>. QED
      BY <3>1, <3>2
  <2>2. CASE fd # It.fd
    <3>1. peer'[fd] = peer[fd]
      BY <1>3, <2>2
    <3>2. ASSUME NEW k \in 1..n, pollfds[k].fd = fd
          PROVE  \E i \in 1..n - 1 : pollfds'[i].fd = fd
      <4>1. k # it
        BY <1>2, <2>2, <3>2
      <4>2. PICK i \in 1..n - 1 : g(i) = k
        BY <1>5, <4>1, Zenon
      <4>3. pollfds'[i] = pollfds[k]
        BY <1>5, <4>2, Zenon
      <4>. QED
        BY <3>2, <4>3
    <3>3. (\E i \in 1..n - 1 : pollfds'[i].fd = fd) => \E i \in 1..n : pollfds[i].fd = fd
      BY <1>5
    <3>. QED
      BY <1>7, <3>1, <3>2, <3>3
  <2>. QED
    BY <2>1, <2>2
<1>. QED
  BY <1>8, <1>9

\* A descriptor that accept() gives was free, so it was not polled.
LEMMA AcceptOnce == OnceInv /\ Accept => PolledOnce'
<1>. SUFFICES ASSUME OnceInv, Accept PROVE PolledOnce'
  OBVIOUS
<1>. USE DEF OnceInv, ShapeInv
<1>1. PICK c \in Clients, fd \in Fds :
        /\ peer[fd] = NoClient /\ peer' = [peer EXCEPT ![fd] = c]
        /\ pollfds' = Append(pollfds, [fd |-> fd, revents |-> {}])
  BY Accepted
<1>2. PICK n \in Nat : n = Len(pollfds) /\ DOMAIN pollfds = 1..n
  BY Elements
<1>3. /\ DOMAIN pollfds' = 1..n + 1
      /\ \A i \in 1..n : pollfds'[i] = pollfds[i]
      /\ pollfds'[n + 1].fd = fd
  <2>1. [fd |-> fd, revents |-> {}] \in Pollfd
    BY DEF Pollfd
  <2>2. pollfds \in Seq(Pollfd)
    BY DEF TypeOK
  <2>. QED
    BY <1>1, <1>2, <2>1, <2>2, PushBack
<1>4. 1..n + 1 = 1..n \cup {n + 1}
  BY <1>2
<1>5. failed' = failed /\ \A f \in Fds : peer'[f] = IF f = fd THEN c ELSE peer[f]
  BY <1>1 DEF Accept, history, TypeOK
<1>6. ~failed => \A i \in 1..n : pollfds[i].fd # fd
  BY <1>1, <1>2 DEF PolledOnce
<1>7. SUFFICES ASSUME ~failed PROVE
        /\ \A i, j \in 1..n + 1 : i # j => pollfds'[i].fd # pollfds'[j].fd
        /\ \A f \in Fds : peer'[f] # NoClient
             <=> \E i \in 1..n + 1 : pollfds'[i].fd = f
  BY <1>3, <1>5 DEF PolledOnce
<1>8. /\ \A i, j \in 1..n : i # j => pollfds[i].fd # pollfds[j].fd
      /\ \A f \in Fds : peer[f] # NoClient <=> \E i \in 1..n : pollfds[i].fd = f
  BY <1>2, <1>7 DEF PolledOnce
<1>9. \A i, j \in 1..n + 1 : i # j => pollfds'[i].fd # pollfds'[j].fd
  BY <1>3, <1>4, <1>6, <1>7, <1>8
<1>10. ASSUME NEW f \in Fds
       PROVE  peer'[f] # NoClient <=> \E i \in 1..n + 1 : pollfds'[i].fd = f
  <2>1. (\E i \in 1..n + 1 : pollfds'[i].fd = f)
          <=> (f = fd \/ \E i \in 1..n : pollfds[i].fd = f)
    BY <1>3, <1>4
  <2>. QED
    BY <1>5, <1>8, <2>1, Facts
<1>. QED
  BY <1>9, <1>10

\* Every step keeps one element for each connection.
LEMMA StepOnce == OnceInv /\ [Next]_vars => OnceInv'
<1>. SUFFICES ASSUME OnceInv, [Next]_vars PROVE PolledOnce'
  BY StepShape DEF OnceInv
<1>1. CASE Poll
  BY <1>1, PollOnce
<1>2. CASE HangUp
  <2>1. it \in 2..Len(pollfds)
    BY <1>2, HungUpClient DEF OnceInv
  <2>. QED
    BY <1>2, <2>1, DropOnce DEF HangUp, history
<1>3. CASE ReadFails
  <2>1. it \in 2..Len(pollfds)
    BY <1>3, DataFromClient DEF OnceInv, ShapeInv, ReadFails
  <2>. QED
    BY <1>3, <2>1, DropOnce DEF ReadFails, history
<1>4. CASE Accept
  BY <1>4, AcceptOnce
<1>5. CASE \/ PollFails \/ AcceptFails \/ Subscribe \/ Share \/ Post \/ NothingToSend
           \/ Pop \/ Skip \/ Filtered \/ Write \/ WriteFails \/ WriteKills
           \/ Release \/ Client \/ UNCHANGED vars
  <2>1. UNCHANGED <<pollfds, peer, failed>> \/ failed' = TRUE
    BY <1>5 DEF PollFails, AcceptFails, Subscribe, Share, Post, NothingToSend, Pop, Skip,
                Filtered, Write, WriteFails, WriteKills, Release, Client, kernel, history,
                vars
  <2>. QED
    BY <2>1, OnceFrame DEF OnceInv
<1>. QED
  BY <1>1, <1>2, <1>3, <1>4, <1>5, Zenon DEF Next, Server

\* Until a broadcast fails connections and elements agree, at all times.
LEMMA ServerPollsOnce == Spec => []OnceInv
<1>1. Init => OnceInv
  BY InitShape, InitOnce DEF OnceInv
<1>. QED
  BY <1>1, StepOnce, PTL DEF Spec

\* Until a write of a broadcast fails every connection is polled once, and
\* nothing else is: clients who come, go and reset leave m_pollfds in step.
THEOREM ClientsPolled == Spec => []PolledUntilAWriteFails
<1>1. ASSUME OnceInv PROVE PolledUntilAWriteFails
  <2>. SUFFICES ASSUME ~failed, NEW fd \in Fds
                PROVE  Cardinality({i \in DOMAIN pollfds : pollfds[i].fd = fd})
                         = IF peer[fd] = NoClient THEN 0 ELSE 1
    BY DEF PolledUntilAWriteFails, EveryClientPolled
  <2>1. CASE peer[fd] = NoClient
    <3>1. {i \in DOMAIN pollfds : pollfds[i].fd = fd} = {}
      BY <1>1, <2>1 DEF OnceInv, PolledOnce
    <3>. QED
      BY <2>1, <3>1, FS_EmptySet
  <2>2. CASE peer[fd] # NoClient
    <3>1. PICK i \in DOMAIN pollfds : pollfds[i].fd = fd
      BY <1>1, <2>2 DEF OnceInv, PolledOnce
    <3>2. {j \in DOMAIN pollfds : pollfds[j].fd = fd} = {i}
      BY <1>1, <3>1 DEF OnceInv, PolledOnce
    <3>. QED
      BY <2>2, <3>2, FS_Singleton
  <2>. QED
    BY <2>1, <2>2
<1>. QED
  BY <1>1, ServerPollsOnce, PTL

(***************************************************************************)
(* In which order the messages wait.                                       *)
(***************************************************************************)

QueueInv == ShapeInv /\ QueueInOrder

\* The messages of the queue, and what their numbers are.
LEMMA QueueFacts ==
  ASSUME TypeOK
  PROVE  \E n \in Nat :
           /\ n = Len(out_queue) /\ DOMAIN out_queue = 1..n
           /\ \A i \in 1..n : out_queue[i] \in Msg /\ out_queue[i].id \in Nat
           /\ reads \in Nat
           /\ \A c \in Clients : got[c] \in Nat
<1>1. reads \in Nat /\ \A c \in Clients : got[c] \in Nat
  BY Facts DEF TypeOK
<1>2. \A m \in Msg : m.id \in Nat
  BY Facts DEF Msg
<1>3. out_queue \in Seq(Msg)
  BY DEF TypeOK
<1>. QED
  BY <1>1, <1>2, <1>3

\* A step that neither posts nor pops keeps the order.
LEMMA QueueFrame ==
  ASSUME QueueInOrder, UNCHANGED <<out_queue, reads>>,
         pc' \in {"post", "send"} => pc' = pc /\ msg' = msg
  PROVE  QueueInOrder'
BY DEF QueueInOrder

\* What is read gets a higher number than what was read before.
LEMMA ReadInOrder ==
  ASSUME QueueInv, UNCHANGED out_queue, reads' = reads + 1,
         \/ pc' = "out"
         \/ pc' = "post" /\ msg'.id = reads'
  PROVE  QueueInOrder'
<1>1. PICK n \in Nat :
        /\ DOMAIN out_queue = 1..n
        /\ \A i \in 1..n : out_queue[i].id \in Nat
        /\ reads \in Nat
  BY QueueFacts DEF QueueInv, ShapeInv
<1>2. \A i \in 1..n : out_queue[i].id <= reads
  BY <1>1 DEF QueueInv, QueueInOrder
<1>3. \A i \in 1..n : out_queue[i].id <= reads' /\ out_queue[i].id < reads'
  BY <1>1, <1>2
<1>4. reads' <= reads'
  BY <1>1
<1>. QED
  BY <1>1, <1>3, <1>4 DEF QueueInv, QueueInOrder

\* What is posted was read after everything in the queue.
LEMMA PostInOrder == QueueInv /\ Post => QueueInOrder'
<1>. SUFFICES ASSUME QueueInv, Post PROVE QueueInOrder'
  OBVIOUS
<1>1. PICK n \in Nat :
        /\ n = Len(out_queue) /\ DOMAIN out_queue = 1..n
        /\ \A i \in 1..n : out_queue[i].id \in Nat
        /\ reads \in Nat
  BY QueueFacts DEF QueueInv, ShapeInv
<1>2. /\ DOMAIN out_queue' = 1..n + 1 /\ out_queue'[n + 1] = msg
      /\ \A i \in 1..n : out_queue'[i] = out_queue[i]
  <2>1. msg \in Msg /\ out_queue \in Seq(Msg)
    BY HasMsg DEF QueueInv, ShapeInv, TypeOK, Post
  <2>. QED
    BY <1>1, <2>1, PushBack DEF Post
<1>3. /\ \A i, j \in 1..n : i < j => out_queue[i].id < out_queue[j].id
      /\ \A i \in 1..n : out_queue[i].id <= reads /\ out_queue[i].id < msg.id
      /\ msg.id <= reads
  BY <1>1 DEF QueueInv, QueueInOrder, Post
<1>4. /\ \A i \in 1..n + 1 : i = n + 1 \/ i \in 1..n
      /\ \A j \in 1..n + 1 : ~(n + 1 < j)
  BY <1>1
<1>5. \A i, j \in 1..n + 1 : i < j => out_queue'[i].id < out_queue'[j].id
  <2>1. TAKE i, j \in 1..n + 1
  <2>2. HAVE i < j
  <2>3. i \in 1..n
    BY <1>4, <2>2
  <2>4. CASE j = n + 1
    BY <1>2, <1>3, <2>3, <2>4
  <2>5. CASE j \in 1..n
    BY <1>2, <1>3, <2>2, <2>3, <2>5
  <2>. QED
    BY <1>4, <2>4, <2>5
<1>6. \A i \in 1..n + 1 : out_queue'[i].id <= reads
  BY <1>2, <1>3, <1>4
<1>7. pc' = "out" /\ reads' = reads
  BY DEF Post, history
<1>. QED
  BY <1>2, <1>5, <1>6, <1>7 DEF QueueInOrder

\* What is sent was posted before everything in the queue.
LEMMA PopInOrder == QueueInv /\ Pop => QueueInOrder'
<1>. SUFFICES ASSUME QueueInv, Pop PROVE QueueInOrder'
  OBVIOUS
<1>1. PICK n \in Nat :
        /\ n = Len(out_queue) /\ DOMAIN out_queue = 1..n
        /\ \A i \in 1..n : out_queue[i].id \in Nat
        /\ reads \in Nat
  BY QueueFacts DEF QueueInv, ShapeInv
<1>2. /\ n # 0 /\ DOMAIN out_queue' = 1..n - 1 /\ msg' = out_queue[1]
      /\ \A i \in 1..n - 1 : out_queue'[i] = out_queue[i + 1]
  <2>1. out_queue \in Seq(Msg) /\ out_queue # <<>>
    BY DEF QueueInv, ShapeInv, TypeOK, Pop
  <2>. QED
    BY <1>1, <2>1, PopFront DEF Pop
<1>3. /\ \A i, j \in 1..n : i < j => out_queue[i].id < out_queue[j].id
      /\ \A i \in 1..n : out_queue[i].id <= reads
  BY <1>1 DEF QueueInv, QueueInOrder
<1>4. \A i \in 1..n - 1 : i + 1 \in 1..n /\ 1 \in 1..n /\ 1 < i + 1
  BY <1>1
<1>5. \A i, j \in 1..n - 1 : i < j => i + 1 < j + 1
  BY <1>1
<1>6. \A i, j \in 1..n - 1 : i < j => out_queue'[i].id < out_queue'[j].id
  BY <1>2, <1>3, <1>4, <1>5
<1>7. \A i \in 1..n - 1 : out_queue'[i].id <= reads /\ msg'.id < out_queue'[i].id
  BY <1>2, <1>3, <1>4
<1>8. msg'.id <= reads
  <2>1. 1 \in 1..n
    BY <1>1, <1>2
  <2>. QED
    BY <1>2, <1>3, <2>1
<1>9. pc' = "send" /\ reads' = reads
  BY DEF Pop, history
<1>. QED
  BY <1>2, <1>6, <1>7, <1>8, <1>9 DEF QueueInOrder

\* Every step keeps the queue in order.
LEMMA StepInOrder == QueueInv /\ [Next]_vars => QueueInv'
<1>. SUFFICES ASSUME QueueInv, [Next]_vars PROVE QueueInOrder'
  BY StepShape DEF QueueInv
<1>1. CASE Subscribe
  BY <1>1, ReadInOrder DEF Subscribe, Data, buffers
<1>2. CASE Share
  <2>1. pc' = "post" /\ msg'.id = reads' /\ reads' = reads + 1 /\ UNCHANGED out_queue
    BY <1>2 DEF Share, Data
  <2>. QED
    BY <2>1, ReadInOrder
<1>3. CASE Post
  BY <1>3, PostInOrder
<1>4. CASE Pop
  BY <1>4, PopInOrder
<1>5. CASE \/ Poll \/ PollFails \/ HangUp \/ Accept \/ AcceptFails \/ ReadFails
           \/ NothingToSend \/ Filtered \/ Release \/ WriteKills
  <2>1. UNCHANGED <<out_queue, reads>>
    BY <1>5 DEF Poll, PollFails, HangUp, Accept, AcceptFails, ReadFails, NothingToSend,
                Filtered, Release, WriteKills, buffers, history
  <2>2. pc' \notin {"post", "send"}
    BY <1>5 DEF Poll, PollFails, HangUp, Accept, AcceptFails, ReadFails, NothingToSend,
                Filtered, Release, WriteKills, Continue, Break
  <2>. QED
    BY <2>1, <2>2, QueueFrame DEF QueueInv
<1>6. CASE Skip \/ Write \/ WriteFails \/ Client \/ UNCHANGED vars
  <2>1. UNCHANGED <<out_queue, reads, msg>> /\ pc' \in {pc, "dead"}
    BY <1>6 DEF Skip, Write, WriteFails, Erase, Client, buffers, history, loop, vars
  <2>. QED
    BY <2>1, QueueFrame DEF QueueInv
<1>. QED
  BY <1>1, <1>2, <1>3, <1>4, <1>5, <1>6, Zenon DEF Next, Server

\* The queue is in order at all times.
LEMMA ServerQueuesInOrder == Spec => []QueueInv
<1>1. Init => QueueInOrder
  <2>. SUFFICES ASSUME Init PROVE QueueInOrder
    OBVIOUS
  <2>1. DOMAIN out_queue = {} /\ pc = "poll"
    BY DEF Init
  <2>. QED
    BY <2>1 DEF QueueInOrder
<1>2. Init => QueueInv
  BY <1>1, InitShape DEF QueueInv
<1>. QED
  BY <1>2, StepInOrder, PTL DEF Spec

(***************************************************************************)
(* Who has received what.                                                  *)
(***************************************************************************)

OrderInv == OnceInv /\ QueueInOrder /\ Received

\* What the invariant consists of.
LEMMA OrderFacts ==
  ASSUME OrderInv
  PROVE  OnceInv /\ QueueInv /\ ShapeInv /\ TypeOK /\ Received /\ QueueInOrder
BY DEF OrderInv, OnceInv, QueueInv, ShapeInv

\* A step that starts nothing new to send.
LEMMA ReceivedFrame ==
  ASSUME Received,
         \/ failed' = TRUE
         \/ /\ UNCHANGED <<out_queue, reads, got, failed>>
            /\ \/ pc' \notin {"post", "send"}
               \/ UNCHANGED <<pc, msg, at, targets, peer>>
  PROVE  Received'
BY DEF Received

\* After a failed write Received says nothing.
LEMMA UntilFailed ==
  ASSUME failed' = failed, ~failed => Received'
  PROVE  Received'
<1>1. CASE failed
  BY <1>1 DEF Received
<1>2. CASE ~failed
  BY <1>2
<1>. QED
  BY <1>1, <1>2

\* Nobody has received what is read now.
LEMMA ReadReceived ==
  ASSUME OrderInv, UNCHANGED <<out_queue, got, failed>>, reads' = reads + 1,
         \/ pc' = "out"
         \/ pc' = "post" /\ msg'.id = reads'
  PROVE  Received'
<1>. SUFFICES ASSUME ~failed PROVE Received'
  BY DEF Received
<1>1. reads \in Nat /\ \A c \in Clients : got[c] \in Nat
  BY OrderFacts, QueueFacts
<1>2. \A c \in Clients : got[c] <= reads
  BY OrderFacts DEF Received
<1>3. \A c \in Clients : got[c] <= reads' /\ got[c] < reads'
  BY <1>1, <1>2
<1>. QED
  BY <1>3, OrderFacts DEF Received

LEMMA PostReceived == OrderInv /\ Post => Received'
<1>. SUFFICES ASSUME OrderInv, Post, ~failed PROVE Received'
  BY UntilFailed DEF Post, history
<1>1. PICK n \in Nat : n = Len(out_queue) /\ DOMAIN out_queue = 1..n
  BY OrderFacts, QueueFacts
<1>2. /\ DOMAIN out_queue' = 1..n + 1 /\ out_queue'[n + 1] = msg
      /\ \A i \in 1..n : out_queue'[i] = out_queue[i]
  <2>1. msg \in Msg /\ out_queue \in Seq(Msg)
    BY OrderFacts, HasMsg DEF TypeOK, Post
  <2>. QED
    BY <1>1, <2>1, PushBack DEF Post
<1>3. \A i \in 1..n + 1 : i = n + 1 \/ i \in 1..n
  BY <1>1
<1>4. /\ \A c \in Clients : got[c] <= reads /\ got[c] < msg.id
      /\ \A c \in Clients, i \in 1..n : got[c] < out_queue[i].id
  BY <1>1, OrderFacts DEF Received, Post
<1>5. \A c \in Clients, i \in 1..n + 1 : got[c] < out_queue'[i].id
  BY <1>2, <1>3, <1>4
<1>6. pc' = "out" /\ UNCHANGED <<reads, got>>
  BY DEF Post, history
<1>. QED
  BY <1>2, <1>4, <1>5, <1>6 DEF Received

\* A broadcast starts to be sent: it walks over different descriptors.
LEMMA PopReceived == OrderInv /\ Pop => Received'
<1>. SUFFICES ASSUME OrderInv, Pop, ~failed PROVE Received'
  BY UntilFailed DEF Pop, history
<1>1. PICK n \in Nat : n = Len(out_queue) /\ DOMAIN out_queue = 1..n
  BY OrderFacts, QueueFacts
<1>2. /\ n # 0 /\ DOMAIN out_queue' = 1..n - 1 /\ msg' = out_queue[1]
      /\ \A i \in 1..n - 1 : out_queue'[i] = out_queue[i + 1]
  <2>1. out_queue \in Seq(Msg) /\ out_queue # <<>>
    BY OrderFacts DEF TypeOK, Pop
  <2>. QED
    BY <1>1, <2>1, PopFront DEF Pop
<1>3. 1 \in 1..n /\ \A i \in 1..n - 1 : i + 1 \in 1..n
  BY <1>1, <1>2
<1>4. /\ \A c \in Clients : got[c] <= reads
      /\ \A c \in Clients, i \in 1..n : got[c] < out_queue[i].id
  BY <1>1, OrderFacts DEF Received
<1>5. \A c \in Clients, i \in 1..n - 1 : got[c] < out_queue'[i].id
  BY <1>2, <1>3, <1>4
<1>6. \A c \in Clients : got[c] < msg'.id /\ got[c] <= msg'.id /\ got[c] # msg'.id
  <2>1. \A c \in Clients : got[c] < msg'.id
    BY <1>2, <1>3, <1>4
  <2>2. msg'.id \in Nat /\ \A c \in Clients : got[c] \in Nat
    BY <1>1, <1>2, <1>3, OrderFacts, QueueFacts
  <2>. QED
    BY <2>1, <2>2
<1>7. \A i, j \in DOMAIN targets' : i # j => targets'[i] # targets'[j]
  <2>1. CASE msg'.fd = 0
    <3>1. targets' = [i \in DOMAIN pollfds |-> pollfds[i].fd]
      BY <2>1 DEF Pop
    <3>2. \A i, j \in DOMAIN pollfds : i # j => pollfds[i].fd # pollfds[j].fd
      BY OrderFacts DEF OnceInv, PolledOnce
    <3>. QED
      BY <3>1, <3>2
  <2>2. CASE msg'.fd # 0
    <3>1. targets' = <<msg'.fd>>
      BY <2>2 DEF Pop
    <3>2. DOMAIN targets' = {1}
      BY <3>1
    <3>. QED
      BY <3>2
  <2>. QED
    BY <2>1, <2>2
<1>8. pc' = "send" /\ UNCHANGED <<reads, got>>
  BY DEF Pop, history
<1>. QED
  BY <1>2, <1>4, <1>5, <1>6, <1>7, <1>8 DEF Received

\* Those whose turn was stay so when the loop goes on.
LEMMA SkipReceived == OrderInv /\ Skip => Received'
<1>. SUFFICES ASSUME OrderInv, Skip, ~failed PROVE Received'
  BY UntilFailed DEF Skip, history
<1>1. /\ pc = "send" /\ pc' = "send" /\ at' = at + 1
      /\ UNCHANGED <<out_queue, reads, got, msg, targets, peer>>
  BY DEF Skip, Sending, buffers, kernel, history
<1>2. at \in Nat \ {0}
  BY OrderFacts DEF TypeOK
<1>3. \A j \in 1..at - 1 : j \in 1..(at + 1) - 1
  BY <1>2
<1>4. \A c \in Clients : got[c] = msg.id =>
        \E j \in 1..(at + 1) - 1 : targets[j] # m_fd /\ peer[targets[j]] = c
  BY <1>1, <1>3, OrderFacts DEF Received
<1>. QED
  BY <1>1, <1>4, OrderFacts DEF Received

LEMMA WriteReceived == OrderInv /\ Write => Received'
<1>. SUFFICES ASSUME OrderInv, Write, ~failed PROVE Received'
  BY UntilFailed DEF Write
<1>1. /\ pc = "send" /\ pc' = "send" /\ at' = at + 1 /\ failed' = failed
      /\ UNCHANGED <<out_queue, reads, msg, targets, peer>>
  BY DEF Write, WriteReady, Sending, buffers, kernel
<1>2. at \in 1..Len(targets) /\ targets[at] \in Fds /\ peer[targets[at]] \in Clients
  BY OrderFacts, TargetOpen DEF Write, WriteReady
<1>3. PICK k \in Nat : k = at /\ k # 0
  BY OrderFacts DEF TypeOK
<1>4. PICK c \in Clients : c = peer[targets[k]]
  BY <1>2, <1>3
<1>5. \A d \in Clients : got'[d] = IF d = c THEN msg.id ELSE got[d]
  BY <1>3, <1>4, OrderFacts DEF Write, TypeOK
<1>6. /\ msg.id \in Nat /\ msg.id <= reads
      /\ \A i \in DOMAIN out_queue : msg.id < out_queue[i].id
  <2>1. msg.id \in Nat
    BY <1>1, Facts, HasMsg, OrderFacts
  <2>. QED
    BY <1>1, <2>1, OrderFacts DEF QueueInOrder
<1>7. /\ \A d \in Clients : got[d] <= reads /\ got[d] <= msg.id
      /\ \A d \in Clients, i \in DOMAIN out_queue : got[d] < out_queue[i].id
      /\ \A d \in Clients : got[d] = msg.id =>
           \E j \in 1..k - 1 : targets[j] # m_fd /\ peer[targets[j]] = d
      /\ \A i, j \in DOMAIN targets : i # j => targets[i] # targets[j]
  BY <1>1, <1>3, OrderFacts DEF Received
<1>8. /\ \A d \in Clients : got'[d] <= reads /\ got'[d] <= msg.id
      /\ \A d \in Clients, i \in DOMAIN out_queue : got'[d] < out_queue[i].id
  <2>1. msg.id <= msg.id
    BY <1>6
  <2>. QED
    BY <1>5, <1>6, <1>7, <2>1
<1>9. ASSUME NEW d \in Clients, got'[d] = msg.id
      PROVE  \E j \in 1..(k + 1) - 1 : targets[j] # m_fd /\ peer[targets[j]] = d
  <2>1. k \in 1..(k + 1) - 1 /\ \A j \in 1..k - 1 : j \in 1..(k + 1) - 1
    BY <1>3
  <2>2. CASE d = c
    <3>1. targets[k] # m_fd /\ peer[targets[k]] = d
      BY <1>2, <1>3, <1>4, <2>2, Facts
    <3>. QED
      BY <2>1, <3>1
  <2>3. CASE d # c
    <3>1. got[d] = msg.id
      BY <1>5, <1>9, <2>3
    <3>. QED
      BY <1>7, <2>1, <3>1
  <2>. QED
    BY <2>2, <2>3
<1>. QED
  BY <1>1, <1>3, <1>7, <1>8, <1>9 DEF Received

\* Every step keeps the order of what was received.
LEMMA StepReceived == OrderInv /\ [Next]_vars => OrderInv'
<1>. SUFFICES ASSUME OrderInv, [Next]_vars PROVE Received'
  BY OrderFacts, StepOnce, StepInOrder DEF OrderInv, QueueInv
<1>1. CASE Subscribe
  BY <1>1, ReadReceived DEF Subscribe, Data, buffers
<1>2. CASE Share
  <2>1. /\ pc' = "post" /\ msg'.id = reads' /\ reads' = reads + 1
        /\ UNCHANGED <<out_queue, got, failed>>
    BY <1>2 DEF Share, Data
  <2>. QED
    BY <2>1, ReadReceived
<1>3. CASE Post
  BY <1>3, PostReceived
<1>4. CASE Pop
  BY <1>4, PopReceived
<1>5. CASE Skip
  BY <1>5, SkipReceived
<1>6. CASE Write
  BY <1>6, WriteReceived
<1>7. CASE \/ Poll \/ PollFails \/ HangUp \/ Accept \/ AcceptFails \/ ReadFails
           \/ NothingToSend \/ Filtered \/ Release \/ WriteKills
  <2>1. UNCHANGED <<out_queue, reads, got, failed>>
    BY <1>7 DEF Poll, PollFails, HangUp, Accept, AcceptFails, ReadFails, NothingToSend,
                Filtered, Release, WriteKills, buffers, history
  <2>2. pc' \notin {"post", "send"}
    BY <1>7 DEF Poll, PollFails, HangUp, Accept, AcceptFails, ReadFails, NothingToSend,
                Filtered, Release, WriteKills, Continue, Break
  <2>. QED
    BY <2>1, <2>2, OrderFacts, ReceivedFrame
<1>8. CASE WriteFails
  BY <1>8, OrderFacts, ReceivedFrame DEF WriteFails
<1>9. CASE Client \/ UNCHANGED vars
  <2>1. UNCHANGED <<out_queue, reads, got, failed, pc, msg, at, targets, peer>>
    BY <1>9 DEF Client, buffers, history, loop, kernel, vars
  <2>. QED
    BY <2>1, OrderFacts, ReceivedFrame
<1>. QED
  BY <1>1, <1>2, <1>3, <1>4, <1>5, <1>6, <1>7, <1>8, <1>9, Zenon DEF Next, Server

\* Until a write of a broadcast fails each client gets the messages in the order
\* they were read in, none twice.
THEOREM ReceivedInOrder == Spec => []OnceInOrder
<1>1. Init => OrderInv
  <2>. SUFFICES ASSUME Init PROVE OrderInv
    OBVIOUS
  <2>1. DOMAIN out_queue = {} /\ pc = "poll" /\ reads = 0
    BY DEF Init
  <2>2. \A c \in Clients : got[c] <= reads
    BY DEF Init
  <2>3. QueueInOrder /\ Received
    BY <2>1, <2>2 DEF QueueInOrder, Received
  <2>. QED
    BY <2>3, InitShape, InitOnce DEF OrderInv, OnceInv
<1>2. ASSUME OrderInv PROVE OnceInOrder
  <2>. SUFFICES ASSUME ~failed, WriteReady PROVE got[peer[targets[at]]] < msg.id
    BY DEF OnceInOrder
  <2>1. /\ pc = "send" /\ at \in 1..Len(targets) /\ targets[at] \in Fds
        /\ peer[targets[at]] \in Clients
    BY <1>2, OrderFacts, TargetOpen DEF WriteReady, Sending
  <2>2. PICK c \in Clients : c = peer[targets[at]]
    BY <2>1
  <2>3. got[c] \in Nat /\ msg.id \in Nat /\ got[c] <= msg.id
    <3>1. got[c] \in Nat
      BY <1>2, OrderFacts, QueueFacts
    <3>2. msg.id \in Nat
      BY <1>2, <2>1, OrderFacts, HasMsg, Facts
    <3>3. got[c] <= msg.id
      BY <1>2, <2>1, OrderFacts DEF Received
    <3>. QED
      BY <3>1, <3>2, <3>3
  <2>4. ASSUME got[c] = msg.id PROVE FALSE
    <3>1. PICK j \in 1..at - 1 : targets[j] # m_fd /\ peer[targets[j]] = c
      BY <1>2, <2>1, <2>4, OrderFacts DEF Received
    <3>2. /\ DOMAIN targets = 1..Len(targets) /\ Len(targets) \in Nat
          /\ \A i \in 1..Len(targets) : targets[i] \in Fds \cup {m_fd}
      BY <1>2, OrderFacts DEF TypeOK
    <3>3. j \in 1..Len(targets) /\ j # at
      BY <2>1, <3>1, <3>2
    <3>4. targets[j] \in Fds /\ targets[j] # targets[at]
      BY <1>2, <2>1, <3>1, <3>2, <3>3, OrderFacts DEF Received
    <3>5. c = NoClient
      BY <1>2, <2>1, <2>2, <3>1, <3>4, OrderFacts DEF ShapeInv, Peers
    <3>. QED
      BY <3>5, Facts
  <2>. QED
    BY <2>2, <2>3, <2>4
<1>. QED
  BY <1>1, <1>2, StepReceived, PTL DEF Spec

(***************************************************************************)
(* What the thread waits for.                                              *)
(***************************************************************************)

DrainInv == ShapeInv /\ Drained

\* Whoever is readable is writable: what Drained says of one element.
Writable(p) == p.fd # m_fd /\ "in" \in p.revents => "out" \in p.revents

\* Drained says of every element that it is writable if it is readable.
LEMMA DrainedWritable == Drained => \A i \in DOMAIN pollfds : Writable(pollfds[i])
BY DEF Drained, Writable

\* The loop does not wait in the handler, and the queue is empty.
LEMMA DrainedAgain ==
  ASSUME slow' = {}, \A i \in DOMAIN pollfds' : Writable(pollfds'[i]),
         Len(out_queue') <= 0, pc' \notin {"out", "post"}
  PROVE  Drained'
BY DEF Drained, Writable

\* Erasing an element leaves the others as they were.
LEMMA EraseDrained ==
  ASSUME TypeOK, Vector, Drained, it \in 2..Len(pollfds),
         pollfds' = RemoveAt(pollfds, it)
  PROVE  \A i \in DOMAIN pollfds' : Writable(pollfds'[i])
<1>1. PICK n \in Nat : n = Len(pollfds) /\ DOMAIN pollfds = 1..n /\ it \in 1..n
  <2>1. Len(pollfds) \in Nat /\ DOMAIN pollfds = 1..Len(pollfds)
    BY Elements
  <2>2. it \in 1..Len(pollfds)
    BY <2>1
  <2>. QED
    BY <2>1, <2>2
<1>2. /\ DOMAIN pollfds' = 1..n - 1
      /\ \A i \in 1..n - 1 : pollfds'[i] = IF i < it THEN pollfds[i] ELSE pollfds[i + 1]
  <2>1. pollfds \in Seq(Pollfd) /\ it \in 1..Len(pollfds)
    BY <1>1 DEF TypeOK
  <2>2. /\ pollfds' \in Seq(Pollfd) /\ Len(pollfds') = Len(pollfds) - 1
        /\ \A i \in 1..Len(pollfds) - 1 :
             pollfds'[i] = IF i < it THEN pollfds[i] ELSE pollfds[i + 1]
    BY <2>1, Removed
  <2>3. DOMAIN pollfds' = 1..Len(pollfds')
    BY <2>2
  <2>. QED
    BY <1>1, <2>2, <2>3
<1>3. \A i \in 1..n - 1 : i \in 1..n /\ i + 1 \in 1..n
  BY <1>1
<1>. QED
  BY <1>1, <1>2, <1>3, DrainedWritable

\* Nor does dropping the last element.
LEMMA FrontDrained ==
  ASSUME TypeOK, Vector, Drained, pollfds' = Front(pollfds)
  PROVE  \A i \in DOMAIN pollfds' : Writable(pollfds'[i])
<1>1. PICK n \in Nat : n = Len(pollfds) /\ DOMAIN pollfds = 1..n
  BY Elements
<1>2. /\ DOMAIN pollfds' = 1..n - 1
      /\ \A i \in 1..n - 1 : pollfds'[i] = pollfds[i]
  <2>1. pollfds \in Seq(Pollfd) /\ pollfds # <<>>
    BY DEF TypeOK, Vector
  <2>2. /\ pollfds' \in Seq(Pollfd) /\ Len(pollfds') = Len(pollfds) - 1
        /\ \A i \in 1..Len(pollfds) - 1 : pollfds'[i] = pollfds[i]
    BY <2>1, FrontOf
  <2>3. DOMAIN pollfds' = 1..Len(pollfds')
    BY <2>2
  <2>. QED
    BY <1>1, <2>2, <2>3
<1>3. \A i \in 1..n - 1 : i \in 1..n
  BY <1>1
<1>. QED
  BY <1>1, <1>2, <1>3, DrainedWritable

\* ::poll finds every client writable who is not slow, and none is.
LEMMA PollDrained == DrainInv /\ Poll => Drained'
<1>. SUFFICES ASSUME DrainInv, Poll PROVE Drained'
  OBVIOUS
<1>1. PICK talking \in SUBSET Clients :
        /\ pollfds' \in Seq(Pollfd) /\ Len(pollfds') = Len(pollfds)
        /\ \A i \in 1..Len(pollfds) :
             /\ pollfds'[i].fd = pollfds[i].fd
             /\ pollfds'[i].revents = Revents(pollfds[i].fd, talking)
  BY Polled DEF DrainInv, ShapeInv
<1>2. slow = {} /\ slow' = {}
  BY DEF DrainInv, Drained, Poll, kernel
<1>3. \A fd : fd # m_fd /\ "in" \in Revents(fd, talking) => "out" \in Revents(fd, talking)
  <2>1. SUFFICES ASSUME NEW fd, fd # m_fd, "in" \in Revents(fd, talking)
                 PROVE  "out" \in Revents(fd, talking)
    OBVIOUS
  <2>2. CASE LinkOf(fd) \in {"rst", "pipe"}
    <3>1. LinkOf(fd) \notin {"up", "fin"}
      BY <2>2
    <3>2. Revents(fd, talking) = {"hup"}
      BY <2>1, <2>2, <3>1 DEF Revents
    <3>. QED
      BY <2>1, <3>2
  <2>3. CASE LinkOf(fd) \in {"up", "fin"}
    <3>1. LinkOf(fd) \notin {"rst", "pipe"}
      BY <2>3
    <3>2. Revents(fd, talking)
            = {e \in {"in", "out"} :
                \/ e = "in"  /\ (LinkOf(fd) = "fin" \/ peer[fd] \in talking)
                \/ e = "out" /\ peer[fd] \notin slow}
      BY <2>1, <2>3, <3>1 DEF Revents
    <3>. QED
      BY <1>2, <3>2
  <2>4. CASE LinkOf(fd) \notin {"rst", "pipe", "up", "fin"}
    <3>1. Revents(fd, talking) = {}
      BY <2>1, <2>4 DEF Revents
    <3>. QED
      BY <2>1, <3>1
  <2>. QED
    BY <2>2, <2>3, <2>4
<1>4. \A i \in DOMAIN pollfds' : Writable(pollfds'[i])
  <2>1. DOMAIN pollfds' = 1..Len(pollfds)
    BY <1>1
  <2>. QED
    BY <1>1, <1>3, <2>1 DEF Writable
<1>5. pc' = "scan" /\ Len(out_queue') <= 0
  BY DEF DrainInv, Drained, Poll, buffers
<1>. QED
  BY <1>2, <1>4, <1>5, DrainedAgain

\* Whoever is read from has turned up as writable too.
LEMMA DataDrained ==
  ASSUME DrainInv, Data, UNCHANGED <<it, pollfds, slow, out_queue>>,
         pc' \in {"out", "post"}
  PROVE  Drained'
<1>1. it \in 2..Len(pollfds) /\ DOMAIN pollfds = 1..Len(pollfds)
  BY DataFromClient, Elements DEF DrainInv, ShapeInv, Data
<1>2. it \in DOMAIN pollfds /\ it >= 2
  BY <1>1
<1>3. {"in", "out"} \subseteq It.revents
  BY <1>2 DEF DrainInv, Drained, Data, Readable, It
<1>4. It' = It
  BY DEF It
<1>5. pc = "scan" /\ slow = {}
  BY DEF Data, Readable, DrainInv, Drained
<1>6. Len(out_queue) <= 0 /\ Len(out_queue) \in Nat
  BY <1>5 DEF DrainInv, Drained, ShapeInv, TypeOK
<1>7. Len(out_queue') <= (IF pc' = "out" THEN 1 ELSE 0)
  BY <1>6
<1>8. \A i \in DOMAIN pollfds' :
        pollfds'[i].fd # m_fd /\ "in" \in pollfds'[i].revents
          => "out" \in pollfds'[i].revents
  BY DEF DrainInv, Drained
<1>. QED
  BY <1>2, <1>3, <1>4, <1>5, <1>7, <1>8, Zenon DEF Drained

LEMMA PostDrained == DrainInv /\ Post => Drained'
<1>. SUFFICES ASSUME DrainInv, Post PROVE Drained'
  OBVIOUS
<1>1. Len(out_queue') <= 1
  <2>1. msg \in Msg /\ out_queue \in Seq(Msg)
    BY HasMsg DEF DrainInv, ShapeInv, TypeOK, Post
  <2>2. Len(out_queue) \in Nat /\ Len(out_queue') = Len(out_queue) + 1
    BY <2>1, PushBack DEF Post
  <2>3. Len(out_queue) <= 0
    BY DEF DrainInv, Drained, Post
  <2>. QED
    BY <2>2, <2>3
<1>2. pc' = "out" /\ pc = "post" /\ UNCHANGED <<it, pollfds, slow>>
  BY DEF Post, kernel
<1>3. It' = It
  BY <1>2 DEF It
<1>. QED
  BY <1>1, <1>2, <1>3 DEF DrainInv, Drained

\* The turn of POLLOUT empties the queue.
LEMMA TurnDrained == DrainInv /\ (NothingToSend \/ Pop) => Drained'
<1>. SUFFICES ASSUME DrainInv, NothingToSend \/ Pop PROVE Drained'
  OBVIOUS
<1>1. slow' = {} /\ pollfds' = pollfds /\ pc' \notin {"out", "post"}
  BY DEF DrainInv, Drained, NothingToSend, Pop, kernel, Continue, Break
<1>2. Len(out_queue') <= 0
  <2>1. Len(out_queue) \in Nat /\ Len(out_queue) <= 1 /\ out_queue \in Seq(Msg)
    BY DEF DrainInv, Drained, ShapeInv, TypeOK
  <2>2. CASE NothingToSend
    <3>1. CASE pc = "out"
      <4>1. out_queue = <<>>
        BY <2>2, <3>1 DEF DrainInv, Drained, NothingToSend
      <4>. QED
        BY <2>2, <4>1 DEF NothingToSend, buffers
    <3>2. CASE pc # "out"
      BY <2>2, <3>2 DEF DrainInv, Drained, NothingToSend, buffers
    <3>. QED
      BY <3>1, <3>2
  <2>3. CASE Pop
    <3>1. out_queue # <<>> /\ out_queue' = Tail(out_queue)
      BY <2>3 DEF Pop
    <3>2. Len(Tail(out_queue)) = Len(out_queue) - 1
      BY <2>1, <3>1, HeadTailProperties
    <3>. QED
      BY <2>1, <3>1, <3>2
  <2>. QED
    BY <2>2, <2>3
<1>3. \A i \in DOMAIN pollfds' : Writable(pollfds'[i])
  BY <1>1, DrainedWritable DEF DrainInv
<1>. QED
  BY <1>1, <1>2, <1>3, DrainedAgain

\* The actions that change m_pollfds.
LEMMA EraseStepDrained == DrainInv /\ (HangUp \/ ReadFails \/ WriteFails) => Drained'
<1>. SUFFICES ASSUME DrainInv, HangUp \/ ReadFails \/ WriteFails PROVE Drained'
  OBVIOUS
<1>1. slow' = {} /\ out_queue' = out_queue
  BY DEF DrainInv, Drained, HangUp, ReadFails, WriteFails, CloseFd, buffers
<1>2. pc \in {"scan", "send"} /\ pc' \in {"poll", "send", "dead"}
  BY DEF HangUp, ReadFails, WriteFails, Break, Readable, Sending, Erase
<1>3. Len(out_queue') <= 0
  BY <1>1, <1>2 DEF DrainInv, Drained
<1>4. \A i \in DOMAIN pollfds' : Writable(pollfds'[i])
  <2>1. CASE HangUp
    BY <2>1, HungUpClient, EraseDrained DEF HangUp, DrainInv, ShapeInv
  <2>2. CASE ReadFails
    BY <2>2, DataFromClient, EraseDrained DEF ReadFails, DrainInv, ShapeInv
  <2>3. CASE WriteFails
    <3>1. \/ it \in 2..Len(pollfds) /\ pollfds' = RemoveAt(pollfds, it)
          \/ pollfds' = Front(pollfds)
      BY <2>3, Erased DEF DrainInv
    <3>. QED
      BY <3>1, EraseDrained, FrontDrained DEF DrainInv, ShapeInv
  <2>. QED
    BY <2>1, <2>2, <2>3
<1>. QED
  BY <1>1, <1>2, <1>3, <1>4, DrainedAgain

LEMMA AcceptDrained == DrainInv /\ Accept => Drained'
<1>. SUFFICES ASSUME DrainInv, Accept PROVE Drained'
  OBVIOUS
<1>1. PICK c \in Clients, fd \in Fds :
        pollfds' = Append(pollfds, [fd |-> fd, revents |-> {}])
  BY Accepted DEF DrainInv
<1>2. PICK n \in Nat : n = Len(pollfds) /\ DOMAIN pollfds = 1..n
  BY Elements DEF DrainInv, ShapeInv
<1>3. /\ DOMAIN pollfds' = 1..n + 1
      /\ \A i \in 1..n : pollfds'[i] = pollfds[i]
      /\ pollfds'[n + 1].revents = {}
  <2>1. [fd |-> fd, revents |-> {}] \in Pollfd
    BY DEF Pollfd
  <2>2. pollfds \in Seq(Pollfd)
    BY DEF DrainInv, ShapeInv, TypeOK
  <2>. QED
    BY <1>1, <1>2, <2>1, <2>2, PushBack
<1>4. \A i \in 1..n + 1 : i = n + 1 \/ i \in 1..n
  BY <1>2
<1>5. \A i \in DOMAIN pollfds' : Writable(pollfds'[i])
  <2>1. \A i \in 1..n : Writable(pollfds'[i])
    BY <1>2, <1>3, DrainedWritable DEF DrainInv
  <2>2. Writable(pollfds'[n + 1])
    BY <1>3 DEF Writable
  <2>. QED
    BY <1>3, <1>4, <2>1, <2>2
<1>6. /\ slow' = {} /\ out_queue' = out_queue /\ pc = "scan" /\ pc' = "poll"
  BY DEF DrainInv, Drained, Accept, Readable, Break, buffers
<1>7. Len(out_queue') <= 0
  BY <1>6 DEF DrainInv, Drained
<1>. QED
  BY <1>5, <1>6, <1>7, DrainedAgain

\* Nothing but the client's own choice makes a client slow.
LEMMA StepDrained == ~Slow /\ DrainInv /\ [Next]_vars => DrainInv'
<1>. SUFFICES ASSUME ~Slow, DrainInv, [Next]_vars PROVE Drained'
  BY StepShape DEF DrainInv
<1>1. CASE Poll
  BY <1>1, PollDrained
<1>2. CASE Subscribe \/ Share
  BY <1>2, DataDrained DEF Subscribe, Share, buffers, kernel
<1>3. CASE Post
  BY <1>3, PostDrained
<1>4. CASE NothingToSend \/ Pop
  BY <1>4, TurnDrained
<1>5. CASE HangUp \/ ReadFails \/ WriteFails
  BY <1>5, EraseStepDrained
<1>6. CASE Accept
  BY <1>6, AcceptDrained
<1>7. CASE PollFails \/ AcceptFails \/ Skip \/ Filtered \/ Write \/ WriteKills \/ Release
  <2>1. UNCHANGED <<pollfds, slow, out_queue>>
    BY <1>7 DEF PollFails, AcceptFails, Skip, Filtered, Write, WriteKills, Release, buffers,
                kernel
  <2>2. pc # "out" /\ pc' \notin {"out", "post"}
    BY <1>7 DEF PollFails, AcceptFails, Skip, Filtered, Write, WriteKills, Release, Readable,
                WriteReady, Sending, Continue, Break
  <2>3. Len(out_queue) <= 0 /\ slow' = {}
    BY <2>1, <2>2 DEF DrainInv, Drained
  <2>4. \A i \in DOMAIN pollfds' : Writable(pollfds'[i])
    BY <2>1, DrainedWritable DEF DrainInv
  <2>. QED
    BY <2>1, <2>2, <2>3, <2>4, DrainedAgain
<1>8. CASE Client \/ UNCHANGED vars
  <2>1. UNCHANGED <<pollfds, it, slow, out_queue, pc>>
    BY <1>8 DEF Client, Clog, loop, buffers, kernel, vars
  <2>2. It' = It
    BY <2>1 DEF It
  <2>. QED
    BY <2>1, <2>2 DEF DrainInv, Drained
<1>. QED
  BY <1>1, <1>2, <1>3, <1>4, <1>5, <1>6, <1>7, <1>8, Zenon DEF Next, Server

\* Where no client stops reading, on_read's post never waits for the thread it
\* runs in: whoever sends is writable, so the message is taken out again before
\* the next client is heard.
THEOREM PostNeverWaits ==
  ASSUME ~Slow
  PROVE  Spec => []NeverWaitsForItself
<1>1. Init => DrainInv
  <2>. SUFFICES ASSUME Init PROVE Drained
    BY InitShape DEF DrainInv
  <2>1. DOMAIN pollfds = {1} /\ pollfds[1].revents = {} /\ slow = {} /\ pc = "poll"
    BY DEF Init
  <2>2. Len(out_queue) <= 0
    BY DEF Init
  <2>. QED
    BY <2>1, <2>2 DEF Drained
<1>2. DrainInv /\ [Next]_vars => DrainInv'
  BY StepDrained
<1>3. DrainInv => NeverWaitsForItself
  <2>. SUFFICES ASSUME DrainInv, pc = "post" PROVE Len(out_queue) < OutSize
    BY DEF NeverWaitsForItself
  <2>1. Len(out_queue) <= 0 /\ Len(out_queue) \in Nat
    BY DEF DrainInv, Drained, ShapeInv, TypeOK
  <2>. QED
    BY <2>1, Facts
<1>. QED
  BY <1>1, <1>2, <1>3, PTL DEF Spec
=============================================================================
