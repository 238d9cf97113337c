---------------------------- MODULE TcpServerProofs ----------------------------
(***************************************************************************)
(* Theorems about TcpServer for every number of clients, descriptors,      *)
(* buffers and queue slots.                                                *)
(***************************************************************************)
EXTENDS TcpServer, QueueLemmas

(***************************************************************************)
(* The invariant: m_pollfds, and where the two loops are in it.            *)
(***************************************************************************)

\* The listening socket is first, and never hangs up or is written to; the
\* other elements are descriptors that accept() has returned.
Vector ==
  /\ pollfds # <<>> /\ pollfds[1].fd = m_fd /\ pollfds[1].revents \subseteq {"in"}
  /\ \A i \in 2..Len(pollfds) : pollfds[i].fd \in Fds

\* The inner loop points into m_pollfds, but for the send loop, which may have
\* erased elements under it.
Iteration ==
  /\ it <= Len(pollfds) \/ pc \in {"poll", "send", "done", "dead"}
  /\ pc = "send" => 2 <= it

\* The send loop walks over a copy of the descriptors as they were; it has left
\* the first one behind before it erases, and it erases one at most for each
\* one it leaves behind.
SendLoop ==
  pc = "send" =>
    /\ at = 1 => it <= Len(pollfds)
    /\ msg.fd = 0 =>
         /\ targets # <<>> /\ targets[1] = m_fd
         /\ Len(pollfds) <= Len(targets)
         /\ Len(targets) + (IF at = 1 THEN 1 ELSE 2) <= Len(pollfds) + at
    /\ msg.fd # 0 => Len(targets) = 1

\* A client is accepted once: m_pollfds has no more elements than clients ever
\* came.
Arrived == {c \in Clients : link[c] \notin {"idle", "waiting"}}

Arrivals ==
  /\ Len(pollfds) <= Cardinality(Arrived) + 1
  /\ it <= Cardinality(Clients) + 1

\* A descriptor belongs to at most one connection, which is not closed.
Peers ==
  /\ \A fd \in Fds : peer[fd] # NoClient
       => link[peer[fd]] \in {"up", "fin", "rst", "pipe"}
  /\ \A f, g \in Fds : f # g /\ peer[f] = peer[g] => peer[f] = NoClient

ShapeInv == TypeOK /\ Vector /\ Iteration /\ SendLoop /\ Arrivals /\ Peers

(***************************************************************************)
(* What the invariant says about the elements.                             *)
(***************************************************************************)

\* What the assumption on the constants gives.
LEMMA Facts ==
  /\ m_fd \notin Fds /\ 0 \notin Fds /\ m_fd # 0 /\ NoClient \notin Clients
  /\ Fds \subseteq Nat /\ NoBuf \notin Bufs
  /\ MaxReads \in Nat /\ OutSize \in Nat \ {0}
  /\ IsFiniteSet(Clients) /\ Cardinality(Clients) \in Nat
  /\ Targets \subseteq {"all", "sender"}
BY FS_CardinalityType, ServerAssumption DEF ServerAssumption

\* The absent message is no message.
LEMMA NoMsgIsNone == NoMsg \notin Msg
BY Facts DEF NoMsg, Msg

\* The listening socket is element 1, every other one is a connection's.
LEMMA Elements ==
  ASSUME TypeOK, Vector
  PROVE  /\ Len(pollfds) \in Nat \ {0} /\ DOMAIN pollfds = 1..Len(pollfds)
         /\ it \in Nat \ {0}
         /\ \A i \in 1..Len(pollfds) :
              /\ pollfds[i] \in Pollfd /\ pollfds[i].fd \in Fds \cup {m_fd}
              /\ pollfds[i].revents \subseteq {"in", "out", "hup"}
              /\ pollfds[i].fd # m_fd => pollfds[i].fd \in Fds
              /\ pollfds[i].fd # m_fd <=> i # 1
<1>1. Len(pollfds) \in Nat \ {0} /\ DOMAIN pollfds = 1..Len(pollfds)
  BY EmptySeq DEF TypeOK, Vector
<1>2. it \in Nat \ {0}
  BY Facts DEF TypeOK
<1>3. \A i \in 1..Len(pollfds) : pollfds[i] \in Pollfd
  BY <1>1 DEF TypeOK
<1>4. \A i \in 1..Len(pollfds) : i = 1 \/ i \in 2..Len(pollfds)
  BY <1>1
<1>. QED
  BY <1>1, <1>2, <1>3, <1>4, Facts DEF Vector, Pollfd

\* The clients who came are clients.
LEMMA ArrivedBound ==
  /\ IsFiniteSet(Arrived) /\ Cardinality(Arrived) \in Nat
  /\ Cardinality(Arrived) <= Cardinality(Clients)
<1>1. Arrived \subseteq Clients
  BY DEF Arrived
<1>. QED
  BY <1>1, Facts, FS_Subset, FS_CardinalityType

\* Who came, came.
LEMMA ArrivedGrows ==
  ASSUME \A c \in Clients : link[c] \notin {"idle", "waiting"}
                              => link'[c] \notin {"idle", "waiting"}
  PROVE  /\ Cardinality(Arrived)' \in Nat
         /\ Cardinality(Arrived) <= Cardinality(Arrived)'
<1>1. Arrived \subseteq Arrived' /\ Arrived' \subseteq Clients
  BY DEF Arrived
<1>2. IsFiniteSet(Arrived')
  BY <1>1, Facts, FS_Subset
<1>. QED
  BY <1>1, <1>2, FS_Subset, FS_CardinalityType

(***************************************************************************)
(* What the kernel does.                                                   *)
(***************************************************************************)

\* ::close.
LEMMA Closed ==
  ASSUME TypeOK, Peers, NEW fd \in Fds, CloseFd(fd)
  PROVE  /\ peer' \in [Fds -> Clients \cup {NoClient}] /\ link' \in [Clients -> Links]
         /\ slow' \in SUBSET Clients
         /\ Peers'
         /\ peer'[fd] = NoClient /\ \A f \in Fds \ {fd} : peer'[f] = peer[f]
         /\ \A c \in Clients : link[c] \notin {"idle", "waiting"}
                                => link'[c] \notin {"idle", "waiting"}
<1>. USE DEF CloseFd, TypeOK
<1>1. /\ peer' \in [Fds -> Clients \cup {NoClient}] /\ link' \in [Clients -> Links]
      /\ slow' \in SUBSET Clients
  BY DEF Links
<1>2. peer'[fd] = NoClient /\ \A f \in Fds \ {fd} : peer'[f] = peer[f]
  OBVIOUS
<1>3. Peers'
  <2>1. ASSUME NEW f \in Fds, peer'[f] # NoClient
        PROVE  link'[peer'[f]] \in {"up", "fin", "rst", "pipe"}
    <3>1. f # fd /\ peer'[f] = peer[f] /\ peer[f] \in Clients /\ peer[f] # peer[fd]
      BY <1>2, <2>1 DEF Peers
    <3>2. link'[peer[f]] = link[peer[f]]
      BY <3>1
    <3>. QED
      BY <2>1, <3>1, <3>2 DEF Peers
  <2>2. \A f, g \in Fds : f # g /\ peer'[f] = peer'[g] => peer'[f] = NoClient
    BY <1>2 DEF Peers
  <2>. QED
    BY <2>1, <2>2 DEF Peers
<1>4. \A c \in Clients : link[c] \notin {"idle", "waiting"}
                         => link'[c] \notin {"idle", "waiting"}
  OBVIOUS
<1>. QED
  BY <1>1, <1>2, <1>3, <1>4

\* ::poll reports for the listening socket that it is readable, or nothing.
LEMMA ReventsType ==
  ASSUME NEW fd, NEW talking
  PROVE  /\ Revents(fd, talking) \subseteq {"in", "out", "hup"}
         /\ fd = m_fd => Revents(fd, talking) \subseteq {"in"}
BY DEF Revents

(***************************************************************************)
(* Where the loop goes on, and what stays as it is.                        *)
(***************************************************************************)

\* The increment of the inner loop stays in m_pollfds or ends it.
LEMMA Continues ==
  ASSUME TypeOK, Vector, Arrivals, Continue, UNCHANGED pollfds
  PROVE  /\ pc' \in {"scan", "poll"} /\ it' \in 1..Cardinality(Clients) + 2
         /\ it' <= Cardinality(Clients) + 1
         /\ Iteration' /\ SendLoop'
<1>1. /\ Len(pollfds) \in Nat \ {0} /\ it \in Nat \ {0}
      /\ Cardinality(Arrived) \in Nat /\ Cardinality(Clients) \in Nat
      /\ Len(pollfds) <= Cardinality(Arrived) + 1
      /\ Cardinality(Arrived) <= Cardinality(Clients)
  BY Elements, ArrivedBound, Facts DEF Arrivals
<1>2. CASE it < Len(pollfds)
  BY <1>1, <1>2 DEF Continue, Iteration, SendLoop
<1>3. CASE ~(it < Len(pollfds))
  BY <1>1, <1>3 DEF Continue, Break, Iteration, SendLoop
<1>. QED
  BY <1>2, <1>3

\* A step that changes no descriptor keeps what is said of them.
LEMMA ShapeFrame ==
  ASSUME Vector, Arrivals, Peers, UNCHANGED <<pollfds, peer, link>>,
         it' <= Cardinality(Clients) + 1
  PROVE  Vector' /\ Arrivals' /\ Peers'
BY DEF Vector, Arrivals, Arrived, Peers

(***************************************************************************)
(* The actions of run() and of the clients keep the invariant.             *)
(***************************************************************************)

LEMMA AcceptFailsShape == ShapeInv /\ AcceptFails => ShapeInv'
<1>. SUFFICES ASSUME ShapeInv, AcceptFails PROVE ShapeInv'
  OBVIOUS
<1>. USE DEF ShapeInv
<1>1. UNCHANGED <<pollfds, peer, link>> /\ Continue
  BY DEF AcceptFails, kernel
<1>2. /\ pc' \in {"scan", "poll"} /\ it' \in 1..Cardinality(Clients) + 2
      /\ it' <= Cardinality(Clients) + 1 /\ Iteration' /\ SendLoop'
  BY <1>1, Continues
<1>3. TypeOK'
  BY <1>2 DEF TypeOK, AcceptFails, Readable, kernel, buffers, history
<1>. QED
  BY <1>1, <1>2, <1>3, ShapeFrame

LEMMA NothingToSendShape == ShapeInv /\ NothingToSend => ShapeInv'
<1>. SUFFICES ASSUME ShapeInv, NothingToSend PROVE ShapeInv'
  OBVIOUS
<1>. USE DEF ShapeInv
<1>1. UNCHANGED <<pollfds, peer, link>> /\ Continue
  BY DEF NothingToSend, kernel
<1>2. /\ pc' \in {"scan", "poll"} /\ it' \in 1..Cardinality(Clients) + 2
      /\ it' <= Cardinality(Clients) + 1 /\ Iteration' /\ SendLoop'
  BY <1>1, Continues
<1>3. TypeOK'
  BY <1>2 DEF TypeOK, NothingToSend, Out, kernel, buffers, history
<1>. QED
  BY <1>1, <1>2, <1>3, ShapeFrame

\* The end of a send loop: the message is gone.
LEMMA SendLoopEnds ==
  ASSUME ShapeInv, pc = "send", Continue, msg' = NoMsg, targets' = <<>>, at' = 1,
         pool' \in SUBSET Bufs, lost' \in SUBSET Bufs,
         UNCHANGED <<pollfds, out_queue, active_clients, kernel, history>>
  PROVE  ShapeInv'
<1>. USE DEF ShapeInv
<1>1. UNCHANGED <<pollfds, peer, link>>
  BY DEF kernel
<1>2. /\ pc' \in {"scan", "poll"} /\ it' \in 1..Cardinality(Clients) + 2
      /\ it' <= Cardinality(Clients) + 1 /\ Iteration' /\ SendLoop'
  BY <1>1, Continues
<1>3. targets' \in Seq(Fds \cup {m_fd}) /\ at' \in 1..Len(targets') + 1
  OBVIOUS
<1>4. TypeOK'
  BY <1>2, <1>3 DEF TypeOK, kernel, history
<1>. QED
  BY <1>1, <1>2, <1>4, ShapeFrame

\* There is a message in the thread's hand while it posts or sends.
LEMMA HasMsg ==
  ASSUME TypeOK, pc \in {"post", "send", "dead"}
  PROVE  /\ msg \in Msg /\ msg.buf \in Bufs /\ msg.fd \in Fds \cup {0}
         /\ msg.id \in 1..MaxReads /\ msg # NoMsg
BY DEF TypeOK, Msg

LEMMA FilteredShape == ShapeInv /\ Filtered => ShapeInv'
<1>. SUFFICES ASSUME ShapeInv, Filtered PROVE ShapeInv'
  OBVIOUS
<1>1. pc = "send" /\ lost' \in SUBSET Bufs /\ pool' \in SUBSET Bufs
  BY HasMsg DEF ShapeInv, Filtered, Sending, TypeOK
<1>. QED
  BY <1>1, SendLoopEnds DEF Filtered

LEMMA ReleaseShape == ShapeInv /\ Release => ShapeInv'
<1>. SUFFICES ASSUME ShapeInv, Release PROVE ShapeInv'
  OBVIOUS
<1>1. pc = "send" /\ lost' \in SUBSET Bufs /\ pool' \in SUBSET Bufs
  BY HasMsg DEF ShapeInv, Release, TypeOK
<1>. QED
  BY <1>1, SendLoopEnds DEF Release

\* The element whose turn it is is not the listening socket once data has come.
LEMMA DataFromClient ==
  ASSUME TypeOK, Vector, Iteration, Readable, It.fd # m_fd
  PROVE  /\ it \in 2..Len(pollfds) /\ It.fd \in Fds
         /\ peer[It.fd] \in Clients \cup {NoClient}
<1>1. it \in 1..Len(pollfds)
  BY Elements DEF Readable, Iteration
<1>2. it # 1
  BY DEF Vector, It
<1>. QED
  BY <1>1, <1>2, Elements DEF It, TypeOK

LEMMA SubscribeShape == ShapeInv /\ Subscribe => ShapeInv'
<1>. SUFFICES ASSUME ShapeInv, Subscribe PROVE ShapeInv'
  OBVIOUS
<1>. USE DEF ShapeInv
<1>1. UNCHANGED <<pollfds, peer, link, it>>
  BY DEF Subscribe, kernel
<1>2. /\ it <= Len(pollfds) /\ It.fd \in Fds /\ peer[It.fd] \in Clients
      /\ reads' \in 0..MaxReads
  <2>1. it \in 2..Len(pollfds) /\ It.fd \in Fds /\ peer[It.fd] \in Clients \cup {NoClient}
    BY DataFromClient DEF Subscribe, Data
  <2>2. peer[It.fd] # NoClient
    BY DEF Subscribe, Data, LinkOf
  <2>3. reads' \in 0..MaxReads
    BY Facts DEF Subscribe, Data, TypeOK
  <2>. QED
    BY <2>1, <2>2, <2>3
<1>3. pc' = "out" /\ msg = NoMsg /\ msg' = NoMsg
  BY DEF Subscribe, Data, Readable, TypeOK
<1>4. active_clients' \in SUBSET Fds /\ asked' \in SUBSET Clients
  BY <1>2 DEF Subscribe, TypeOK
<1>5. TypeOK'
  BY <1>2, <1>3, <1>4 DEF TypeOK, Subscribe, kernel, buffers
<1>6. Iteration' /\ SendLoop'
  BY <1>1, <1>2, <1>3 DEF Iteration, SendLoop
<1>7. it' <= Cardinality(Clients) + 1
  BY <1>1 DEF Arrivals
<1>. QED
  BY <1>1, <1>5, <1>6, <1>7, ShapeFrame

LEMMA ShareShape == ShapeInv /\ Share => ShapeInv'
<1>. SUFFICES ASSUME ShapeInv, Share PROVE ShapeInv'
  OBVIOUS
<1>. USE DEF ShapeInv
<1>1. UNCHANGED <<pollfds, peer, link, it>>
  BY DEF Share, kernel
<1>2. it <= Len(pollfds) /\ It.fd \in Fds
  BY DataFromClient DEF Share, Data
<1>3. reads' \in 1..MaxReads
  BY Facts DEF Share, Data, TypeOK
<1>4. pc' = "post" /\ msg' \in Msg /\ pool' \in SUBSET Bufs
  <2>1. PICK b \in pool, target \in Targets :
          /\ pool' = pool \ {b}
          /\ msg' = [buf |-> b, fd |-> IF target = "all" THEN 0 ELSE It.fd,
                     id |-> reads']
    BY DEF Share
  <2>2. b \in Bufs /\ pool' \in SUBSET Bufs
    BY <2>1 DEF TypeOK
  <2>. QED
    BY <1>2, <1>3, <2>1, <2>2 DEF Share, Msg
<1>5. TypeOK'
  BY <1>3, <1>4, NoMsgIsNone DEF TypeOK, Share, kernel
<1>6. Iteration' /\ SendLoop'
  BY <1>1, <1>2, <1>4 DEF Iteration, SendLoop
<1>7. it' <= Cardinality(Clients) + 1
  BY <1>1 DEF Arrivals
<1>. QED
  BY <1>1, <1>5, <1>6, <1>7, ShapeFrame

LEMMA PostShape == ShapeInv /\ Post => ShapeInv'
<1>. SUFFICES ASSUME ShapeInv, Post PROVE ShapeInv'
  OBVIOUS
<1>. USE DEF ShapeInv
<1>1. UNCHANGED <<pollfds, peer, link, it>>
  BY DEF Post, kernel
<1>2. msg \in Msg
  BY HasMsg DEF Post
<1>3. out_queue' \in Seq(Msg) /\ Len(out_queue') <= OutSize
  <2>1. /\ Append(out_queue, msg) \in Seq(Msg) /\ Len(out_queue) \in Nat
        /\ Len(Append(out_queue, msg)) = Len(out_queue) + 1
    BY <1>2, PushBack DEF TypeOK
  <2>. QED
    BY <2>1, Facts DEF Post
<1>4. pc' = "out" /\ msg' = NoMsg
  BY DEF Post
<1>5. TypeOK'
  BY <1>3, <1>4 DEF TypeOK, Post, kernel, history
<1>6. Iteration' /\ SendLoop'
  BY <1>1, <1>4 DEF Iteration, SendLoop, Post
<1>7. it' <= Cardinality(Clients) + 1
  BY <1>1 DEF Arrivals
<1>. QED
  BY <1>1, <1>5, <1>6, <1>7, ShapeFrame

LEMMA PopShape == ShapeInv /\ Pop => ShapeInv'
<1>. SUFFICES ASSUME ShapeInv, Pop PROVE ShapeInv'
  OBVIOUS
<1>. USE DEF ShapeInv
<1>1. UNCHANGED <<pollfds, peer, link, it>>
  BY DEF Pop, kernel
<1>2. it \in 2..Len(pollfds)
  <2>1. it \in 1..Len(pollfds)
    BY Elements DEF Pop, Out, Iteration
  <2>2. it # 1
    BY DEF Pop, It, Vector
  <2>. QED
    BY <2>1, <2>2
<1>3. pc' = "send" /\ msg' \in Msg /\ out_queue' \in Seq(Msg) /\ Len(out_queue') <= OutSize
  <2>1. out_queue \in Seq(Msg) /\ out_queue # <<>> /\ Len(out_queue) \in Nat
    BY DEF Pop, TypeOK
  <2>2. /\ Tail(out_queue) \in Seq(Msg) /\ Head(out_queue) \in Msg
        /\ Len(Tail(out_queue)) = Len(out_queue) - 1
    BY <2>1, HeadTailProperties
  <2>. QED
    BY <2>1, <2>2, Facts DEF Pop, TypeOK
<1>4. /\ targets' \in Seq(Fds \cup {m_fd}) /\ Len(targets') \in Nat \ {0}
      /\ msg'.fd # 0 => Len(targets') = 1
      /\ msg'.fd = 0 => Len(targets') = Len(pollfds) /\ targets'[1] = m_fd
  <2>1. CASE msg'.fd = 0
    <3>1. targets' = [i \in 1..Len(pollfds) |-> pollfds[i].fd]
      BY <2>1, Elements DEF Pop
    <3>2. \A i \in 1..Len(pollfds) : pollfds[i].fd \in Fds \cup {m_fd}
      BY Elements
    <3>3. Len(pollfds) \in Nat \ {0}
      BY Elements
    <3>. QED
      BY <2>1, <3>1, <3>2, <3>3 DEF Vector
  <2>2. CASE msg'.fd # 0
    <3>1. msg'.fd \in Fds
      BY <1>3, <2>2 DEF Msg
    <3>2. targets' = <<msg'.fd>>
      BY <2>2 DEF Pop
    <3>. QED
      BY <2>2, <3>1, <3>2
  <2>. QED
    BY <2>1, <2>2
<1>5. TypeOK'
  <2>1. at' \in 1..Len(targets') + 1
    BY <1>4 DEF Pop
  <2>2. msg' \in Msg \cup {NoMsg} /\ (msg' # NoMsg <=> pc' \in {"post", "send", "dead"})
    BY <1>3, NoMsgIsNone
  <2>3. UNCHANGED <<it, pollfds, pool, lost, active_clients, kernel, history>>
    BY DEF Pop
  <2>. QED
    BY <1>3, <1>4, <2>1, <2>2, <2>3 DEF TypeOK, kernel, history
<1>6. Iteration'
  BY <1>1, <1>2, <1>3 DEF Iteration
<1>7. SendLoop'
  <2>1. Len(pollfds) \in Nat \ {0} /\ at' = 1 /\ it \in Nat
    BY Elements DEF Pop
  <2>2. targets' # <<>>
    BY <1>4, EmptySeq
  <2>. QED
    BY <1>1, <1>2, <1>4, <2>1, <2>2 DEF SendLoop
<1>8. it' <= Cardinality(Clients) + 1
  BY <1>1 DEF Arrivals
<1>. QED
  BY <1>1, <1>5, <1>6, <1>7, <1>8, ShapeFrame

\* The send loop passes on; the first element of a broadcast is not written to.
LEMMA SendPasses ==
  ASSUME ShapeInv, Sending, at' = at + 1,
         UNCHANGED <<pc, it, targets, msg, pollfds>>
  PROVE  at' \in 1..Len(targets') + 1 /\ Iteration' /\ SendLoop'
<1>. USE DEF ShapeInv
<1>1. /\ at \in Nat \ {0} /\ Len(targets) \in Nat /\ at <= Len(targets)
      /\ Len(pollfds) \in Nat \ {0} /\ it \in Nat
  BY Elements DEF TypeOK, Sending
<1>2. at' \in 1..Len(targets') + 1
  BY <1>1
<1>3. Iteration'
  BY DEF Iteration
<1>4. at' # 1 /\ pc = "send"
  BY <1>1 DEF Sending
<1>5. msg.fd = 0 => Len(targets) + 2 <= Len(pollfds) + (at + 1)
  BY <1>1, <1>4 DEF SendLoop
<1>6. SendLoop'
  BY <1>1, <1>4, <1>5 DEF SendLoop
<1>. QED
  BY <1>2, <1>3, <1>6

LEMMA SkipShape == ShapeInv /\ Skip => ShapeInv'
<1>. SUFFICES ASSUME ShapeInv, Skip PROVE ShapeInv'
  OBVIOUS
<1>1. at' \in 1..Len(targets') + 1 /\ Iteration' /\ SendLoop'
  BY SendPasses DEF Skip
<1>2. TypeOK'
  BY <1>1 DEF ShapeInv, TypeOK, Skip, kernel, buffers, history
<1>3. Vector' /\ Arrivals' /\ Peers'
  BY ShapeFrame DEF ShapeInv, Skip, kernel, Arrivals
<1>. QED
  BY <1>1, <1>2, <1>3 DEF ShapeInv

\* Behind a descriptor that is written to there is a client.
LEMMA TargetOpen ==
  ASSUME TypeOK, Sending, Receives(targets[at])
  PROVE  /\ at \in 1..Len(targets) /\ targets[at] \in Fds
         /\ peer[targets[at]] \in Clients \cup {NoClient}
         /\ LinkOf(targets[at]) # "closed" => peer[targets[at]] \in Clients
<1>1. at \in 1..Len(targets) /\ targets[at] \in Fds
  BY DEF TypeOK, Sending, Receives
<1>. QED
  BY <1>1 DEF TypeOK, LinkOf

LEMMA WriteShape == ShapeInv /\ Write => ShapeInv'
<1>. SUFFICES ASSUME ShapeInv, Write PROVE ShapeInv'
  OBVIOUS
<1>1. at' \in 1..Len(targets') + 1 /\ Iteration' /\ SendLoop'
  BY SendPasses DEF Write, WriteReady
<1>2. got' \in [Clients -> 0..MaxReads]
  <2>1. msg.id \in 0..MaxReads
    BY HasMsg, Facts DEF ShapeInv, Write, WriteReady, Sending
  <2>. QED
    BY <2>1 DEF ShapeInv, Write, TypeOK
<1>3. TypeOK'
  BY <1>1, <1>2 DEF ShapeInv, TypeOK, Write, kernel, buffers
<1>4. Vector' /\ Arrivals' /\ Peers'
  BY ShapeFrame DEF ShapeInv, Write, kernel, Arrivals
<1>. QED
  BY <1>1, <1>3, <1>4 DEF ShapeInv

LEMMA WriteKillsShape == ShapeInv /\ WriteKills => ShapeInv'
<1>. SUFFICES ASSUME ShapeInv, WriteKills PROVE ShapeInv'
  OBVIOUS
<1>1. TypeOK'
  BY DEF ShapeInv, TypeOK, WriteKills, Sending, kernel, buffers, history
<1>2. Iteration' /\ SendLoop'
  BY DEF WriteKills, Iteration, SendLoop
<1>3. Vector' /\ Arrivals' /\ Peers'
  BY ShapeFrame DEF ShapeInv, WriteKills, kernel, Arrivals
<1>. QED
  BY <1>1, <1>2, <1>3 DEF ShapeInv

LEMMA PollFailsShape == ShapeInv /\ PollFails => ShapeInv'
<1>. SUFFICES ASSUME ShapeInv, PollFails PROVE ShapeInv'
  OBVIOUS
<1>1. TypeOK'
  BY DEF ShapeInv, TypeOK, PollFails, kernel, buffers, history
<1>2. Iteration' /\ SendLoop'
  BY DEF PollFails, Iteration, SendLoop
<1>3. Vector' /\ Arrivals' /\ Peers'
  BY ShapeFrame DEF ShapeInv, PollFails, kernel, Arrivals
<1>. QED
  BY <1>1, <1>2, <1>3 DEF ShapeInv

\* The element whose turn it is is erased, which is a client's.
LEMMA ElementErased ==
  ASSUME TypeOK, Vector, Arrivals, it \in 2..Len(pollfds),
         pollfds' = RemoveAt(pollfds, it),
         \A c \in Clients : link[c] \notin {"idle", "waiting"}
                               => link'[c] \notin {"idle", "waiting"}
  PROVE  /\ pollfds' \in Seq(Pollfd) /\ Vector'
         /\ Len(pollfds') = Len(pollfds) - 1
         /\ Len(pollfds') <= Cardinality(Arrived)' + 1
         /\ \A i \in 1..Len(pollfds) - 1 :
              pollfds'[i] = IF i < it THEN pollfds[i] ELSE pollfds[i + 1]
<1>1. /\ pollfds' \in Seq(Pollfd) /\ Len(pollfds') = Len(pollfds) - 1
      /\ \A i \in 1..Len(pollfds) - 1 :
           pollfds'[i] = IF i < it THEN pollfds[i] ELSE pollfds[i + 1]
  <2>1. it \in 1..Len(pollfds)
    BY Elements
  <2>2. pollfds \in Seq(Pollfd)
    BY DEF TypeOK
  <2>. QED
    BY <2>1, <2>2, Removed
<1>2. Len(pollfds) \in Nat /\ Len(pollfds) >= 2 /\ it \in Nat /\ it >= 2
  BY Elements
<1>3. Vector'
  <2>1. pollfds' # <<>>
    BY <1>1, <1>2, EmptySeq
  <2>2. pollfds'[1] = pollfds[1]
    BY <1>1, <1>2
  <2>3. \A i \in 2..Len(pollfds) - 1 : pollfds'[i] \in {pollfds[i], pollfds[i + 1]}
    BY <1>1, <1>2
  <2>4. \A i \in 2..Len(pollfds) - 1 : pollfds[i].fd \in Fds /\ pollfds[i + 1].fd \in Fds
    BY <1>2 DEF Vector
  <2>5. \A i \in 2..Len(pollfds') : pollfds'[i].fd \in Fds
    BY <1>1, <2>3, <2>4
  <2>. QED
    BY <2>1, <2>2, <2>5 DEF Vector
<1>4. Len(pollfds') <= Cardinality(Arrived)' + 1
  <2>1. Cardinality(Arrived)' \in Nat /\ Cardinality(Arrived) <= Cardinality(Arrived)'
    BY ArrivedGrows
  <2>2. Cardinality(Arrived) \in Nat /\ Len(pollfds) <= Cardinality(Arrived) + 1
    BY ArrivedBound DEF Arrivals
  <2>. QED
    BY <1>1, <1>2, <2>1, <2>2
<1>. QED
  BY <1>1, <1>3, <1>4

\* A client is dropped because it hung up or has finished.
LEMMA Drops ==
  ASSUME ShapeInv, pc = "scan", it \in 2..Len(pollfds), CloseFd(It.fd),
         pollfds' = RemoveAt(pollfds, it), Break,
         active_clients' \in SUBSET Fds,
         UNCHANGED <<targets, at, msg, buffers, history>>
  PROVE  ShapeInv'
<1>. USE DEF ShapeInv
<1>1. It.fd \in Fds
  BY DEF It, Vector
<1>2. /\ peer' \in [Fds -> Clients \cup {NoClient}] /\ link' \in [Clients -> Links]
      /\ slow' \in SUBSET Clients /\ Peers'
      /\ \A c \in Clients : link[c] \notin {"idle", "waiting"}
                             => link'[c] \notin {"idle", "waiting"}
  BY <1>1, Closed
<1>3. pollfds' \in Seq(Pollfd) /\ Vector' /\ Len(pollfds') <= Cardinality(Arrived)' + 1
  BY <1>2, ElementErased
<1>4. pc' = "poll" /\ it' = 1 /\ 1 \in 1..Cardinality(Clients) + 2
      /\ 1 <= Cardinality(Clients) + 1
  BY Facts DEF Break
<1>5. TypeOK'
  BY <1>2, <1>3, <1>4 DEF TypeOK, buffers, history
<1>. QED
  BY <1>2, <1>3, <1>4, <1>5 DEF Iteration, SendLoop, Arrivals

\* The listening socket never hangs up.
LEMMA HungUpClient == ShapeInv /\ HangUp => it \in 2..Len(pollfds)
<1>. SUFFICES ASSUME ShapeInv, HangUp PROVE it \in 2..Len(pollfds)
  OBVIOUS
<1>1. it \in 1..Len(pollfds)
  BY Elements DEF ShapeInv, HangUp, Iteration
<1>2. it # 1
  BY DEF ShapeInv, HangUp, It, Vector
<1>. QED
  BY <1>1, <1>2

LEMMA HangUpShape == ShapeInv /\ HangUp => ShapeInv'
<1>. SUFFICES ASSUME ShapeInv, HangUp PROVE ShapeInv'
  OBVIOUS
<1>1. it \in 2..Len(pollfds)
  BY HungUpClient
<1>2. active_clients' \in SUBSET Fds
  BY DEF HangUp, ShapeInv, TypeOK
<1>. QED
  BY <1>1, <1>2, Drops DEF HangUp

LEMMA ReadFailsShape == ShapeInv /\ ReadFails => ShapeInv'
<1>. SUFFICES ASSUME ShapeInv, ReadFails PROVE ShapeInv'
  OBVIOUS
<1>1. it \in 2..Len(pollfds)
  BY DataFromClient DEF ShapeInv, ReadFails
<1>2. active_clients' \in SUBSET Fds /\ pc = "scan"
  BY DEF ReadFails, Readable, ShapeInv, TypeOK
<1>. QED
  BY <1>1, <1>2, Drops DEF ReadFails

\* accept() gives a descriptor that is free to a client who waits.
LEMMA Accepted ==
  ASSUME ShapeInv, Accept
  PROVE  \E c \in Clients, fd \in Fds :
           /\ fd = Min(Free) /\ peer[fd] = NoClient
           /\ link[c] = "waiting" /\ link' = [link EXCEPT ![c] = "up"]
           /\ peer' = [peer EXCEPT ![fd] = c]
           /\ pollfds' = Append(pollfds, [fd |-> fd, revents |-> {}])
<1>1. Free \subseteq Nat /\ Free # {}
  BY Facts DEF Accept, Free
<1>2. Min(Free) \in Free
  BY <1>1, HasMin
<1>3. Min(Free) \in Fds /\ peer[Min(Free)] = NoClient
  BY <1>2 DEF Free
<1>4. PICK c \in Clients : /\ link[c] = "waiting"
                           /\ link' = [link EXCEPT ![c] = "up"]
                           /\ peer' = [peer EXCEPT ![Min(Free)] = c]
  BY DEF Accept
<1>. QED
  BY <1>3, <1>4, Zenon DEF Accept

LEMMA AcceptShape == ShapeInv /\ Accept => ShapeInv'
<1>. SUFFICES ASSUME ShapeInv, Accept PROVE ShapeInv'
  OBVIOUS
<1>. USE DEF ShapeInv
<1>1. PICK c \in Clients, fd \in Fds :
        /\ peer[fd] = NoClient
        /\ link[c] = "waiting" /\ link' = [link EXCEPT ![c] = "up"]
        /\ peer' = [peer EXCEPT ![fd] = c]
        /\ pollfds' = Append(pollfds, [fd |-> fd, revents |-> {}])
  BY Accepted
<1>2. /\ pollfds' \in Seq(Pollfd) /\ Len(pollfds') = Len(pollfds) + 1
      /\ Len(pollfds) \in Nat \ {0}
      /\ \A i \in 1..Len(pollfds) : pollfds'[i] = pollfds[i]
      /\ pollfds'[Len(pollfds) + 1] = [fd |-> fd, revents |-> {}]
  <2>1. [fd |-> fd, revents |-> {}] \in Pollfd
    BY DEF Pollfd
  <2>2. pollfds \in Seq(Pollfd)
    BY DEF TypeOK
  <2>. QED
    BY <1>1, <2>1, <2>2, PushBack, Elements
<1>3. Vector'
  <2>1. pollfds' # <<>> /\ pollfds'[1] = pollfds[1]
    BY <1>2, EmptySeq
  <2>2. \A i \in 2..Len(pollfds') : pollfds'[i].fd \in Fds
    <3>1. TAKE i \in 2..Len(pollfds')
    <3>2. CASE i = Len(pollfds) + 1
      BY <1>2, <3>2
    <3>3. CASE i # Len(pollfds) + 1
      BY <1>2, <3>3 DEF Vector
    <3>. QED
      BY <3>2, <3>3
  <2>. QED
    BY <2>1, <2>2 DEF Vector
<1>4. /\ peer' \in [Fds -> Clients \cup {NoClient}] /\ link' \in [Clients -> Links]
      /\ \A f \in Fds : peer'[f] = IF f = fd THEN c ELSE peer[f]
      /\ \A d \in Clients : link'[d] = IF d = c THEN "up" ELSE link[d]
  BY <1>1 DEF TypeOK, Links
<1>5. Peers'
  <2>1. \A f \in Fds : peer[f] # c
    BY <1>1, Facts DEF Peers
  <2>2. ASSUME NEW f \in Fds, peer'[f] # NoClient
        PROVE  link'[peer'[f]] \in {"up", "fin", "rst", "pipe"}
    <3>1. CASE f = fd
      BY <1>4, <3>1
    <3>2. CASE f # fd
      <4>1. peer'[f] = peer[f] /\ peer[f] \in Clients /\ peer[f] # c
        BY <1>4, <2>1, <2>2, <3>2 DEF TypeOK
      <4>. QED
        BY <1>4, <2>2, <4>1 DEF Peers
    <3>. QED
      BY <3>1, <3>2
  <2>3. \A f, g \in Fds : f # g /\ peer'[f] = peer'[g] => peer'[f] = NoClient
    BY <1>4, <2>1 DEF Peers
  <2>. QED
    BY <2>2, <2>3 DEF Peers
<1>6. Len(pollfds') <= Cardinality(Arrived)' + 1
  <2>1. Arrived' = Arrived \cup {c} /\ c \notin Arrived
    BY <1>1, <1>4 DEF Arrived
  <2>2. Cardinality(Arrived)' = Cardinality(Arrived) + 1
    BY <2>1, ArrivedBound, FS_AddElement
  <2>. QED
    BY <1>2, <2>2, ArrivedBound DEF Arrivals
<1>7. pc' = "poll" /\ it' = 1 /\ 1 \in 1..Cardinality(Clients) + 2
      /\ 1 <= Cardinality(Clients) + 1 /\ pc = "scan"
  BY Facts DEF Accept, Readable, Break
<1>8. TypeOK'
  BY <1>2, <1>4, <1>7 DEF TypeOK, Accept, buffers, history
<1>. QED
  BY <1>3, <1>5, <1>6, <1>7, <1>8 DEF Iteration, SendLoop, Arrivals

\* ::poll changes the events only.
LEMMA Polled ==
  ASSUME TypeOK, Vector, Poll
  PROVE  \E talking \in SUBSET Clients :
           /\ pollfds' \in Seq(Pollfd) /\ Len(pollfds') = Len(pollfds)
           /\ \A i \in 1..Len(pollfds) :
                /\ pollfds'[i].fd = pollfds[i].fd
                /\ pollfds'[i].revents = Revents(pollfds[i].fd, talking)
<1>1. PICK talking \in SUBSET Clients :
        pollfds' = [i \in DOMAIN pollfds |->
                     [pollfds[i] EXCEPT !.revents = Revents(pollfds[i].fd, talking)]]
  BY DEF Poll
<1>2. /\ Len(pollfds) \in Nat /\ DOMAIN pollfds = 1..Len(pollfds)
      /\ \A i \in 1..Len(pollfds) : pollfds[i] \in Pollfd
  BY Elements
<1>3. \A i \in 1..Len(pollfds) : Revents(pollfds[i].fd, talking) \subseteq {"in", "out", "hup"}
  BY ReventsType
<1>. DEFINE F(i) == [pollfds[i] EXCEPT !.revents = Revents(pollfds[i].fd, talking)]
<1>4. \A i \in 1..Len(pollfds) : /\ F(i) \in Pollfd
                                 /\ F(i).fd = pollfds[i].fd
                                 /\ F(i).revents = Revents(pollfds[i].fd, talking)
  BY <1>2, <1>3 DEF Pollfd
<1>5. pollfds' = [i \in 1..Len(pollfds) |-> F(i)]
  BY <1>1, <1>2, Zenon
<1>. HIDE DEF F
<1>6. pollfds' \in Seq(Pollfd) /\ Len(pollfds') = Len(pollfds)
  BY <1>2, <1>4, <1>5
<1>. QED
  BY <1>4, <1>5, <1>6

LEMMA PollShape == ShapeInv /\ Poll => ShapeInv'
<1>. SUFFICES ASSUME ShapeInv, Poll PROVE ShapeInv'
  OBVIOUS
<1>. USE DEF ShapeInv
<1>1. PICK talking \in SUBSET Clients :
           /\ pollfds' \in Seq(Pollfd) /\ Len(pollfds') = Len(pollfds)
           /\ \A i \in 1..Len(pollfds) :
                /\ pollfds'[i].fd = pollfds[i].fd
                /\ pollfds'[i].revents = Revents(pollfds[i].fd, talking)
  BY Polled
<1>2. Len(pollfds) \in Nat \ {0} /\ UNCHANGED <<peer, link>>
  BY Elements DEF Poll, kernel
<1>3. Vector'
  <2>1. pollfds' # <<>>
    BY <1>1, <1>2, EmptySeq
  <2>2. pollfds'[1].fd = m_fd /\ pollfds'[1].revents \subseteq {"in"}
    BY <1>1, <1>2, ReventsType DEF Vector
  <2>. QED
    BY <1>1, <1>2, <2>1, <2>2 DEF Vector
<1>4. pc' = "scan" /\ it' = 1 /\ 1 \in 1..Cardinality(Clients) + 2
      /\ 1 <= Cardinality(Clients) + 1
  BY Facts DEF Poll
<1>5. TypeOK'
  BY <1>1, <1>2, <1>4 DEF TypeOK, Poll, kernel, buffers, history
<1>6. Arrivals' /\ Peers'
  BY <1>1, <1>2, <1>4 DEF Arrivals, Arrived, Peers
<1>. QED
  BY <1>1, <1>2, <1>3, <1>4, <1>5, <1>6 DEF Iteration, SendLoop

\* What a failed write does: it closes the descriptor, which is a client's, and
\* erases an element behind the first, or the last of two or more.
LEMMA Erased ==
  ASSUME ShapeInv, WriteFails
  PROVE  /\ targets[at] \in Fds /\ pc = "send" /\ at \in 1..Len(targets)
         /\ msg.fd = 0 => at # 1 /\ Len(pollfds) >= 2
         /\ \/ /\ it \in 2..Len(pollfds) /\ pollfds' = RemoveAt(pollfds, it)
               /\ targets' = [i \in DOMAIN targets |->
                               IF it <= i /\ i < Len(pollfds) THEN targets[i + 1]
                                                              ELSE targets[i]]
               /\ pc' = pc
            \/ /\ it > Len(pollfds) /\ msg.fd = 0 /\ pollfds' = Front(pollfds)
               /\ pc' \in {pc, "dead"} /\ targets' = targets
<1>1. targets[at] \in Fds /\ pc = "send" /\ at \in 1..Len(targets)
  BY TargetOpen DEF ShapeInv, WriteFails, Sending
<1>2. /\ it \in Nat /\ it >= 2 /\ at \in Nat /\ Len(targets) \in Nat
      /\ Len(pollfds) \in Nat \ {0} /\ at <= Len(targets) /\ at >= 1
  <2>1. it \in Nat /\ Len(pollfds) \in Nat \ {0}
    BY Elements DEF ShapeInv
  <2>2. it >= 2
    BY <1>1 DEF ShapeInv, Iteration
  <2>3. Len(targets) \in Nat
    BY DEF ShapeInv, TypeOK
  <2>. QED
    BY <1>1, <2>1, <2>2, <2>3
<1>3. ASSUME msg.fd = 0 PROVE at # 1 /\ Len(pollfds) >= 2
  <2>1. at # 1
    BY <1>1, <1>3, Facts DEF ShapeInv, SendLoop
  <2>2. Len(targets) + 2 <= Len(pollfds) + at
    BY <1>1, <1>3, <2>1 DEF ShapeInv, SendLoop
  <2>. QED
    BY <1>2, <2>1, <2>2
<1>4. ASSUME msg.fd # 0 PROVE it <= Len(pollfds)
  BY <1>1, <1>2, <1>4 DEF ShapeInv, SendLoop
<1>5. CASE it <= Len(pollfds)
  <2>1. it \in 2..Len(pollfds)
    BY <1>2, <1>5
  <2>2. /\ pollfds' = RemoveAt(pollfds, it)
        /\ targets' = [i \in DOMAIN targets |->
                               IF it <= i /\ i < Len(pollfds) THEN targets[i + 1]
                                                              ELSE targets[i]]
        /\ pc' = pc
    BY <1>2, <1>5 DEF WriteFails, Erase
  <2>. QED
    BY <1>1, <1>3, <2>1, <2>2, Zenon
<1>6. CASE ~(it <= Len(pollfds))
  <2>1. it > Len(pollfds)
    BY <1>2, <1>6
  <2>2. /\ pollfds' = Front(pollfds) /\ pc' \in {pc, "dead"} /\ targets' = targets
    BY <1>2, <1>6 DEF WriteFails, Erase
  <2>. QED
    BY <1>1, <1>3, <1>4, <1>6, <2>1, <2>2, Zenon
<1>. QED
  BY <1>5, <1>6

\* The copy that the send loop walks over keeps its length and its first element.
LEMMA Shifted ==
  ASSUME ShapeInv, it \in 2..Len(pollfds), at \in 1..Len(targets),
         Len(targets) = 1 \/ Len(pollfds) <= Len(targets),
         targets' = [i \in DOMAIN targets |->
                      IF it <= i /\ i < Len(pollfds) THEN targets[i + 1]
                                                     ELSE targets[i]]
  PROVE  /\ targets' \in Seq(Fds \cup {m_fd}) /\ Len(targets') = Len(targets)
         /\ targets'[1] = targets[1]
<1>1. /\ Len(targets) \in Nat \ {0} /\ DOMAIN targets = 1..Len(targets)
      /\ \A i \in 1..Len(targets) : targets[i] \in Fds \cup {m_fd}
  BY DEF ShapeInv, TypeOK
<1>2. it \in Nat /\ it >= 2 /\ Len(pollfds) \in Nat
  BY Elements DEF ShapeInv
<1>. DEFINE G(i) == IF it <= i /\ i < Len(pollfds) THEN targets[i + 1] ELSE targets[i]
<1>3. \A i \in 1..Len(targets) : G(i) \in Fds \cup {m_fd}
  <2>1. \A i \in 1..Len(targets) :
          it <= i /\ i < Len(pollfds) => i + 1 \in 1..Len(targets)
    BY <1>1, <1>2
  <2>. QED
    BY <1>1, <2>1
<1>4. G(1) = targets[1]
  BY <1>2
<1>5. targets' = [i \in 1..Len(targets) |-> G(i)]
  BY <1>1, Zenon
<1>. HIDE DEF G
<1>. QED
  BY <1>1, <1>3, <1>4, <1>5

\* The erase at end(), where it drops the last element.
LEMMA LastErased ==
  ASSUME TypeOK, Vector, Arrivals, Len(pollfds) >= 2, pollfds' = Front(pollfds),
         \A c \in Clients : link[c] \notin {"idle", "waiting"}
                               => link'[c] \notin {"idle", "waiting"}
  PROVE  /\ pollfds' \in Seq(Pollfd) /\ Vector'
         /\ Len(pollfds') = Len(pollfds) - 1
         /\ Len(pollfds') <= Cardinality(Arrived)' + 1
<1>1. /\ pollfds' \in Seq(Pollfd) /\ Len(pollfds') = Len(pollfds) - 1
      /\ \A i \in 1..Len(pollfds) - 1 : pollfds'[i] = pollfds[i]
  <2>1. pollfds \in Seq(Pollfd) /\ pollfds # <<>>
    BY DEF TypeOK, Vector
  <2>. QED
    BY <2>1, FrontOf
<1>2. Len(pollfds) \in Nat
  BY Elements
<1>3. Vector'
  <2>1. pollfds' # <<>>
    BY <1>1, <1>2, EmptySeq
  <2>. QED
    BY <1>1, <1>2, <2>1 DEF Vector
<1>4. Cardinality(Arrived)' \in Nat /\ Cardinality(Arrived) <= Cardinality(Arrived)'
  BY ArrivedGrows
<1>5. Cardinality(Arrived) \in Nat /\ Len(pollfds) <= Cardinality(Arrived) + 1
  BY ArrivedBound DEF Arrivals
<1>. QED
  BY <1>1, <1>2, <1>3, <1>4, <1>5

LEMMA WriteFailsShape == ShapeInv /\ WriteFails => ShapeInv'
<1>. SUFFICES ASSUME ShapeInv, WriteFails PROVE ShapeInv'
  OBVIOUS
<1>1. /\ targets[at] \in Fds /\ pc = "send" /\ at \in 1..Len(targets)
      /\ msg.fd = 0 => at # 1 /\ Len(pollfds) >= 2
  BY Erased
<1>2. /\ peer' \in [Fds -> Clients \cup {NoClient}] /\ link' \in [Clients -> Links]
      /\ slow' \in SUBSET Clients /\ Peers'
      /\ \A c \in Clients : link[c] \notin {"idle", "waiting"}
                             => link'[c] \notin {"idle", "waiting"}
  BY <1>1, Closed DEF ShapeInv, WriteFails
<1>3. /\ it \in Nat /\ Len(pollfds) \in Nat \ {0} /\ Len(targets) \in Nat
      /\ at \in Nat \ {0}
  BY Elements DEF ShapeInv, TypeOK
<1>4. /\ pollfds' \in Seq(Pollfd) /\ Vector' /\ Len(pollfds') = Len(pollfds) - 1
      /\ Len(pollfds') <= Cardinality(Arrived)' + 1
  <2>1. CASE it \in 2..Len(pollfds) /\ pollfds' = RemoveAt(pollfds, it)
    BY <1>2, <2>1, ElementErased DEF ShapeInv
  <2>2. CASE Len(pollfds) >= 2 /\ pollfds' = Front(pollfds)
    BY <1>2, <2>2, LastErased DEF ShapeInv
  <2>. QED
    BY <1>1, <2>1, <2>2, Erased
<1>5. /\ targets' \in Seq(Fds \cup {m_fd}) /\ Len(targets') = Len(targets)
      /\ targets'[1] = targets[1]
      /\ pc' \in {"send", "dead"}
  <2>1. ASSUME it \in 2..Len(pollfds), pc' = pc,
               targets' = [i \in DOMAIN targets |->
                            IF it <= i /\ i < Len(pollfds) THEN targets[i + 1]
                                                           ELSE targets[i]]
        PROVE  /\ targets' \in Seq(Fds \cup {m_fd}) /\ Len(targets') = Len(targets)
               /\ targets'[1] = targets[1] /\ pc' \in {"send", "dead"}
    <3>1. Len(targets) = 1 \/ Len(pollfds) <= Len(targets)
      BY <1>1 DEF ShapeInv, SendLoop
    <3>. QED
      BY <1>1, <2>1, <3>1, Shifted
  <2>2. ASSUME targets' = targets, pc' \in {pc, "dead"}
        PROVE  /\ targets' \in Seq(Fds \cup {m_fd}) /\ Len(targets') = Len(targets)
               /\ targets'[1] = targets[1] /\ pc' \in {"send", "dead"}
    BY <1>1, <2>2 DEF ShapeInv, TypeOK
  <2>. QED
    BY <2>1, <2>2, Erased
<1>6. at' = at + 1 /\ it' = it /\ msg' = msg
  BY DEF WriteFails
<1>7. at' \in 1..Len(targets') + 1
  BY <1>1, <1>3, <1>5, <1>6
<1>8. TypeOK'
  BY <1>1, <1>2, <1>4, <1>5, <1>6, <1>7 DEF ShapeInv, TypeOK, WriteFails, buffers
<1>9. Iteration'
  BY <1>1, <1>5, <1>6 DEF ShapeInv, Iteration
<1>10. SendLoop'
  <2>1. at' # 1
    BY <1>3, <1>6
  <2>2. ASSUME msg.fd = 0
        PROVE  /\ targets' # <<>> /\ targets'[1] = m_fd
               /\ Len(pollfds') <= Len(targets')
               /\ Len(targets') + 2 <= Len(pollfds') + at'
    <3>1. /\ targets[1] = m_fd /\ Len(pollfds) <= Len(targets)
          /\ Len(targets) + 2 <= Len(pollfds) + at
      BY <1>1, <2>2 DEF ShapeInv, SendLoop
    <3>2. targets' # <<>>
      BY <1>1, <1>5, EmptySeq
    <3>. QED
      BY <1>3, <1>4, <1>5, <1>6, <3>1, <3>2
  <2>3. msg.fd # 0 => Len(targets') = 1
    BY <1>1, <1>5 DEF ShapeInv, SendLoop
  <2>. QED
    BY <1>6, <2>1, <2>2, <2>3 DEF SendLoop
<1>11. Arrivals'
  BY <1>4, <1>6 DEF ShapeInv, Arrivals
<1>. QED
  BY <1>2, <1>4, <1>8, <1>9, <1>10, <1>11 DEF ShapeInv

LEMMA ClientShape == ShapeInv /\ Client => ShapeInv'
<1>. SUFFICES ASSUME ShapeInv, Client PROVE ShapeInv'
  OBVIOUS
<1>1. UNCHANGED <<loop, pollfds, buffers, active_clients, peer, history>>
  BY DEF Client
<1>2. /\ link' \in [Clients -> Links] /\ slow' \in SUBSET Clients
      /\ \A c \in Clients : /\ link[c] \notin {"idle", "waiting"}
                               => link'[c] \notin {"idle", "waiting"}
                            /\ link[c] \in {"up", "fin", "rst", "pipe"}
                               => link'[c] \in {"up", "fin", "rst", "pipe"}
  BY DEF ShapeInv, TypeOK, Client, Connect, Finish, Reset, Clog, Links
<1>3. TypeOK'
  BY <1>1, <1>2 DEF ShapeInv, TypeOK, loop, buffers, history
<1>4. Vector' /\ Iteration' /\ SendLoop'
  BY <1>1 DEF ShapeInv, Vector, Iteration, SendLoop, loop
<1>5. Arrivals'
  <2>1. Cardinality(Arrived)' \in Nat /\ Cardinality(Arrived) <= Cardinality(Arrived)'
    BY <1>2, ArrivedGrows
  <2>2. /\ Cardinality(Arrived) \in Nat /\ Len(pollfds) <= Cardinality(Arrived) + 1
        /\ Len(pollfds) \in Nat /\ it' <= Cardinality(Clients) + 1
    BY <1>1, ArrivedBound, Elements DEF ShapeInv, Arrivals, loop
  <2>. QED
    BY <1>1, <2>1, <2>2 DEF Arrivals
<1>6. Peers'
  BY <1>1, <1>2 DEF ShapeInv, TypeOK, Peers
<1>. QED
  BY <1>3, <1>4, <1>5, <1>6 DEF ShapeInv

LEMMA IdleShape == ShapeInv /\ UNCHANGED vars => ShapeInv'
BY DEF ShapeInv, TypeOK, Vector, Iteration, SendLoop, Arrivals, Arrived, Peers,
       vars, loop, buffers, kernel, history

\* In the beginning only the listening socket is polled.
LEMMA InitShape == Init => ShapeInv
<1>. SUFFICES ASSUME Init PROVE ShapeInv
  OBVIOUS
<1>1. /\ pollfds \in Seq(Pollfd) /\ Len(pollfds) = 1 /\ pollfds # <<>>
      /\ pollfds[1].fd = m_fd /\ pollfds[1].revents = {}
  BY DEF Init, Pollfd
<1>2. targets \in Seq(Fds \cup {m_fd}) /\ at \in 1..Len(targets) + 1
  BY DEF Init
<1>3. out_queue \in Seq(Msg) /\ Len(out_queue) <= OutSize
  BY Facts DEF Init
<1>4. 1 \in 1..Cardinality(Clients) + 2 /\ 1 <= Cardinality(Clients) + 1 /\ 0 \in 0..MaxReads
  BY Facts
<1>5. TypeOK
  BY <1>1, <1>2, <1>3, <1>4 DEF Init, TypeOK, Links
<1>6. Arrivals
  <2>1. Arrived = {}
    BY DEF Init, Arrived
  <2>. QED
    BY <1>1, <1>4, <2>1, FS_EmptySet DEF Init, Arrivals
<1>. QED
  BY <1>1, <1>5, <1>6 DEF Init, ShapeInv, Vector, Iteration, SendLoop, Peers

\* Every step keeps the shape.
LEMMA StepShape == ShapeInv /\ [Next]_vars => ShapeInv'
BY PollShape, PollFailsShape, HangUpShape, AcceptShape, AcceptFailsShape,
   ReadFailsShape, SubscribeShape, ShareShape, PostShape, NothingToSendShape,
   PopShape, SkipShape, FilteredShape, WriteShape, WriteFailsShape,
   WriteKillsShape, ReleaseShape, ClientShape, IdleShape, Zenon DEF Next, Server

\* In every behaviour of run() with its clients.
THEOREM ServerShape == Spec => []ShapeInv
BY InitShape, StepShape, PTL DEF Spec

\* The variables of run() keep their types: m_pollfds never grows beyond the
\* clients who came, nor m_out_queue beyond its capacity.
THEOREM ServerTypeCorrect == Spec => []TypeOK
BY ServerShape, PTL DEF ShapeInv

\* However many writes of one broadcast fail, and wherever `it` points then, the
\* erase never takes the listening socket: run() goes on accepting.
THEOREM ListeningGoesOn == Spec => []ListenerStays
<1>1. ShapeInv => ListenerStays
  BY DEF ShapeInv, Vector, ListenerStays
<1>. QED
  BY <1>1, ServerShape, PTL

(***************************************************************************)
(* Where the buffers are.                                                  *)
(***************************************************************************)

PlaceInv == ShapeInv /\ OnePlace

\* A step that moves no buffer keeps the places.
LEMMA PlaceFrame == OnePlace /\ UNCHANGED <<buffers, msg>> => OnePlace'
BY DEF OnePlace, Queued, InHand, buffers

\* In the beginning every buffer is free.
LEMMA InitPlace == Init => PlaceInv
<1>. SUFFICES ASSUME Init PROVE PlaceInv
  OBVIOUS
<1>1. out_queue = <<>> /\ DOMAIN out_queue = {} /\ Queued = {} /\ InHand = {}
  BY DEF Init, Queued, InHand
<1>2. OnePlace
  BY <1>1 DEF Init, OnePlace
<1>. QED
  BY <1>2, InitShape DEF PlaceInv

\* A free buffer becomes the buffer of a message.
LEMMA SharePlace == PlaceInv /\ Share => OnePlace'
<1>. SUFFICES ASSUME PlaceInv, Share PROVE OnePlace'
  OBVIOUS
<1>1. PICK b \in pool : pool' = pool \ {b} /\ msg'.buf = b
  BY DEF Share
<1>2. b # NoBuf
  BY <1>1, Facts DEF PlaceInv, ShapeInv, TypeOK
<1>3. msg = NoMsg /\ msg' # NoMsg
  BY <1>1, <1>2 DEF PlaceInv, ShapeInv, TypeOK, Share, Data, Readable, NoMsg
<1>4. InHand = {} /\ InHand' = {b} /\ Queued' = Queued
  BY <1>1, <1>3 DEF InHand, Queued, Share
<1>. QED
  BY <1>1, <1>4 DEF PlaceInv, OnePlace, Share

\* The message in the thread's hand goes to the end of the queue.
LEMMA PostPlace == PlaceInv /\ Post => OnePlace'
<1>. SUFFICES ASSUME PlaceInv, Post PROVE OnePlace'
  OBVIOUS
<1>1. msg \in Msg /\ msg # NoMsg /\ out_queue \in Seq(Msg)
  BY HasMsg DEF PlaceInv, ShapeInv, TypeOK, Post
<1>2. PICK n \in Nat : n = Len(out_queue) /\ DOMAIN out_queue = 1..n
  BY <1>1
<1>3. /\ DOMAIN out_queue' = 1..n + 1 /\ out_queue'[n + 1] = msg
      /\ \A i \in 1..n : out_queue'[i] = out_queue[i]
  BY <1>1, <1>2, PushBack DEF Post
<1>4. 1..n + 1 = 1..n \cup {n + 1}
  BY <1>2
<1>5. Queued' = Queued \cup {msg.buf}
  BY <1>2, <1>3, <1>4 DEF Queued
<1>6. InHand = {msg.buf} /\ InHand' = {}
  BY <1>1 DEF InHand, Post
<1>7. \A i, j \in DOMAIN out_queue' : i # j => out_queue'[i].buf # out_queue'[j].buf
  <2>1. \A i \in 1..n : out_queue[i].buf # msg.buf
    BY <1>2, <1>6 DEF PlaceInv, OnePlace, Queued
  <2>2. \A i, j \in 1..n : i # j => out_queue'[i].buf # out_queue'[j].buf
    BY <1>2, <1>3 DEF PlaceInv, OnePlace
  <2>3. \A i \in 1..n : out_queue'[i].buf # out_queue'[n + 1].buf
    BY <1>3, <2>1
  <2>. QED
    BY <1>3, <1>4, <2>2, <2>3
<1>8. UNCHANGED <<pool, lost>>
  BY DEF Post
<1>. QED
  BY <1>5, <1>6, <1>7, <1>8 DEF PlaceInv, OnePlace

\* The first message of the queue comes to the thread's hand.
LEMMA PopPlace == PlaceInv /\ Pop => OnePlace'
<1>. SUFFICES ASSUME PlaceInv, Pop PROVE OnePlace'
  OBVIOUS
<1>1. out_queue \in Seq(Msg) /\ out_queue # <<>>
  BY DEF PlaceInv, ShapeInv, TypeOK, Pop
<1>2. PICK n \in Nat \ {0} : n = Len(out_queue) /\ DOMAIN out_queue = 1..n
  BY <1>1, PopFront
<1>3. /\ DOMAIN out_queue' = 1..n - 1 /\ msg' = out_queue[1] /\ msg' \in Msg
      /\ \A i \in 1..n - 1 : out_queue'[i] = out_queue[i + 1]
  BY <1>1, <1>2, PopFront DEF Pop
<1>4. InHand = {} /\ InHand' = {out_queue[1].buf}
  <2>1. msg = NoMsg
    BY DEF PlaceInv, ShapeInv, TypeOK, Pop, Out
  <2>. QED
    BY <1>3, <2>1, NoMsgIsNone DEF InHand
<1>5. Queued = Queued' \cup {out_queue[1].buf}
  <2>1. \A i \in 1..n : i = 1 \/ (i - 1 \in 1..n - 1 /\ i = (i - 1) + 1)
    BY <1>2
  <2>2. \A i \in 1..n - 1 : i + 1 \in 1..n
    BY <1>2
  <2>3. 1 \in 1..n
    BY <1>2
  <2>4. ASSUME NEW x \in Queued PROVE x \in Queued' \cup {out_queue[1].buf}
    <3>1. PICK i \in 1..n : x = out_queue[i].buf
      BY <1>2, <2>4 DEF Queued
    <3>2. CASE i = 1
      BY <3>1, <3>2
    <3>3. CASE i - 1 \in 1..n - 1 /\ i = (i - 1) + 1
      <4>1. out_queue'[i - 1] = out_queue[i]
        BY <1>3, <3>3
      <4>2. x = out_queue'[i - 1].buf /\ i - 1 \in DOMAIN out_queue'
        BY <1>3, <3>1, <3>3, <4>1
      <4>. QED
        BY <4>2, Zenon DEF Queued
    <3>. QED
      BY <2>1, <3>2, <3>3
  <2>5. ASSUME NEW x \in Queued' PROVE x \in Queued
    <3>1. PICK i \in 1..n - 1 : x = out_queue'[i].buf
      BY <1>3, <2>5 DEF Queued
    <3>. QED
      BY <1>2, <1>3, <2>2, <3>1 DEF Queued
  <2>6. out_queue[1].buf \in Queued
    BY <1>2, <2>3 DEF Queued
  <2>. QED
    BY <2>4, <2>5, <2>6
<1>6. /\ \A i, j \in DOMAIN out_queue' : i # j => out_queue'[i].buf # out_queue'[j].buf
      /\ out_queue[1].buf \notin Queued'
  <2>1. \A i \in 1..n - 1 : i + 1 \in 1..n /\ i + 1 # 1
    BY <1>2
  <2>2. \A i, j \in 1..n - 1 : i # j => i + 1 # j + 1
    BY <1>2
  <2>3. 1 \in 1..n
    BY <1>2
  <2>4. \A i, j \in 1..n : i # j => out_queue[i].buf # out_queue[j].buf
    BY <1>2 DEF PlaceInv, OnePlace
  <2>5. ASSUME NEW i \in 1..n - 1, NEW j \in 1..n - 1, i # j
        PROVE  out_queue'[i].buf # out_queue'[j].buf
    <3>1. out_queue[i + 1].buf # out_queue[j + 1].buf
      BY <2>1, <2>2, <2>4, <2>5
    <3>. QED
      BY <1>3, <3>1, Zenon
  <2>6. \A i \in 1..n - 1 : out_queue'[i].buf # out_queue[1].buf
    BY <1>3, <2>1, <2>3, <2>4
  <2>. QED
    BY <1>3, <2>5, <2>6 DEF Queued
<1>7. UNCHANGED <<pool, lost>>
  BY DEF Pop
<1>. QED
  BY <1>4, <1>5, <1>6, <1>7 DEF PlaceInv, OnePlace

\* The buffer of a filtered message to one client is lost ...
LEMMA FilteredPlace == PlaceInv /\ Filtered => OnePlace'
<1>. SUFFICES ASSUME PlaceInv, Filtered PROVE OnePlace'
  OBVIOUS
<1>1. msg # NoMsg
  BY HasMsg DEF PlaceInv, ShapeInv, Filtered, Sending
<1>2. /\ InHand = {msg.buf} /\ InHand' = {} /\ Queued' = Queued
      /\ lost' = lost \cup {msg.buf} /\ UNCHANGED <<pool, out_queue>>
  BY <1>1 DEF InHand, Queued, Filtered
<1>. QED
  BY <1>2 DEF PlaceInv, OnePlace

\* ... and that of any other goes back to the pool.
LEMMA ReleasePlace == PlaceInv /\ Release => OnePlace'
<1>. SUFFICES ASSUME PlaceInv, Release PROVE OnePlace'
  OBVIOUS
<1>1. msg # NoMsg
  BY HasMsg DEF PlaceInv, ShapeInv, Release
<1>2. /\ InHand = {msg.buf} /\ InHand' = {} /\ Queued' = Queued
      /\ pool' = pool \cup {msg.buf} /\ UNCHANGED <<lost, out_queue>>
  BY <1>1 DEF InHand, Queued, Release
<1>. QED
  BY <1>2 DEF PlaceInv, OnePlace

\* Every step keeps each buffer in one place.
LEMMA StepPlace == PlaceInv /\ [Next]_vars => PlaceInv'
<1>. SUFFICES ASSUME PlaceInv, [Next]_vars PROVE OnePlace'
  BY StepShape DEF PlaceInv
<1>1. CASE Share \/ Post \/ Pop \/ Filtered \/ Release
  BY <1>1, SharePlace, PostPlace, PopPlace, FilteredPlace, ReleasePlace
<1>2. CASE Poll \/ PollFails \/ HangUp \/ Accept \/ AcceptFails \/ ReadFails
           \/ Subscribe \/ NothingToSend \/ Skip \/ Write \/ WriteFails \/ WriteKills
           \/ Client \/ UNCHANGED vars
  <2>1. UNCHANGED <<buffers, msg>>
    BY <1>2 DEF Poll, PollFails, HangUp, Accept, AcceptFails, ReadFails, Subscribe,
                NothingToSend, Skip, Write, WriteFails, WriteKills, Client, loop, vars
  <2>. QED
    BY <2>1, PlaceFrame DEF PlaceInv
<1>. QED
  BY <1>1, <1>2, Zenon DEF Next, Server

\* Every buffer is free, in one message, or lost to a filtered one: none is
\* released twice and none is in two messages.
THEOREM BuffersOnePlace == Spec => []OnePlace
BY InitPlace, StepPlace, PTL DEF Spec, PlaceInv

\* While none is lost there is a free buffer whenever a client is read from: the
\* queue holds OutSize at most, which are fewer than there are, and the thread's
\* hand is empty.
THEOREM PoolNeverEmpty == Spec => []GetNeverWaits
<1>1. ASSUME PlaceInv PROVE GetNeverWaits
  <2>. SUFFICES ASSUME lost = {}, Readable, pool = {} PROVE FALSE
    BY DEF GetNeverWaits
  <2>1. InHand = {}
    BY <1>1 DEF PlaceInv, ShapeInv, TypeOK, Readable, InHand
  <2>2. Queued = Bufs
    BY <1>1, <2>1 DEF PlaceInv, OnePlace
  <2>3. out_queue \in Seq(Msg) /\ Len(out_queue) <= OutSize /\ Len(out_queue) \in Nat
    BY <1>1 DEF PlaceInv, ShapeInv, TypeOK
  <2>4. Cardinality(Queued) <= Len(out_queue)
    BY <2>3, BufsOfQueue DEF Queued
  <2>5. /\ Cardinality(Bufs) \in Nat /\ OutSize < Cardinality(Bufs) /\ OutSize \in Nat
    BY ServerAssumption, FS_CardinalityType DEF ServerAssumption
  <2>. QED
    BY <2>2, <2>3, <2>4, <2>5
<1>. QED
  BY <1>1, InitPlace, StepPlace, PTL DEF Spec
=============================================================================
