------------------------------ MODULE TcpServer ------------------------------
(***************************************************************************)
(* run() of include/tcp_server.h with the handler of test/server/main.cpp: *)
(* one thread polls the listening socket and the clients, broadcasts what  *)
(* subscribed clients send, and drops clients.  The kernel gives the       *)
(* lowest free descriptor to the next client, so descriptors come back.    *)
(*                                                                         *)
(* An action is the code around one system call.  Between any two of them  *)
(* clients may connect, finish, reset the connection, or stop reading.     *)
(* Accepted sockets are blocking: a write to a client that does not read   *)
(* is an action that is not enabled, and so is a push to a full queue.     *)
(***************************************************************************)
EXTENDS Naturals, Sequences, FiniteSets, SequencesExt, FiniteSetsExt

CONSTANTS
  Clients,     \* connections that may be made
  NoClient,    \* no connection behind a descriptor
  Fds,         \* descriptors accept() can return
  m_fd,        \* the listening socket
  Bufs,        \* the buffers of m_bufpool
  NoBuf,       \* nullptr
  OutSize,     \* capacity of m_out_queue
  Targets,     \* whom the handler posts to: a subset of {"all", "sender"}
  Endings,     \* how connections may end: a subset of {"fin", "rst"}
  Slow,        \* clients may stop reading
  MaxReads     \* bound: successful reads

\* test/server posts to all; README.md also offers messages to one client.
\* Descriptor 0 stands for a broadcast.
ASSUME ServerAssumption ==
  /\ IsFiniteSet(Clients) /\ NoClient \notin Clients
  /\ IsFiniteSet(Fds) /\ Fds \subseteq Nat \ {0} /\ m_fd \in Nat \ (Fds \cup {0})
  /\ IsFiniteSet(Bufs) /\ NoBuf \notin Bufs
  /\ OutSize \in Nat \ {0} /\ OutSize < Cardinality(Bufs)
  /\ Targets \subseteq {"all", "sender"}
  /\ Endings \subseteq {"fin", "rst"}
  /\ Slow \in BOOLEAN /\ MaxReads \in Nat

VARIABLES
  pc,              \* where run() is
  pollfds,         \* m_pollfds
  it,              \* the index of the iterator of the inner loop
  targets,         \* the memory the send loop walks over
  at,              \* its index there
  pool,            \* free buffers
  out_queue,       \* m_out_queue
  msg,             \* the message being posted or sent
  active_clients,  \* the handler's subscriptions, by descriptor
  \* the kernel and the clients:
  peer,            \* the connection behind each descriptor
  link,            \* the state of each connection
  slow,            \* clients that do not read at the moment
  \* what happened, for the properties:
  asked,           \* clients who sent "/sub"
  got,             \* the last message each client received
  lost,            \* buffers nobody will release
  failed,          \* the write of a broadcast has failed
  reads            \* number of successful reads

loop    == <<pc, it, targets, at, msg>>
buffers == <<pool, out_queue, lost>>
kernel  == <<peer, link, slow>>
history == <<asked, got, failed, reads>>
vars == <<loop, pollfds, buffers, active_clients, kernel, history>>

Pollfd == [fd : Fds \cup {m_fd}, revents : SUBSET {"in", "out", "hup"}]
Msg    == [buf : Bufs, fd : Fds \cup {0}, id : 1..MaxReads]
NoMsg  == [buf |-> NoBuf, fd |-> 0, id |-> 0]

\* "pipe": the client had finished before it reset the connection.
Links == {"idle", "waiting", "up", "fin", "rst", "pipe", "closed"}

TypeOK ==
  /\ pc \in {"poll", "scan", "post", "out", "send", "done", "dead"}
  /\ pollfds \in Seq(Pollfd)
  /\ it \in 1..Cardinality(Clients) + 2
  /\ targets \in Seq(Fds \cup {m_fd})
  /\ at \in 1..Len(targets) + 1
  /\ pool \in SUBSET Bufs
  /\ out_queue \in Seq(Msg) /\ Len(out_queue) <= OutSize
  /\ msg \in Msg \cup {NoMsg} /\ (msg # NoMsg <=> pc \in {"post", "send", "dead"})
  /\ active_clients \in SUBSET Fds
  /\ peer \in [Fds -> Clients \cup {NoClient}]
  /\ link \in [Clients -> Links]
  /\ slow \in SUBSET Clients
  /\ asked \in SUBSET Clients
  /\ got \in [Clients -> 0..MaxReads]
  /\ lost \in SUBSET Bufs
  /\ failed \in BOOLEAN
  /\ reads \in 0..MaxReads

\* bind() has returned 0.
Init ==
  /\ pc = "poll" /\ it = 1 /\ targets = <<>> /\ at = 1 /\ msg = NoMsg
  /\ pollfds = <<[fd |-> m_fd, revents |-> {}]>>
  /\ pool = Bufs /\ out_queue = <<>> /\ lost = {}
  /\ active_clients = {}
  /\ peer = [fd \in Fds |-> NoClient]
  /\ link = [c \in Clients |-> "idle"] /\ slow = {}
  /\ asked = {} /\ got = [c \in Clients |-> 0] /\ failed = FALSE
  /\ reads = 0

-----------------------------------------------------------------------------
(* The kernel and the clients.                                             *)

LinkOf(fd) == IF peer[fd] = NoClient THEN "closed" ELSE link[peer[fd]]

\* ::close; of a descriptor that is closed already it does nothing.
CloseFd(fd) ==
  /\ peer' = [peer EXCEPT ![fd] = NoClient]
  /\ link' = [c \in Clients |-> IF c = peer[fd] THEN "closed" ELSE link[c]]
  /\ slow' = slow \ {peer[fd]}

\* Slip: POLLOUT is not asked for.
ReventsNoOut(fd, talking) ==
  IF fd = m_fd
  THEN {e \in {"in"} : \E c \in Clients : link[c] = "waiting"}
  ELSE CASE LinkOf(fd) \in {"rst", "pipe"} -> {"hup"}
         [] LinkOf(fd) = "fin" \/ peer[fd] \in talking -> {"in"}
         [] OTHER -> {}

\* What ::poll finds, if the clients `talking` have sent something.
Revents(fd, talking) ==
  IF fd = m_fd
  THEN {e \in {"in"} : \E c \in Clients : link[c] = "waiting"}
  ELSE CASE LinkOf(fd) \in {"rst", "pipe"} -> {"hup"}
         [] LinkOf(fd) \in {"up", "fin"} ->
              {e \in {"in", "out"} :
                 \/ e = "in"  /\ (LinkOf(fd) = "fin" \/ peer[fd] \in talking)
                 \/ e = "out" /\ peer[fd] \notin slow}
         [] OTHER -> {}

\* A client connects, says that it has nothing more to send, or resets: both
\* at once, or after it had finished.
Connect(c) == link[c] = "idle" /\ link' = [link EXCEPT ![c] = "waiting"]

Finish(c) ==
  /\ "fin" \in Endings
  /\ link[c] = "up" /\ link' = [link EXCEPT ![c] = "fin"]

Reset(c) ==
  /\ "rst" \in Endings
  /\ \/ link[c] = "up"  /\ link' = [link EXCEPT ![c] = "rst"]
     \/ link[c] \in {"up", "fin"} /\ link' = [link EXCEPT ![c] = "pipe"]

\* A client stops reading, or reads again.
Clog(c) ==
  /\ Slow
  /\ link[c] \in {"up", "fin"}
  /\ slow' = IF c \in slow THEN slow \ {c} ELSE slow \cup {c}

Client ==
  /\ \E c \in Clients : \/ (Connect(c) \/ Finish(c) \/ Reset(c)) /\ UNCHANGED slow
                        \/ Clog(c) /\ UNCHANGED link
  /\ UNCHANGED <<loop, pollfds, buffers, active_clients, peer, history>>

-----------------------------------------------------------------------------
(* run()                                                                   *)

It == pollfds[it]

\* The inner loop ends here.
Break == pc' = "poll" /\ it' = 1

\* ++it < m_pollfds.end()
Continue ==
  IF it < Len(pollfds) THEN pc' = "scan" /\ it' = it + 1 ELSE Break

\* ::poll reports events; if there are none the loop tries again.
Poll ==
  /\ pc = "poll"
  /\ \E talking \in SUBSET {c \in Clients : link[c] = "up"} :
       /\ Cardinality(talking) <= MaxReads - reads
       /\ pollfds' = [i \in DOMAIN pollfds |->
                        [pollfds[i] EXCEPT !.revents = Revents(pollfds[i].fd, talking)]]
  /\ \E i \in DOMAIN pollfds : pollfds'[i].revents # {}
  /\ pc' = "scan" /\ it' = 1
  /\ UNCHANGED <<targets, at, msg, buffers, active_clients, kernel, history>>

PollFails ==
  /\ pc = "poll"
  /\ pc' = "done"
  /\ UNCHANGED <<it, targets, at, msg, pollfds, buffers, active_clients, kernel,
                 history>>

HangUp ==
  /\ pc = "scan" /\ "hup" \in It.revents
  /\ active_clients' = active_clients \ {It.fd}     \* on_disconnect
  /\ CloseFd(It.fd)
  /\ pollfds' = RemoveAt(pollfds, it)
  /\ Break
  /\ UNCHANGED <<targets, at, msg, buffers, history>>

Readable == pc = "scan" /\ "hup" \notin It.revents /\ "in" \in It.revents

Free == {fd \in Fds : peer[fd] = NoClient}

Accept ==
  /\ Readable /\ It.fd = m_fd
  /\ Free # {}
  /\ \E c \in Clients :
       /\ link[c] = "waiting"
       /\ link' = [link EXCEPT ![c] = "up"]
       /\ peer' = [peer EXCEPT ![Min(Free)] = c]
  /\ pollfds' = Append(pollfds, [fd |-> Min(Free), revents |-> {}])
  /\ Break
  /\ UNCHANGED <<targets, at, msg, buffers, active_clients, slow, history>>

\* No descriptor is left, or the connection is gone from the backlog.
AcceptFails ==
  /\ Readable /\ It.fd = m_fd
  /\ Continue
  /\ UNCHANGED <<targets, at, msg, pollfds, buffers, active_clients, kernel,
                 history>>

\* get_buf() busy waits for a buffer.  recv() gives data, which may come
\* before the end of the connection, ...
Data ==
  /\ Readable /\ It.fd # m_fd
  /\ pool # {}
  /\ LinkOf(It.fd) \in {"up", "fin"}
  /\ reads < MaxReads
  /\ reads' = reads + 1

\* Slip: the descriptor is closed, but stays in m_pollfds.
ReadFailsKeepsEntry ==
  /\ Readable /\ It.fd # m_fd
  /\ pool # {}
  /\ LinkOf(It.fd) # "up"
  /\ CloseFd(It.fd)
  /\ Break
  /\ UNCHANGED <<pollfds, targets, at, msg, buffers, active_clients, history>>

\* ... 0 or an error.  Nobody calls on_disconnect.
ReadFails ==
  /\ Readable /\ It.fd # m_fd
  /\ pool # {}
  /\ LinkOf(It.fd) # "up"
  /\ CloseFd(It.fd)
  /\ pollfds' = RemoveAt(pollfds, it)
  /\ Break
  /\ UNCHANGED <<targets, at, msg, buffers, active_clients, history>>

\* on_read of a client who is not subscribed returns true: the buffer goes
\* straight back.
Subscribe ==
  /\ Data /\ It.fd \notin active_clients
  /\ \/ /\ active_clients' = active_clients \cup {It.fd}
        /\ asked' = asked \cup {peer[It.fd]}
     \/ UNCHANGED <<active_clients, asked>>
  /\ pc' = "out"
  /\ UNCHANGED <<it, targets, at, msg, pollfds, buffers, kernel, got,
                 failed>>

\* Slip: on_read returns true, so the buffer is released as well.
ShareReleased ==
  /\ Data /\ It.fd \in active_clients
  /\ \E b \in pool, target \in Targets :
       msg' = [buf |-> b, fd |-> IF target = "all" THEN 0 ELSE It.fd,
               id |-> reads']
  /\ pc' = "post"
  /\ UNCHANGED <<it, targets, at, pollfds, buffers, active_clients, kernel,
                 asked, got, failed>>

\* on_read of a subscribed client makes a message of its buffer, ...
Share ==
  /\ Data /\ It.fd \in active_clients
  /\ \E b \in pool, target \in Targets :
       /\ pool' = pool \ {b}
       /\ msg' = [buf |-> b, fd |-> IF target = "all" THEN 0 ELSE It.fd,
                  id |-> reads']
  /\ pc' = "post"
  /\ UNCHANGED <<it, targets, at, pollfds, out_queue, lost, active_clients,
                 kernel, asked, got, failed>>

\* Slip: the queue has no limit.
PostUnbounded ==
  /\ pc = "post"
  /\ out_queue' = Append(out_queue, msg)
  /\ msg' = NoMsg
  /\ pc' = "out"
  /\ UNCHANGED <<it, targets, at, pollfds, pool, lost, active_clients, kernel,
                 history>>

\* ... and posts it, which busy waits while the queue is full.
Post ==
  /\ pc = "post"
  /\ Len(out_queue) < OutSize
  /\ out_queue' = Append(out_queue, msg)
  /\ msg' = NoMsg
  /\ pc' = "out"
  /\ UNCHANGED <<it, targets, at, pollfds, pool, lost, active_clients, kernel,
                 history>>

\* The turn of POLLOUT.
Out == pc = "out" \/ (pc = "scan" /\ It.revents \cap {"hup", "in"} = {})

NothingToSend ==
  /\ Out
  /\ "out" \notin It.revents \/ out_queue = <<>>
  /\ Continue
  /\ UNCHANGED <<targets, at, msg, pollfds, buffers, active_clients, kernel,
                 history>>

\* Slip: the message is read, but stays in the queue.
PopCopies ==
  /\ Out
  /\ "out" \in It.revents /\ out_queue # <<>>
  /\ msg' = Head(out_queue)
  /\ targets' = IF msg'.fd = 0 THEN [i \in DOMAIN pollfds |-> pollfds[i].fd]
                               ELSE <<msg'.fd>>
  /\ at' = 1
  /\ pc' = "send"
  /\ UNCHANGED <<it, pollfds, buffers, active_clients, kernel, history>>

\* try_pop
Pop ==
  /\ Out
  /\ "out" \in It.revents /\ out_queue # <<>>
  /\ msg' = Head(out_queue) /\ out_queue' = Tail(out_queue)
  /\ targets' = IF msg'.fd = 0 THEN [i \in DOMAIN pollfds |-> pollfds[i].fd]
                               ELSE <<msg'.fd>>
  /\ at' = 1
  /\ pc' = "send"
  /\ UNCHANGED <<it, pollfds, pool, lost, active_clients, kernel, history>>

\* Slip: the client whose turn it is is left out.
ReceivesOthers(fd) == fd # m_fd /\ fd \in active_clients /\ fd # It.fd

\* on_out
Receives(fd) == fd # m_fd /\ fd \in active_clients

Sending == pc = "send" /\ at <= Len(targets)

\* A broadcast passes over the listening socket and filtered clients.
Skip ==
  /\ Sending /\ msg.fd = 0
  /\ ~Receives(targets[at])
  /\ at' = at + 1
  /\ UNCHANGED <<pc, it, targets, msg, pollfds, buffers, active_clients, kernel,
                 history>>

\* A filtered message to one client: continue, without release_buf.
Filtered ==
  /\ Sending /\ msg.fd # 0
  /\ ~Receives(targets[at])
  /\ lost' = lost \cup {msg.buf}
  /\ msg' = NoMsg /\ targets' = <<>> /\ at' = 1
  /\ Continue
  /\ UNCHANGED <<pollfds, pool, out_queue, active_clients, kernel, history>>

WriteReady ==
  /\ Sending /\ Receives(targets[at])
  /\ LinkOf(targets[at]) \in {"up", "fin"} /\ peer[targets[at]] \notin slow

\* send() blocks until the client has room.
Write ==
  /\ WriteReady
  /\ got' = [got EXCEPT ![peer[targets[at]]] = msg.id]
  /\ at' = at + 1
  /\ UNCHANGED <<pc, it, targets, msg, pollfds, buffers, active_clients, kernel,
                 asked, failed, reads>>

\* Slip: the target is erased, counted from 1.
EraseBefore ==
  /\ pollfds' = RemoveAt(pollfds, at - 1)
  /\ UNCHANGED <<targets, pc>>

\* m_pollfds.erase( it ) in the send loop.  The loop walks on to the end that
\* was, over memory where the last element is still to be found.  A second
\* erase may be at end(), which is undefined: it drops the last element, or
\* moves memory of a negative size.
Erase ==
  \/ /\ it <= Len(pollfds)
     /\ pollfds' = RemoveAt(pollfds, it)
     /\ targets' = [i \in DOMAIN targets |->
                      IF it <= i /\ i < Len(pollfds) THEN targets[i + 1]
                                                     ELSE targets[i]]
     /\ pc' = pc
  \/ /\ it > Len(pollfds)
     /\ pollfds' = Front(pollfds)
     /\ pc' \in {pc, "dead"}
     /\ UNCHANGED targets

WriteFails ==
  /\ Sending /\ Receives(targets[at])
  /\ LinkOf(targets[at]) \in {"closed", "rst"}
  /\ CloseFd(targets[at])
  /\ Erase
  /\ at' = at + 1
  /\ failed' = TRUE
  /\ UNCHANGED <<it, msg, buffers, active_clients, asked, got, reads>>

\* send() has no MSG_NOSIGNAL: SIGPIPE ends the process.
WriteKills ==
  /\ Sending /\ Receives(targets[at])
  /\ LinkOf(targets[at]) = "pipe"
  /\ pc' = "dead"
  /\ UNCHANGED <<it, targets, at, msg, pollfds, buffers, active_clients, kernel,
                 history>>

\* Slip: no release_buf after the loop.
ReleaseForgotten ==
  /\ pc = "send" /\ at > Len(targets)
  /\ msg' = NoMsg /\ targets' = <<>> /\ at' = 1
  /\ Continue
  /\ UNCHANGED <<pollfds, buffers, active_clients, kernel, history>>

Release ==
  /\ pc = "send" /\ at > Len(targets)
  /\ pool' = pool \cup {msg.buf}
  /\ msg' = NoMsg /\ targets' = <<>> /\ at' = 1
  /\ Continue
  /\ UNCHANGED <<pollfds, out_queue, lost, active_clients, kernel, history>>

Server ==
  \/ Poll \/ PollFails \/ HangUp \/ Accept \/ AcceptFails
  \/ ReadFails \/ Subscribe \/ Share \/ Post
  \/ NothingToSend \/ Pop \/ Skip \/ Filtered \/ Write \/ WriteFails
  \/ WriteKills \/ Release

Next == Server \/ Client

Spec == Init /\ [][Next]_vars

-----------------------------------------------------------------------------
(* Safety.                                                                 *)

Queued == {out_queue[i].buf : i \in DOMAIN out_queue}
InHand == IF msg = NoMsg THEN {} ELSE {msg.buf}

\* Every buffer is in one place: free, in one queued message, in the message
\* that is being posted or sent, or lost.
OnePlace ==
  /\ \A i, j \in DOMAIN out_queue :
       i # j => out_queue[i].buf # out_queue[j].buf
  /\ pool \cap Queued = {} /\ pool \cap InHand = {} /\ Queued \cap InHand = {}
  /\ lost \cap (pool \cup Queued \cup InHand) = {}
  /\ pool \cup Queued \cup InHand \cup lost = Bufs

\* get_buf() never waits as long as no buffer is lost to a filtered message: the
\* queue is smaller than the pool and messages come back after they were sent.
\* (An empty pool would end the thread's work; the branch that postpones the
\* client is dead.)
GetNeverWaits == lost = {} /\ Readable /\ It.fd # m_fd => pool # {}

\* However many writes of one broadcast fail, and wherever `it` points then,
\* the first element of m_pollfds is the listening socket: run() never finds
\* m_pollfds empty and goes on accepting.
ListenerStays == pollfds # <<>> /\ pollfds[1].fd = m_fd

\* Each client is in m_pollfds exactly once, as long as it is connected.
EveryClientPolled ==
  \A fd \in Fds :
    Cardinality({i \in DOMAIN pollfds : pollfds[i].fd = fd})
      = IF peer[fd] = NoClient THEN 0 ELSE 1

\* Clients who come, go and reset leave m_pollfds in step with the connections:
\* only the erase after a failed broadcast write upsets it.
PolledUntilAWriteFails == ~failed => EveryClientPolled

\* Until then each client gets the messages in the order they were read in,
\* none twice, although any client that is writable starts the next message.
OnceInOrder == ~failed /\ WriteReady => got[peer[targets[at]]] < msg.id

\* on_read's post never waits for the thread that it runs in.
NeverWaitsForItself == pc = "post" => Len(out_queue) < OutSize

\* on_disconnect ends a subscription: a descriptor that is subscribed belongs
\* to a client who asked.
SubscribersAsked ==
  \A fd \in active_clients : peer[fd] # NoClient => peer[fd] \in asked

-----------------------------------------------------------------------------
(* Liveness.                                                               *)

\* The thread runs.  ::poll keeps working; the clients do what they like.
Fairness == WF_vars(Server /\ pc' # "done")

FairSpec == Spec /\ Fairness

Subscribed(c) == \E fd \in active_clients : peer[fd] = c

\* What a subscribed client sends is received by each client who is subscribed
\* then, the sender too, unless it goes away before.
Served ==
  \A c \in Clients, n \in 1..MaxReads :
    (pc = "post" /\ msg.id = n /\ Subscribed(c))
      ~> (got[c] >= n \/ link[c] # "up" \/ pc = "done")
=============================================================================
