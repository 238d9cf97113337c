------------------------------ MODULE FixClient ------------------------------
(***************************************************************************)
(* The FIX client of include/fix_client.h on top of include/tcp_client.h,  *)
(* driven as test/lmax_cli/main.cpp drives it: the main thread connects,   *)
(* posts the logon, starts the consumer thread and runs poll(); the        *)
(* consumer thread runs consume_in().  The threads share the buffer pool,  *)
(* the handler's in_queue, the m_outgoing queue and the descriptor m_fd.   *)
(*                                                                         *)
(* An action is a stretch of one thread's code that touches shared state   *)
(* at most once; a busy wait (pop of an empty atomic queue, push to a full *)
(* one) is an action that is not enabled.                                  *)
(*                                                                         *)
(* The parse of one read is abstracted to its outcome (a member of Reads): *)
(* the messages the handler pushes and how its loop ends.  Module          *)
(* FixHandler models the parser itself and shows that these are its        *)
(* outcomes.                                                               *)
(***************************************************************************)
EXTENDS Naturals, Sequences, FiniteSets

CONSTANTS
  Bufs,        \* the buffers of m_bufpool, BufpoolSize of them
  NoBuf,       \* nullptr
  InSize,      \* capacity of in_queue
  OutSize,     \* capacity of m_outgoing
  Tails,       \* how a parse may end: a subset of AllTails
  MaxPerRead,  \* bound: messages in one read
  MaxReads,    \* bound: successful reads of a connection
  Window       \* the server stays silent while this much work is unanswered

AllTails == {"exact",     \* the last message ends where the data ends
             "overrun",   \* it ends beyond the data that was read
             "stuck"}     \* what follows the last message does not parse

\* Capacities are template arguments; m_outgoing has a slot for every buffer
\* of the pool in fix_tcp_client (64 and 64).
ASSUME ClientAssumption ==
  /\ IsFiniteSet(Bufs) /\ Bufs # {} /\ NoBuf \notin Bufs
  /\ InSize \in Nat \ {0}
  /\ OutSize \in Nat /\ Cardinality(Bufs) <= OutSize
  /\ Tails \subseteq AllTails
  /\ {MaxPerRead, MaxReads, Window} \subseteq Nat

\* MsgType as consume_fix_msg tells them apart: 'A', '0' or '1', the others.
MsgType == {"logon", "beat", "other"}
Msg     == [type : MsgType, buf : Bufs, final : BOOLEAN]
NoMsg   == [type |-> "other", buf |-> NoBuf, final |-> FALSE]
OutMsg  == [buf : Bufs, seq : Nat \ {0}]
NoOut   == [buf |-> NoBuf, seq |-> 0]

\* What one recv() holds, as the handler sees it: no message at all, or
\* messages followed by one of the tails.
Reads == [types : UNION {[1..n -> MsgType] : n \in 0..MaxPerRead}, tail : Tails]

VARIABLES
  open,       \* m_fd > 0
  pool,       \* free buffers of m_bufpool
  in_queue,   \* fix_handler::in_queue
  outgoing,   \* m_outgoing
  poller,     \* where the main thread is
  pollout,    \* POLLOUT in the current revents
  hand,       \* the buffer the main thread works on
  parse,      \* the rest of the read being handled, a member of Reads
  consumer,   \* where the consumer thread is
  cur,        \* the message the consumer thread handles
  reply,      \* the message the consumer thread creates
  state,      \* m_broker.state
  once,       \* g_once has fired
  seq,        \* m_broker.seq, the next MsgSeqNum
  \* what happened, for the properties:
  sent,       \* MsgSeqNum of the last message written
  lost,       \* buffers of reads that were cut and of the write that failed
  reads       \* number of successful reads

pollVars    == <<poller, pollout, hand, parse>>
consumeVars == <<consumer, cur, reply, state, once>>
history     == <<sent, lost, reads>>
vars == <<open, pool, in_queue, outgoing, pollVars, consumeVars, seq, history>>

PollerAt   == {"start", "poll", "get", "handle", "out", "written", "done"}
ConsumerAt == {"idle", "loop", "beat", "beat_post", "once", "request",
               "request_post", "release", "done"}

TypeOK ==
  /\ open \in BOOLEAN
  /\ pool \in SUBSET Bufs
  /\ in_queue \in Seq(Msg)
  /\ outgoing \in Seq(OutMsg)
  /\ poller \in PollerAt
  /\ pollout \in BOOLEAN
  /\ hand \in Bufs \cup {NoBuf}
  /\ parse \in [types : Seq(MsgType), tail : AllTails]
  /\ consumer \in ConsumerAt
  /\ cur \in Msg \cup {NoMsg}
  /\ reply \in OutMsg \cup {NoOut}
  /\ state \in {"Offline", "LoggedIn"}
  /\ once \in BOOLEAN
  /\ seq \in Nat \ {0}
  /\ sent \in Nat
  /\ lost \in SUBSET Bufs
  /\ reads \in Nat

\* connect() has returned ok; nothing is posted, no thread is started.
Init ==
  /\ open = TRUE
  /\ pool = Bufs
  /\ in_queue = <<>> /\ outgoing = <<>>
  /\ poller = "start" /\ pollout = FALSE /\ hand = NoBuf
  /\ parse = [types |-> <<>>, tail |-> "exact"]
  /\ consumer = "idle" /\ cur = NoMsg /\ reply = NoOut
  /\ state = "Offline" /\ once = FALSE
  /\ seq = 1
  /\ sent = 0 /\ lost = {} /\ reads = 0

-----------------------------------------------------------------------------
(* The main thread.                                                        *)

\* post_logon(), then the consumer thread starts and poll() is entered.
PostLogon ==
  /\ poller = "start"
  /\ \E b \in pool :
       /\ pool' = pool \ {b}
       /\ outgoing' = Append(outgoing, [buf |-> b, seq |-> seq])
  /\ seq' = seq + 1
  /\ poller' = "poll" /\ consumer' = "loop"
  /\ UNCHANGED <<open, in_queue, pollout, hand, parse, cur, reply, state, once,
                 history>>

\* close() and leave the loop; the bytes of `dropped` are never released.
Close(dropped) ==
  /\ open' = FALSE
  /\ poller' = "done"
  /\ lost' = lost \cup dropped

\* ::poll fails, or reports POLLHUP.
PollFails ==
  /\ poller = "poll"
  /\ Close({})
  /\ UNCHANGED <<pool, in_queue, outgoing, pollout, hand, parse, consumeVars,
                 seq, sent, reads>>

\* ::poll reports POLLIN, POLLOUT or both.
PollReady ==
  /\ poller = "poll"
  /\ \/ poller' = "get" /\ pollout' \in BOOLEAN
     \/ poller' = "out" /\ pollout' = TRUE
  /\ UNCHANGED <<open, pool, in_queue, outgoing, hand, parse, consumeVars, seq,
                 history>>

\* Where an iteration goes after its POLLIN part.
AfterIn == IF pollout THEN "out" ELSE "poll"

\* The work the server has given the client and has no answer to.
Unanswered ==
  Len(in_queue) + Len(outgoing) + (IF cur = NoMsg THEN 0 ELSE 1)

\* get_buf() busy waits for a buffer, read() fills it.
ReadData ==
  /\ poller = "get"
  /\ reads < MaxReads /\ Unanswered < Window
  /\ \E b \in pool : pool' = pool \ {b} /\ hand' = b
  /\ parse' \in Reads
  /\ reads' = reads + 1
  /\ poller' = "handle"
  /\ UNCHANGED <<open, in_queue, outgoing, pollout, consumeVars, seq, sent,
                 lost>>

\* Slip: the buffer of the previous read goes back instead.
ReadFailsReleasesHand ==
  /\ poller = "get"
  /\ pool # {}
  /\ pool' = pool \cup {hand}
  /\ Close({})
  /\ UNCHANGED <<in_queue, outgoing, pollout, hand, parse, consumeVars, seq,
                 sent, reads>>

\* read() returns 0 or an error: the buffer goes straight back.
ReadFails ==
  /\ poller = "get"
  /\ pool # {}
  /\ Close({})
  /\ UNCHANGED <<pool, in_queue, outgoing, pollout, hand, parse, consumeVars,
                 seq, sent, reads>>

\* Slip: the handler returns false although nobody got the buffer.
HandlerKeeps ==
  /\ poller = "handle"
  /\ parse.types = <<>>
  /\ hand' = NoBuf
  /\ poller' = AfterIn
  /\ UNCHANGED <<open, pool, in_queue, outgoing, pollout, parse, consumeVars,
                 seq, history>>

\* The handler finds no valid message and returns true: poll() releases.
HandlerRejects ==
  /\ poller = "handle"
  /\ parse.types = <<>>
  /\ pool' = pool \cup {hand}
  /\ hand' = NoBuf
  /\ poller' = AfterIn
  /\ UNCHANGED <<open, in_queue, outgoing, pollout, parse, consumeVars, seq,
                 history>>

LastPush == Len(parse.types) = 1

\* Slip: every message of a read that parses to its end is final.
EveryPushFinal ==
  [type |-> Head(parse.types), buf |-> hand, final |-> parse.tail = "exact"]

\* Slip: the last message is final even if the parse did not end with it.
LastPushFinal == [type |-> Head(parse.types), buf |-> hand, final |-> LastPush]

\* Slip: a message is final if there is a loss.
FinalOnLoss ==
  [type |-> Head(parse.types), buf |-> hand,
   final |-> LastPush /\ parse.tail # "exact"]

\* The message the handler pushes next; is_final is loss == 0.
NextPush ==
  [type  |-> Head(parse.types),
   buf   |-> hand,
   final |-> LastPush /\ parse.tail = "exact"]

Push ==
  /\ poller = "handle"
  /\ parse.types # <<>>
  /\ Len(in_queue) < InSize
  /\ in_queue' = Append(in_queue, NextPush)
  /\ UNCHANGED <<open, pool, outgoing, pollout, consumeVars, seq, sent, reads>>

\* More of the read follows.
HandlerPushes ==
  /\ Push
  /\ ~LastPush
  /\ parse' = [parse EXCEPT !.types = Tail(@)]
  /\ UNCHANGED <<poller, hand, lost>>

\* The rest does not parse, but `valid` and `end_` keep the values of the
\* message before: the loop pushes that message again, for ever.
HandlerRepeats ==
  /\ Push
  /\ LastPush /\ parse.tail = "stuck"
  /\ UNCHANGED <<poller, hand, parse, lost>>

\* The handler returns false: the buffer is left to the messages' consumer,
\* who releases it with the final message, if there is one.  A read that was cut
\* has none.
HandlerReturns ==
  /\ Push
  /\ LastPush /\ parse.tail # "stuck"
  /\ parse' = [parse EXCEPT !.types = Tail(@)]
  /\ hand' = NoBuf
  /\ poller' = AfterIn
  /\ lost' = IF parse.tail = "overrun" THEN lost \cup {hand} ELSE lost

NothingToSend ==
  /\ poller = "out"
  /\ outgoing = <<>>
  /\ poller' = "poll"
  /\ UNCHANGED <<open, pool, in_queue, outgoing, pollout, hand, parse,
                 consumeVars, seq, history>>

\* try_pop and a write() that returns more than 0.
Write ==
  /\ poller = "out"
  /\ outgoing # <<>>
  /\ outgoing' = Tail(outgoing)
  /\ hand' = Head(outgoing).buf
  /\ sent' = Head(outgoing).seq
  /\ poller' = "written"
  /\ UNCHANGED <<open, pool, in_queue, pollout, parse, consumeVars, seq, lost,
                 reads>>

\* write() fails: the connection is closed and msg.buf is not released.
WriteFails ==
  /\ poller = "out"
  /\ outgoing # <<>>
  /\ outgoing' = Tail(outgoing)
  /\ Close({Head(outgoing).buf})
  /\ UNCHANGED <<pool, in_queue, pollout, hand, parse, consumeVars, seq, sent,
                 reads>>

\* Slip: the buffer that was written is forgotten.
ForgetWritten ==
  /\ poller = "written"
  /\ hand' = NoBuf
  /\ poller' = "poll"
  /\ UNCHANGED <<open, pool, in_queue, outgoing, pollout, parse, consumeVars,
                 seq, history>>

ReleaseWritten ==
  /\ poller = "written"
  /\ pool' = pool \cup {hand}
  /\ hand' = NoBuf
  /\ poller' = "poll"
  /\ UNCHANGED <<open, in_queue, outgoing, pollout, parse, consumeVars, seq,
                 history>>

-----------------------------------------------------------------------------
(* The consumer thread.                                                    *)

\* try_pop succeeds.  The loop tested m_fd before it, without a lock: the
\* connection may be closed by now.
Consume ==
  /\ consumer = "loop"
  /\ in_queue # <<>>
  /\ cur' = Head(in_queue)
  /\ in_queue' = Tail(in_queue)
  /\ consumer' = IF cur'.type = "beat" THEN "beat" ELSE "once"
  /\ state' = IF cur'.type = "logon" THEN "LoggedIn" ELSE state
  /\ UNCHANGED <<open, pool, outgoing, pollVars, reply, once, seq, history>>

\* Slip: an empty in_queue ends the loop.
ConsumerExitsWhenIdle ==
  /\ consumer = "loop"
  /\ in_queue = <<>>
  /\ consumer' = "done"
  /\ UNCHANGED <<open, pool, in_queue, outgoing, pollVars, cur, reply, state,
                 once, seq, history>>

ConsumerExits ==
  /\ consumer = "loop"
  /\ ~open
  /\ consumer' = "done"
  /\ UNCHANGED <<open, pool, in_queue, outgoing, pollVars, cur, reply, state,
                 once, seq, history>>

\* Slip: the reply is written over the message it answers.
CreateInPlace(from, to) ==
  /\ consumer = from
  /\ reply' = [buf |-> cur.buf, seq |-> seq]
  /\ seq' = seq + 1
  /\ consumer' = to
  /\ UNCHANGED <<open, pool, in_queue, outgoing, pollVars, cur, state, once,
                 history>>

\* Slip: the sequence number is read but not advanced.
CreateSameNumber(from, to) ==
  /\ consumer = from
  /\ \E b \in pool :
       /\ pool' = pool \ {b}
       /\ reply' = [buf |-> b, seq |-> seq]
  /\ consumer' = to
  /\ UNCHANGED <<open, in_queue, outgoing, pollVars, cur, state, once, seq,
                 history>>

\* get_buf() busy waits, create_*() takes the next sequence number.
Create(from, to) ==
  /\ consumer = from
  /\ \E b \in pool :
       /\ pool' = pool \ {b}
       /\ reply' = [buf |-> b, seq |-> seq]
  /\ seq' = seq + 1
  /\ consumer' = to
  /\ UNCHANGED <<open, in_queue, outgoing, pollVars, cur, state, once, history>>

\* post() busy waits while m_outgoing is full.
Post(from, to) ==
  /\ consumer = from
  /\ Len(outgoing) < OutSize
  /\ outgoing' = Append(outgoing, reply)
  /\ reply' = NoOut
  /\ consumer' = to
  /\ UNCHANGED <<open, pool, in_queue, pollVars, cur, state, once, seq, history>>

\* post_heartbeat() and post_market_request()
CreateHeartbeat == Create("beat", "beat_post")
PostHeartbeat   == Post("beat_post", "once")
CreateRequest   == Create("request", "request_post")
PostRequest     == Post("request_post", "release")

\* Slip: the flag is set before it is looked at.
CallOnceSpent ==
  /\ consumer = "once"
  /\ once' = TRUE
  /\ consumer' = IF ~once' /\ state = "LoggedIn" THEN "request" ELSE "release"
  /\ UNCHANGED <<open, pool, in_queue, outgoing, pollVars, cur, reply, state,
                 seq, history>>

\* std::call_once: the first message handled decides about the request.
CallOnce ==
  /\ consumer = "once"
  /\ once' = TRUE
  /\ consumer' = IF ~once /\ state = "LoggedIn" THEN "request" ELSE "release"
  /\ UNCHANGED <<open, pool, in_queue, outgoing, pollVars, cur, reply, state,
                 seq, history>>

Release ==
  /\ consumer = "release"
  /\ pool' = IF cur.final THEN pool \cup {cur.buf} ELSE pool
  /\ cur' = NoMsg
  /\ consumer' = "loop"
  /\ UNCHANGED <<open, in_queue, outgoing, pollVars, reply, state, once, seq,
                 history>>

-----------------------------------------------------------------------------
MainThread ==
  \/ PostLogon \/ PollFails \/ PollReady
  \/ ReadData \/ ReadFails
  \/ HandlerRejects \/ HandlerPushes \/ HandlerRepeats \/ HandlerReturns
  \/ NothingToSend \/ Write \/ WriteFails \/ ReleaseWritten

ConsumerThread ==
  \/ Consume \/ ConsumerExits \/ CallOnce \/ Release
  \/ CreateHeartbeat \/ PostHeartbeat \/ CreateRequest \/ PostRequest

Next == MainThread \/ ConsumerThread

Spec == Init /\ [][Next]_vars

-----------------------------------------------------------------------------
(* Safety.                                                                 *)

Queued == {in_queue[i].buf : i \in DOMAIN in_queue}
Posted == {outgoing[i].buf : i \in DOMAIN outgoing}

\* A free buffer is used by no one: no message that still waits, or is being
\* handled, points into a buffer that was released (the release_buf calls of
\* poll(), line 147 and line 164, and of consume_in()).
NoUseAfterRelease ==
  pool \cap (Queued \cup Posted \cup {cur.buf, hand, reply.buf}) = {}

\* An outgoing message has its buffer to itself until it is written: no other
\* outgoing message, no unread incoming message and neither thread's current
\* work is in the same memory.
PostedIsPrivate ==
  /\ \A i, j \in DOMAIN outgoing :
       i # j => outgoing[i].buf # outgoing[j].buf
  /\ Posted \cap (Queued \cup {cur.buf, hand, reply.buf}) = {}

\* Which thread works on what, at each point of its code.
Stages ==
  /\ (hand # NoBuf) <=> poller \in {"handle", "written"}
  /\ (reply # NoOut) <=> consumer \in {"beat_post", "request_post"}
  /\ (cur # NoMsg) <=> consumer \notin {"idle", "loop", "done"}
  /\ poller = "start" <=> consumer = "idle"

\* A message marked final is the last one of its buffer: behind it in the
\* queue, and in the parser's hand, there are only other buffers.
FinalIsLast ==
  /\ \A i, j \in DOMAIN in_queue :
       in_queue[i].final /\ i < j => in_queue[i].buf # in_queue[j].buf
  /\ cur.final => cur.buf \notin Queued
  /\ poller = "handle" =>
       /\ ~(cur.final /\ cur.buf = hand)
       /\ \A i \in DOMAIN in_queue : ~(in_queue[i].final /\ in_queue[i].buf = hand)

\* Memory that is being written to, or may be handed back, is not read from.
WorkIsPrivate ==
  /\ reply # NoOut => reply.buf \notin Queued \cup {cur.buf, hand}
  /\ poller = "written" \/ (poller = "handle" /\ parse.types = <<>>) =>
       hand \notin Queued \cup {cur.buf}

\* The discipline that makes sharing the buffers safe; it is inductive.
Discipline ==
  /\ Stages /\ FinalIsLast /\ WorkIsPrivate
  /\ NoUseAfterRelease /\ PostedIsPrivate

\* MsgSeqNum is taken in create_*() and the message is posted later, but the
\* messages reach the wire in the order of their numbers, without a gap: each
\* write carries the number after the one before.
WireInOrder == [][poller = "out" /\ poller' = "written" => sent' = sent + 1]_vars

\* post() busy waits on a full m_outgoing, but never finds it full: every
\* message in it holds a buffer of the pool, and so does the one posted.
PostNeverWaits ==
  consumer \in {"beat_post", "request_post"} => Len(outgoing) < OutSize

\* The main thread waits for the pool, or for room in in_queue ...
PollerBlocked ==
  \/ poller = "get" /\ pool = {}
  \/ poller = "handle" /\ parse.types # <<>> /\ Len(in_queue) = InSize

\* ... and the consumer thread waits for the pool.
ConsumerBlocked == consumer \in {"beat", "request"} /\ pool = {}

\* The threads never wait for each other: each is the only one who can give
\* the other what it waits for, by writing or by consuming.
NoMutualWait == ~(PollerBlocked /\ ConsumerBlocked)

\* A final message of the buffer waits or is being handled: the application
\* will release it.
Final(m, b) == m.buf = b /\ m.final
WithApp(b)  == Final(cur, b) \/ \E i \in DOMAIN in_queue : Final(in_queue[i], b)

\* The buffers that will be in the pool again, if the threads go on.
Circulating ==
  {b \in Bufs : b \in pool \cup Posted \cup {hand, reply.buf} \/ WithApp(b)}

\* Neither thread leaks a buffer, whichever way the queues, the replies, the
\* rejected reads and the end of the connection meet: out of circulation are
\* those of reads that were cut and of the write that failed.  (Each cut read
\* costs its buffer for good: no message of it is final.)
OnlyCutReadsLeak == Bufs \ Circulating = lost

\* The place of each buffer, for module BufferLife: "app" needs a final
\* message, without one nobody would release the buffer.
OwnerOf(b) ==
  CASE b \in pool -> "pool"
    [] b \in lost -> "lost"
    [] b = hand -> IF poller = "handle" THEN "read" ELSE "written"
    [] b = reply.buf -> "reply"
    [] b \in Posted -> "posted"
    [] WithApp(b) -> "app"
    [] OTHER -> "nowhere"

Life == INSTANCE BufferLife WITH owner <- [b \in Bufs |-> OwnerOf(b)]

\* Every step moves at most one buffer, along a path the README allows.
BuffersFollowLife == Life!Spec

-----------------------------------------------------------------------------
(* Liveness.                                                               *)

\* The operating system runs both threads.  ::poll reports an event sooner or
\* later, for the socket is writable once the server reads; a thread that
\* waits for a buffer is served in the order of its ticket (the atomic queue
\* counts its poppers), hence strong fairness.  Nothing is assumed about the
\* server: neither that it sends nor that it keeps the connection.
Fairness ==
  /\ WF_vars(PostLogon) /\ WF_vars(PollReady)
  /\ SF_vars(ReadData \/ ReadFails)
  /\ WF_vars(HandlerRejects \/ HandlerPushes \/ HandlerRepeats \/ HandlerReturns)
  /\ WF_vars(NothingToSend \/ Write \/ WriteFails) /\ WF_vars(ReleaseWritten)
  /\ WF_vars(Consume \/ ConsumerExits) /\ WF_vars(CallOnce) /\ WF_vars(Release)
  /\ SF_vars(CreateHeartbeat) /\ SF_vars(CreateRequest)
  /\ WF_vars(PostHeartbeat) /\ WF_vars(PostRequest)

FairSpec == Spec /\ Fairness

\* A heartbeat or a test request that was taken from in_queue is answered on
\* the wire, unless the connection goes down first.
BeatAnswered ==
  \A n \in 2..MaxReads + 2 :
    (consumer = "beat" /\ seq = n) ~> (sent >= n \/ ~open)

\* A session whose first message is the logon has its market request on the
\* wire, unless the connection goes down first.  (One whose first message is
\* another one never posts the request: the flag is spent.)
RequestFollowsLogon ==
  \A n \in 2..MaxReads + 2 :
    (consumer = "once" /\ ~once /\ state = "LoggedIn" /\ seq = n)
      ~> (sent >= n \/ ~open)

\* in_queue is read to the end, unless the connection goes down: what it holds
\* then is left behind.
InQueueDrains == (in_queue # <<>>) ~> (in_queue = <<>> \/ ~open)
=============================================================================
