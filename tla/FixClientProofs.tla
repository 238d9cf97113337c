--------------------------- MODULE FixClientProofs ---------------------------
(***************************************************************************)
(* Theorems about FixClient for every number of buffers, every capacity    *)
(* and every set of parse outcomes.                                        *)
(***************************************************************************)
EXTENDS FixClient, QueueLemmas

(***************************************************************************)
(* Type correctness.  A thread's current buffer or message exists only at  *)
(* some points of its code, so types and stages are proved together.       *)
(***************************************************************************)

\* What a read contributes has the type of `parse`.
LEMMA ReadsType == Reads \subseteq [types : Seq(MsgType), tail : AllTails]
<1>1. ASSUME NEW n \in 0..MaxPerRead
      PROVE  [1..n -> MsgType] \subseteq Seq(MsgType)
  <2>1. n \in Nat
    BY ClientAssumption DEF ClientAssumption
  <2>. QED
    BY <2>1, SeqDef
<1>2. UNION {[1..n -> MsgType] : n \in 0..MaxPerRead} \subseteq Seq(MsgType)
  BY <1>1
<1>. QED
  BY <1>2, ClientAssumption DEF Reads, ClientAssumption

\* "No message" is not one, for its buffer is none.
LEMMA NotAMessage == NoMsg \notin Msg /\ NoOut \notin OutMsg
BY ClientAssumption DEF ClientAssumption, NoMsg, NoOut, Msg, OutMsg

\* The initial state has its types.
LEMMA TypeInit == Init => TypeOK /\ Stages
<1>. SUFFICES ASSUME Init PROVE TypeOK /\ Stages
  OBVIOUS
<1>1. parse \in [types : Seq(MsgType), tail : AllTails]
  BY EmptySeq DEF Init, AllTails
<1>2. in_queue \in Seq(Msg) /\ outgoing \in Seq(OutMsg)
  BY EmptySeq DEF Init
<1>3. /\ open \in BOOLEAN /\ pool \in SUBSET Bufs
      /\ poller \in PollerAt /\ pollout \in BOOLEAN
      /\ hand \in Bufs \cup {NoBuf} /\ lost \in SUBSET Bufs
  BY DEF Init, PollerAt
<1>4. /\ cur \in Msg \cup {NoMsg} /\ reply \in OutMsg \cup {NoOut}
      /\ consumer \in ConsumerAt
      /\ state \in {"Offline", "LoggedIn"} /\ once \in BOOLEAN
  BY DEF Init, ConsumerAt
<1>5. seq \in Nat \ {0} /\ sent \in Nat /\ reads \in Nat
  BY DEF Init
<1>6. Stages
  BY DEF Init, Stages
<1>. QED
  BY <1>1, <1>2, <1>3, <1>4, <1>5, <1>6 DEF TypeOK

\* The message that is pushed is well formed: its buffer is at hand.
LEMMA PushType ==
  ASSUME TypeOK, Stages, Push
  PROVE  /\ NextPush \in Msg
         /\ parse.types \in Seq(MsgType) /\ Len(parse.types) \in Nat \ {0}
         /\ in_queue' \in Seq(Msg)
<1>1. hand \in Bufs
  BY DEF TypeOK, Stages, Push
<1>2. Head(parse.types) \in MsgType /\ Len(parse.types) \in Nat \ {0}
  BY PopFront DEF TypeOK, Push
<1>3. NextPush \in Msg
  BY <1>1, <1>2, Zenon DEF NextPush, Msg
<1>. QED
  BY <1>2, <1>3, PushBack DEF TypeOK, Push

\* The steps of the parser's loop keep the types and stages.
LEMMA TypePush ==
  ASSUME TypeOK, Stages, HandlerPushes \/ HandlerRepeats \/ HandlerReturns
  PROVE  TypeOK' /\ Stages'
<1>. USE DEF TypeOK, Stages, PollerAt, ConsumerAt, consumeVars
<1>1. Push
  BY DEF HandlerPushes, HandlerRepeats, HandlerReturns
<1>2. parse' \in [types : Seq(MsgType), tail : AllTails]
  <2>1. CASE HandlerRepeats
    BY <2>1 DEF HandlerRepeats
  <2>2. CASE HandlerPushes \/ HandlerReturns
    <3>1. Tail(parse.types) \in Seq(MsgType)
      BY <1>1, PopFront DEF Push
    <3>2. parse' = [parse EXCEPT !.types = Tail(parse.types)]
      BY <2>2, Zenon DEF HandlerPushes, HandlerReturns
    <3>. QED
      BY <3>1, <3>2
  <2>. QED
    BY <2>1, <2>2
<1>3. lost' \subseteq Bufs /\ hand' \in Bufs \cup {NoBuf}
  BY <1>1 DEF Push, HandlerPushes, HandlerRepeats, HandlerReturns
<1>4. /\ poller' \in PollerAt
      /\ hand' # NoBuf <=> poller' \in {"handle", "written"}
      /\ poller' # "start"
  BY <1>1 DEF Push, HandlerPushes, HandlerRepeats, HandlerReturns, AfterIn
<1>. QED
  BY <1>1, <1>2, <1>3, <1>4, PushType DEF Push

\* The other steps of the main thread keep the types and stages.
LEMMA TypeMain ==
  ASSUME TypeOK, Stages, MainThread
  PROVE  TypeOK' /\ Stages'
<1>. USE DEF TypeOK, Stages, PollerAt, ConsumerAt, pollVars, consumeVars, history
<1>1. CASE PostLogon
  <2>1. ASSUME NEW b \in pool
        PROVE  [buf |-> b, seq |-> seq] \in OutMsg
    BY DEF OutMsg
  <2>. QED
    BY <1>1, <2>1, PushBack DEF PostLogon
<1>2. CASE PollFails
  BY <1>2 DEF PollFails, Close
<1>3. CASE PollReady
  BY <1>3 DEF PollReady
<1>4. CASE ReadData
  BY <1>4, ReadsType, ClientAssumption DEF ReadData, ClientAssumption
<1>5. CASE ReadFails
  BY <1>5 DEF ReadFails, Close
<1>6. CASE HandlerRejects
  BY <1>6 DEF HandlerRejects, AfterIn
<1>7. CASE HandlerPushes \/ HandlerRepeats \/ HandlerReturns
  BY <1>7, TypePush
<1>8. CASE NothingToSend
  BY <1>8 DEF NothingToSend
<1>9. CASE Write
  <2>1. Head(outgoing) \in OutMsg /\ Tail(outgoing) \in Seq(OutMsg)
    BY <1>9, PopFront DEF Write
  <2>2. hand' \in Bufs /\ sent' \in Nat
    BY <1>9, <2>1 DEF Write, OutMsg
  <2>3. hand' # NoBuf
    BY <2>2, ClientAssumption DEF ClientAssumption
  <2>. QED
    BY <1>9, <2>1, <2>2, <2>3 DEF Write
<1>10. CASE WriteFails
  <2>1. Head(outgoing) \in OutMsg /\ Tail(outgoing) \in Seq(OutMsg)
    BY <1>10, PopFront DEF WriteFails
  <2>2. Head(outgoing).buf \in Bufs
    BY <2>1 DEF OutMsg
  <2>. QED
    BY <1>10, <2>1, <2>2 DEF WriteFails, Close
<1>11. CASE ReleaseWritten
  BY <1>11 DEF ReleaseWritten
<1>. QED
  BY <1>1, <1>2, <1>3, <1>4, <1>5, <1>6, <1>7, <1>8, <1>9, <1>10, <1>11
  DEF MainThread

\* The consumer's steps keep the types and stages.
LEMMA TypeConsumer ==
  ASSUME TypeOK, Stages, ConsumerThread
  PROVE  TypeOK' /\ Stages'
<1>. USE DEF TypeOK, Stages, PollerAt, ConsumerAt, pollVars, consumeVars, history
<1>1. CASE Consume
  <2>1. cur' \in Msg /\ in_queue' \in Seq(Msg)
    BY <1>1, PopFront DEF Consume
  <2>2. cur' # NoMsg
    BY <2>1, NotAMessage
  <2>3. consumer' \in {"beat", "once"} /\ state' \in {"Offline", "LoggedIn"}
    BY <1>1 DEF Consume
  <2>. QED
    BY <1>1, <2>1, <2>2, <2>3 DEF Consume
<1>2. CASE ConsumerExits
  BY <1>2 DEF ConsumerExits
<1>3. CASE CallOnce
  BY <1>3 DEF CallOnce
<1>4. CASE Release
  <2>1. pool' \subseteq Bufs
    BY <1>4 DEF Release, Msg
  <2>. QED
    BY <1>4, <2>1 DEF Release
<1>5. CASE CreateHeartbeat \/ CreateRequest
  <2>1. PICK b \in pool : pool' = pool \ {b} /\ reply' = [buf |-> b, seq |-> seq]
    BY <1>5 DEF CreateHeartbeat, CreateRequest, Create
  <2>2. reply' \in OutMsg
    BY <2>1 DEF OutMsg
  <2>3. reply' # NoOut
    BY <2>2, NotAMessage
  <2>. QED
    BY <1>5, <2>1, <2>2, <2>3 DEF CreateHeartbeat, CreateRequest, Create
<1>6. CASE PostHeartbeat \/ PostRequest
  <2>1. reply \in OutMsg /\ outgoing' = Append(outgoing, reply)
    BY <1>6 DEF PostHeartbeat, PostRequest, Post
  <2>2. outgoing' \in Seq(OutMsg)
    BY <2>1, PushBack
  <2>. QED
    BY <1>6, <2>2 DEF PostHeartbeat, PostRequest, Post
<1>. QED
  BY <1>1, <1>2, <1>3, <1>4, <1>5, <1>6 DEF ConsumerThread

\* Every step keeps types and stages.
LEMMA TypeStep == TypeOK /\ Stages /\ [Next]_vars => TypeOK' /\ Stages'
<1>. SUFFICES ASSUME TypeOK, Stages, [Next]_vars
              PROVE  TypeOK' /\ Stages'
  OBVIOUS
<1>1. CASE UNCHANGED vars
  BY <1>1 DEF vars, pollVars, consumeVars, history, TypeOK, Stages
<1>. QED
  BY <1>1, TypeMain, TypeConsumer DEF Next

\* Every variable keeps its type, and each thread has a buffer or a message at
\* hand exactly at the points of its code where it uses one.
THEOREM TypeCorrect == Spec => [](TypeOK /\ Stages)
BY TypeInit, TypeStep, PTL DEF Spec

(***************************************************************************)
(* The buffer discipline.  It is inductive together with TypeOK: a message *)
(* that is final is the last of its buffer, so whoever releases the buffer *)
(* is the last to use it.                                                  *)
(***************************************************************************)

\* The queues hold buffers of the pool.
LEMMA PlacesType ==
  ASSUME TypeOK
  PROVE  /\ \A i \in DOMAIN in_queue : in_queue[i] \in Msg
         /\ \A i \in DOMAIN outgoing : outgoing[i] \in OutMsg
         /\ Queued \subseteq Bufs /\ Posted \subseteq Bufs
         /\ NoBuf \notin Bufs
<1>1. /\ \A i \in DOMAIN in_queue : in_queue[i] \in Msg
      /\ \A i \in DOMAIN outgoing : outgoing[i] \in OutMsg
  BY DEF TypeOK
<1>. QED
  BY <1>1, ClientAssumption DEF Queued, Posted, Msg, OutMsg, ClientAssumption

\* What is at hand when nothing is: no buffer, never a final message.
LEMMA NothingAtHand == NoMsg.buf = NoBuf /\ ~NoMsg.final /\ NoOut.buf = NoBuf
BY DEF NoMsg, NoOut

\* In the beginning no buffer is used.
LEMMA DisciplineInit == Init => Discipline
<1>. SUFFICES ASSUME Init PROVE Discipline
  OBVIOUS
<1>1. Queued = {} /\ Posted = {}
  BY DEF Init, Queued, Posted
<1>2. Stages
  BY TypeInit
<1>3. NoUseAfterRelease
  BY <1>1, NothingAtHand, ClientAssumption
  DEF Init, NoUseAfterRelease, ClientAssumption
<1>4. FinalIsLast /\ WorkIsPrivate /\ PostedIsPrivate
  BY <1>1, NothingAtHand DEF Init, FinalIsLast, WorkIsPrivate, PostedIsPrivate
<1>. QED
  BY <1>2, <1>3, <1>4 DEF Discipline

\* The parser pushes messages of the buffer at hand, and marks the last one.
LEMMA DisciplinePush ==
  ASSUME TypeOK, TypeOK', Discipline, Stages',
         HandlerPushes \/ HandlerRepeats \/ HandlerReturns
  PROVE  Discipline'
<1>. DEFINE n == Len(in_queue)
<1>1. Push
  BY DEF HandlerPushes, HandlerRepeats, HandlerReturns
<1>2. /\ NextPush \in Msg /\ NextPush.buf = hand
      /\ in_queue' = Append(in_queue, NextPush)
      /\ DOMAIN in_queue' = 1..n + 1 /\ DOMAIN in_queue = 1..n /\ n \in Nat
      /\ \A i \in 1..n : in_queue'[i] = in_queue[i]
      /\ in_queue'[n + 1] = NextPush
  BY <1>1, PushType, PushBack DEF Push, NextPush, TypeOK, Discipline
<1>3. Queued' = Queued \cup {hand}
  BY <1>2 DEF Queued
<1>4. /\ Posted' = Posted /\ outgoing' = outgoing /\ cur' = cur
      /\ reply' = reply /\ pool' = pool
      /\ hand' \in {hand, NoBuf}
      /\ hand \in Bufs /\ NoBuf \notin Bufs /\ poller = "handle"
  BY <1>1, ClientAssumption
  DEF Push, HandlerPushes, HandlerRepeats, HandlerReturns, consumeVars, Posted,
      Discipline, Stages, TypeOK, ClientAssumption
<1>5. poller' = "handle" => ~NextPush.final /\ parse'.types # <<>>
  <2>1. CASE HandlerReturns
    BY <2>1 DEF HandlerReturns, AfterIn
  <2>2. CASE HandlerRepeats
    BY <2>2 DEF HandlerRepeats, Push, NextPush
  <2>3. CASE HandlerPushes
    <3>1. Len(parse.types) # 1 /\ ~NextPush.final
      BY <2>3 DEF HandlerPushes, NextPush, LastPush
    <3>2. /\ parse.types \in Seq(MsgType) /\ parse.types # <<>>
          /\ parse'.types = Tail(parse.types)
      BY <2>3, <1>1 DEF HandlerPushes, Push, TypeOK
    <3>. QED
      BY <3>1, <3>2, MoreThanOne
  <2>. QED
    BY <2>1, <2>2, <2>3
<1>6. FinalIsLast'
  <2>1. \A i, j \in DOMAIN in_queue' :
          in_queue'[i].final /\ i < j => in_queue'[i].buf # in_queue'[j].buf
    BY <1>2, <1>4 DEF Discipline, FinalIsLast
  <2>2. cur'.final => cur'.buf \notin Queued'
    BY <1>3, <1>4 DEF Discipline, FinalIsLast
  <2>3. ASSUME poller' = "handle"
        PROVE  /\ ~(cur'.final /\ cur'.buf = hand')
               /\ \A i \in DOMAIN in_queue' :
                    ~(in_queue'[i].final /\ in_queue'[i].buf = hand')
    <3>1. hand' = hand
      BY <2>3, <1>4 DEF Stages
    <3>. QED
      BY <2>3, <3>1, <1>2, <1>4, <1>5 DEF Discipline, FinalIsLast
  <2>. QED
    BY <2>1, <2>2, <2>3 DEF FinalIsLast
<1>7. WorkIsPrivate'
  <2>1. poller' # "written"
    BY <1>4 DEF HandlerPushes, HandlerRepeats, HandlerReturns, AfterIn
  <2>2. reply' # NoOut => reply'.buf \notin Queued' \cup {cur'.buf, hand'}
    <3>1. reply # NoOut => reply.buf \in Bufs
      BY DEF TypeOK, OutMsg
    <3>. QED
      BY <3>1, <1>3, <1>4 DEF Discipline, WorkIsPrivate
  <2>. QED
    BY <1>5, <2>1, <2>2 DEF WorkIsPrivate
<1>8. NoUseAfterRelease' /\ PostedIsPrivate'
  BY <1>3, <1>4, PlacesType
  DEF Discipline, NoUseAfterRelease, PostedIsPrivate, TypeOK
<1>. QED
  BY <1>6, <1>7, <1>8 DEF Discipline

\* A step that moves no buffer and no message keeps the discipline.
LEMMA DisciplineFrame ==
  ASSUME TypeOK, Discipline, Stages',
         UNCHANGED <<pool, in_queue, outgoing, hand, parse, cur, reply>>,
         poller' = poller \/ poller' \notin {"handle", "written"}
  PROVE  Discipline'
<1>1. Queued' = Queued /\ Posted' = Posted
  BY DEF Queued, Posted
<1>2. FinalIsLast'
  BY <1>1 DEF Discipline, FinalIsLast
<1>3. WorkIsPrivate'
  BY <1>1 DEF Discipline, WorkIsPrivate
<1>4. NoUseAfterRelease' /\ PostedIsPrivate'
  BY <1>1 DEF Discipline, NoUseAfterRelease, PostedIsPrivate
<1>. QED
  BY <1>2, <1>3, <1>4 DEF Discipline

\* Nor does one that takes a free buffer to fill it.
LEMMA DisciplineTake ==
  ASSUME TypeOK, Discipline, Stages', NEW b \in pool,
         pool' = pool \ {b},
         UNCHANGED <<in_queue, outgoing, cur>>,
         \/ /\ hand' = b /\ reply' = reply
            /\ poller' = "handle"
         \/ /\ hand' = hand /\ reply'.buf = b
            /\ poller' = poller /\ parse' = parse
  PROVE  Discipline'
<1>1. Queued' = Queued /\ Posted' = Posted
  BY DEF Queued, Posted
<1>2. b \notin Queued \cup Posted \cup {cur.buf, hand, reply.buf}
  BY DEF Discipline, NoUseAfterRelease
<1>3. FinalIsLast'
  BY <1>1, <1>2 DEF Discipline, FinalIsLast, Queued
<1>4. WorkIsPrivate'
  BY <1>1, <1>2 DEF Discipline, WorkIsPrivate
<1>5. NoUseAfterRelease' /\ PostedIsPrivate'
  BY <1>1, <1>2 DEF Discipline, NoUseAfterRelease, PostedIsPrivate
<1>. QED
  BY <1>3, <1>4, <1>5 DEF Discipline

\* Nor does the release of a buffer that was at hand and that nothing else
\* refers to.
LEMMA DisciplineRelease ==
  ASSUME TypeOK, Discipline, Stages', NEW b,
         pool' = pool \cup {b} \/ pool' = pool,
         UNCHANGED <<in_queue, outgoing, reply>>,
         pool' # pool => b \notin Queued \cup Posted \cup {cur'.buf, hand', reply.buf},
         \/ /\ hand' = NoBuf /\ cur' = cur
            /\ poller' \notin {"handle", "written"}
         \/ /\ cur' = NoMsg /\ hand' = hand
            /\ poller' = poller /\ parse' = parse
  PROVE  Discipline'
<1>1. Queued' = Queued /\ Posted' = Posted
  BY DEF Queued, Posted
<1>2. NoBuf \notin Queued \cup Posted \cup pool
  BY PlacesType DEF TypeOK
<1>3. reply # NoOut => reply.buf \in Bufs
  BY DEF TypeOK, OutMsg
<1>4. FinalIsLast'
  BY <1>1, NothingAtHand DEF Discipline, FinalIsLast
<1>5. WorkIsPrivate'
  BY <1>1, <1>2, <1>3, NothingAtHand, PlacesType
  DEF Discipline, WorkIsPrivate, Stages
<1>6. NoUseAfterRelease' /\ PostedIsPrivate'
  BY <1>1, <1>2, NothingAtHand
  DEF Discipline, NoUseAfterRelease, PostedIsPrivate
<1>. QED
  BY <1>4, <1>5, <1>6 DEF Discipline

\* The write takes the oldest message from m_outgoing: its buffer is at hand,
\* or lost with the connection.
LEMMA DisciplineWrite ==
  ASSUME TypeOK, Discipline, Stages', Write \/ WriteFails
  PROVE  Discipline'
<1>. DEFINE b == Head(outgoing).buf
<1>1. /\ outgoing' = Tail(outgoing) /\ outgoing \in Seq(OutMsg)
      /\ outgoing # <<>>
      /\ in_queue' = in_queue /\ cur' = cur /\ reply' = reply /\ pool' = pool
      /\ hand = NoBuf /\ hand' \in {b, NoBuf} /\ poller' # "handle"
      /\ poller' = "written" => hand' = b
  BY DEF Write, WriteFails, Close, consumeVars, TypeOK, Discipline, Stages
<1>2. /\ b = outgoing[1].buf /\ 1 \in DOMAIN outgoing
      /\ \A i \in DOMAIN outgoing' :
            /\ i + 1 \in DOMAIN outgoing /\ outgoing'[i] = outgoing[i + 1]
            /\ i \in Nat /\ i + 1 # 1
  BY <1>1, PopFront
<1>3. Queued' = Queued
  BY <1>1 DEF Queued
<1>4. Posted' \subseteq Posted /\ b \in Posted /\ b \notin Posted'
  BY <1>2 DEF Posted, Discipline, PostedIsPrivate
<1>5. b \notin Queued \cup {cur.buf, reply.buf} /\ NoBuf \notin Posted
  BY <1>4, PlacesType DEF Discipline, PostedIsPrivate
<1>6. FinalIsLast'
  BY <1>1, <1>3 DEF Discipline, FinalIsLast
<1>7. WorkIsPrivate'
  <2>1. reply # NoOut => reply.buf \in Bufs
    BY DEF TypeOK, OutMsg
  <2>. QED
    BY <1>1, <1>3, <1>5, <2>1, PlacesType DEF Discipline, WorkIsPrivate
<1>8. NoUseAfterRelease'
  BY <1>1, <1>3, <1>4, PlacesType DEF Discipline, NoUseAfterRelease, TypeOK
<1>9. PostedIsPrivate'
  <2>1. \A i, j \in DOMAIN outgoing' :
          i # j => outgoing'[i].buf # outgoing'[j].buf
    BY <1>2 DEF Discipline, PostedIsPrivate
  <2>2. Posted' \cap (Queued' \cup {cur'.buf, hand', reply'.buf}) = {}
    BY <1>1, <1>3, <1>4, <1>5 DEF Discipline, PostedIsPrivate
  <2>. QED
    BY <2>1, <2>2 DEF PostedIsPrivate
<1>. QED
  BY <1>6, <1>7, <1>8, <1>9 DEF Discipline

\* A message joins m_outgoing with a buffer that was free, or at hand as the
\* consumer's reply.
LEMMA DisciplinePost ==
  ASSUME TypeOK, Discipline, Stages', NEW m \in OutMsg,
         outgoing' = Append(outgoing, m),
         UNCHANGED <<in_queue, cur, hand, parse>>,
         poller' = poller \/ (hand = NoBuf /\ poller' = "poll"),
         \/ m.buf \in pool /\ pool' = pool \ {m.buf} /\ reply' = reply
         \/ m = reply /\ reply' = NoOut /\ pool' = pool
  PROVE  Discipline'
<1>. DEFINE n == Len(outgoing)
<1>1. /\ DOMAIN outgoing' = 1..n + 1 /\ DOMAIN outgoing = 1..n /\ n \in Nat
      /\ \A i \in 1..n : outgoing'[i] = outgoing[i]
      /\ outgoing'[n + 1] = m
  BY PushBack DEF TypeOK
<1>2. Queued' = Queued /\ Posted' = Posted \cup {m.buf}
  BY <1>1 DEF Queued, Posted
<1>3. m.buf \in Bufs /\ m # NoOut /\ NoBuf \notin Bufs
  BY NotAMessage, PlacesType DEF OutMsg
<1>4. m.buf \notin Queued \cup Posted \cup {cur.buf, hand, reply'.buf}
  BY <1>3, NothingAtHand
  DEF Discipline, NoUseAfterRelease, PostedIsPrivate, WorkIsPrivate
<1>5. m.buf \notin pool'
  BY <1>3 DEF Discipline, NoUseAfterRelease
<1>6. FinalIsLast' /\ WorkIsPrivate'
  BY <1>2 DEF Discipline, FinalIsLast, WorkIsPrivate
<1>7. NoUseAfterRelease'
  BY <1>2, <1>3, <1>5, NothingAtHand DEF Discipline, NoUseAfterRelease, TypeOK
<1>8. PostedIsPrivate'
  <2>1. \A i, j \in DOMAIN outgoing' :
          i # j => outgoing'[i].buf # outgoing'[j].buf
    BY <1>1, <1>4 DEF Discipline, PostedIsPrivate, Posted
  <2>2. NoBuf \notin Posted
    BY PlacesType
  <2>3. Posted' \cap (Queued' \cup {cur'.buf, hand', reply'.buf}) = {}
    BY <1>2, <1>3, <1>4, <2>2, NothingAtHand DEF Discipline, PostedIsPrivate
  <2>. QED
    BY <2>1, <2>3 DEF PostedIsPrivate
<1>. QED
  BY <1>6, <1>7, <1>8 DEF Discipline

\* The consumer takes the oldest message from in_queue.
LEMMA DisciplineConsume ==
  ASSUME TypeOK, Discipline, Stages', Consume
  PROVE  Discipline'
<1>1. /\ in_queue' = Tail(in_queue) /\ in_queue \in Seq(Msg) /\ in_queue # <<>>
      /\ cur' = Head(in_queue)
      /\ UNCHANGED <<pool, outgoing, hand, parse, poller, reply>>
  BY DEF Consume, pollVars, TypeOK
<1>2. /\ cur' = in_queue[1] /\ 1 \in DOMAIN in_queue
      /\ \A i \in DOMAIN in_queue' :
            /\ i + 1 \in DOMAIN in_queue /\ in_queue'[i] = in_queue[i + 1]
            /\ i \in Nat /\ 1 < i + 1
      /\ \A i, j \in DOMAIN in_queue' : i < j => i + 1 < j + 1
  BY <1>1, PopFront
<1>3. Queued' \subseteq Queued /\ cur'.buf \in Queued /\ Posted' = Posted
  BY <1>1, <1>2 DEF Queued, Posted
<1>4. FinalIsLast'
  <2>1. \A i, j \in DOMAIN in_queue' :
          in_queue'[i].final /\ i < j => in_queue'[i].buf # in_queue'[j].buf
    BY <1>2 DEF Discipline, FinalIsLast
  <2>2. cur'.final => cur'.buf \notin Queued'
    BY <1>2 DEF Discipline, FinalIsLast, Queued
  <2>3. poller' = "handle" =>
          /\ ~(cur'.final /\ cur'.buf = hand')
          /\ \A i \in DOMAIN in_queue' :
               ~(in_queue'[i].final /\ in_queue'[i].buf = hand')
    BY <1>1, <1>2 DEF Discipline, FinalIsLast
  <2>. QED
    BY <2>1, <2>2, <2>3 DEF FinalIsLast
<1>5. WorkIsPrivate'
  BY <1>1, <1>3 DEF Discipline, WorkIsPrivate
<1>6. NoUseAfterRelease' /\ PostedIsPrivate'
  BY <1>1, <1>3 DEF Discipline, NoUseAfterRelease, PostedIsPrivate
<1>. QED
  BY <1>4, <1>5, <1>6 DEF Discipline

\* No step of the main thread breaks the discipline.
LEMMA DisciplineMain ==
  ASSUME TypeOK, TypeOK', Discipline, Stages', MainThread
  PROVE  Discipline'
<1>. USE DEF pollVars, consumeVars, history
<1>1. CASE PostLogon
  <2>1. PICK b \in pool : /\ pool' = pool \ {b}
                          /\ outgoing' = Append(outgoing, [buf |-> b, seq |-> seq])
    BY <1>1 DEF PostLogon
  <2>2. [buf |-> b, seq |-> seq] \in OutMsg
    BY <2>1 DEF TypeOK, OutMsg
  <2>3. hand = NoBuf
    BY <1>1 DEF PostLogon, Discipline, Stages
  <2>. QED
    BY <1>1, <2>1, <2>2, <2>3, DisciplinePost DEF PostLogon
<1>2. CASE PollFails \/ ReadFails
  BY <1>2, DisciplineFrame DEF PollFails, ReadFails, Close
<1>3. CASE PollReady
  BY <1>3, DisciplineFrame DEF PollReady
<1>4. CASE ReadData
  <2>1. PICK b \in pool : pool' = pool \ {b} /\ hand' = b
    BY <1>4 DEF ReadData
  <2>. QED
    BY <1>4, <2>1, DisciplineTake DEF ReadData
<1>5. CASE HandlerRejects \/ ReleaseWritten
  <2>1. /\ pool' = pool \cup {hand} /\ hand' = NoBuf
        /\ poller' \notin {"handle", "written"}
        /\ UNCHANGED <<in_queue, outgoing, cur, reply>>
    BY <1>5 DEF HandlerRejects, ReleaseWritten, AfterIn
  <2>2. hand \in Bufs /\ NoBuf \notin Bufs
    BY <1>5, PlacesType
    DEF HandlerRejects, ReleaseWritten, Discipline, Stages, TypeOK
  <2>3. hand \notin Queued \cup {cur.buf}
    BY <1>5 DEF HandlerRejects, ReleaseWritten, Discipline, WorkIsPrivate
  <2>4. hand # reply.buf
    BY <2>2, NothingAtHand DEF Discipline, WorkIsPrivate
  <2>5. hand \notin Posted
    BY DEF Discipline, PostedIsPrivate
  <2>. QED
    BY <2>1, <2>2, <2>3, <2>4, <2>5, DisciplineRelease
<1>6. CASE HandlerPushes \/ HandlerRepeats \/ HandlerReturns
  BY <1>6, DisciplinePush
<1>7. CASE NothingToSend
  BY <1>7, DisciplineFrame DEF NothingToSend
<1>8. CASE Write \/ WriteFails
  BY <1>8, DisciplineWrite
<1>. QED
  BY <1>1, <1>2, <1>3, <1>4, <1>5, <1>6, <1>7, <1>8 DEF MainThread

\* Nor does any step of the consumer.
LEMMA DisciplineConsumer ==
  ASSUME TypeOK, TypeOK', Discipline, Stages', ConsumerThread
  PROVE  Discipline'
<1>. USE DEF pollVars, consumeVars, history
<1>1. CASE Consume
  BY <1>1, DisciplineConsume
<1>2. CASE ConsumerExits \/ CallOnce
  BY <1>2, DisciplineFrame DEF ConsumerExits, CallOnce
<1>3. CASE Release
  <2>1. ASSUME cur.final
        PROVE  cur.buf \notin Queued \cup Posted \cup {NoBuf, hand, reply.buf}
    <3>1. cur \in Msg /\ cur.buf \in Bufs
      BY <1>3 DEF Release, Discipline, Stages, TypeOK, Msg
    <3>2. cur.buf # NoBuf /\ cur.buf \notin Queued
      BY <2>1, <3>1, PlacesType DEF Discipline, FinalIsLast
    <3>3. cur.buf \notin Posted
      BY DEF Discipline, PostedIsPrivate
    <3>4. cur.buf # reply.buf
      BY <3>2, NothingAtHand DEF Discipline, WorkIsPrivate
    <3>5. cur.buf # hand
      BY <2>1, <3>2 DEF Discipline, Stages, FinalIsLast, WorkIsPrivate
    <3>. QED
      BY <3>2, <3>3, <3>4, <3>5
  <2>. QED
    BY <1>3, <2>1, NothingAtHand, DisciplineRelease DEF Release
<1>4. CASE CreateHeartbeat \/ CreateRequest
  <2>1. PICK b \in pool : pool' = pool \ {b} /\ reply' = [buf |-> b, seq |-> seq]
    BY <1>4 DEF CreateHeartbeat, CreateRequest, Create
  <2>. QED
    BY <1>4, <2>1, DisciplineTake DEF CreateHeartbeat, CreateRequest, Create
<1>5. CASE PostHeartbeat \/ PostRequest
  <2>1. PICK m \in OutMsg : m = reply
    BY <1>5 DEF PostHeartbeat, PostRequest, Post, Discipline, Stages, TypeOK
  <2>2. /\ outgoing' = Append(outgoing, m) /\ reply' = NoOut
        /\ pool' = pool /\ in_queue' = in_queue /\ cur' = cur
        /\ hand' = hand /\ parse' = parse /\ poller' = poller
    BY <1>5, <2>1 DEF PostHeartbeat, PostRequest, Post
  <2>. QED
    BY <2>1, <2>2, DisciplinePost
<1>. QED
  BY <1>1, <1>2, <1>3, <1>4, <1>5 DEF ConsumerThread

\* Every step keeps the buffer discipline.
LEMMA DisciplineStep ==
  TypeOK /\ Discipline /\ [Next]_vars => TypeOK' /\ Discipline'
<1>. SUFFICES ASSUME TypeOK, Discipline, [Next]_vars
              PROVE  TypeOK' /\ Discipline'
  OBVIOUS
<1>1. TypeOK' /\ Stages'
  BY TypeStep DEF Discipline
<1>2. CASE UNCHANGED vars
  BY <1>1, <1>2, DisciplineFrame DEF vars, pollVars, consumeVars
<1>. QED
  BY <1>1, <1>2, DisciplineMain, DisciplineConsumer DEF Next

\* The two threads hand buffers to each other through two queues and a flag in
\* the last message of each read, and this is safe for every interleaving,
\* every number of buffers and every way a parse may end.
THEOREM DisciplineHolds == Spec => [](TypeOK /\ Discipline)
<1>1. Init => TypeOK /\ Discipline
  BY TypeInit, DisciplineInit
<1>. QED
  BY <1>1, DisciplineStep, PTL DEF Spec

\* No buffer is released while a message that is queued, handled or posted
\* still points into it.
THEOREM NeverUsedAfterRelease == Spec => []NoUseAfterRelease
<1>1. TypeOK /\ Discipline => NoUseAfterRelease
  BY DEF Discipline
<1>. QED
  BY <1>1, DisciplineHolds, PTL

\* What is posted is not written over before it is on the wire.
THEOREM PostedStaysPrivate == Spec => []PostedIsPrivate
<1>1. TypeOK /\ Discipline => PostedIsPrivate
  BY DEF Discipline
<1>. QED
  BY <1>1, DisciplineHolds, PTL

(***************************************************************************)
(* post() never waits: the messages in m_outgoing and the one to be posted *)
(* are in different buffers, of which there are no more than slots.        *)
(***************************************************************************)

\* The posted messages and the reply have different buffers.
LEMMA RoomToPost == TypeOK /\ Discipline => PostNeverWaits
<1>. SUFFICES ASSUME TypeOK, Discipline,
                     consumer \in {"beat_post", "request_post"},
                     ~(Len(outgoing) < OutSize)
              PROVE  FALSE
  BY DEF PostNeverWaits
<1>. DEFINE n == Len(outgoing)
            place == [i \in 1..n + 1 |-> IF i <= n THEN outgoing[i].buf ELSE reply.buf]
<1>1. n \in Nat /\ DOMAIN outgoing = 1..n
  BY DEF TypeOK
<1>2. \A i \in 1..n : outgoing[i].buf \in Posted /\ outgoing[i].buf \in Bufs
  BY <1>1, PlacesType DEF Posted
<1>3. reply.buf \in Bufs /\ reply.buf \notin Posted
  BY DEF Discipline, Stages, PostedIsPrivate, TypeOK, OutMsg
<1>4. place \in [1..n + 1 -> Bufs]
  BY <1>1, <1>2, <1>3
<1>5. \A i, j \in 1..n + 1 : i # j => place[i] # place[j]
  <2>1. \A i, j \in 1..n : i # j => outgoing[i].buf # outgoing[j].buf
    BY <1>1 DEF Discipline, PostedIsPrivate
  <2>. QED
    BY <1>1, <1>2, <1>3, <2>1
<1>6. IsFiniteSet(1..n + 1) /\ Cardinality(1..n + 1) = n + 1
  BY <1>1, FS_Interval
<1>7. /\ IsFiniteSet(Bufs) /\ Cardinality(Bufs) \in Nat
      /\ OutSize \in Nat /\ Cardinality(Bufs) <= OutSize
  BY FS_CardinalityType, ClientAssumption DEF ClientAssumption
<1>8. Cardinality(Bufs) < Cardinality(1..n + 1)
  BY <1>1, <1>6, <1>7
<1>9. \E i, j \in 1..n + 1 : i # j /\ place[i] = place[j]
  <2>. HIDE DEF place
  <2>. QED
    BY <1>4, <1>6, <1>7, <1>8, FS_PigeonHole
<1>. QED
  BY <1>5, <1>9

\* As long as m_outgoing has a slot for every buffer of the pool, as it has in
\* fix_tcp_client, the push in post() finds room at once.
THEOREM PostFindsRoom == Spec => []PostNeverWaits
BY RoomToPost, DisciplineHolds, PTL

(***************************************************************************)
(* The order of the sequence numbers on the wire.                          *)
(***************************************************************************)

\* While the connection is up, m_outgoing and then the consumer's reply hold
\* exactly the numbers between the last one written and the next one.
Numbered ==
  poller # "done" =>
    /\ \A i \in DOMAIN outgoing : outgoing[i].seq = sent + i
    /\ reply # NoOut => reply.seq = sent + Len(outgoing) + 1
    /\ seq = sent + Len(outgoing) + (IF reply = NoOut THEN 1 ELSE 2)

\* In the beginning no number is taken.
LEMMA NumberedInit == Init => Numbered
BY DEF Init, Numbered

\* What joins m_outgoing is numbered next to the message before it.
LEMMA NumberedPush ==
  ASSUME NEW m \in OutMsg, outgoing \in Seq(OutMsg), sent \in Nat,
         Numbered, poller # "done",
         outgoing' = Append(outgoing, m), reply' = NoOut, sent' = sent,
         m.seq = sent + Len(outgoing) + 1,
         seq' = sent + Len(outgoing) + 2
  PROVE  Numbered'
<1>1. /\ DOMAIN outgoing' = 1..Len(outgoing) + 1
      /\ DOMAIN outgoing = 1..Len(outgoing) /\ Len(outgoing) \in Nat
      /\ Len(outgoing') = Len(outgoing) + 1
      /\ \A i \in 1..Len(outgoing) : outgoing'[i] = outgoing[i]
      /\ outgoing'[Len(outgoing) + 1] = m
  BY PushBack
<1>2. \A i \in DOMAIN outgoing' : outgoing'[i].seq = sent' + i
  BY <1>1 DEF Numbered
<1>. QED
  BY <1>1, <1>2 DEF Numbered

\* Every step keeps the numbers in a row.
LEMMA NumberedStep ==
  ASSUME TypeOK, Stages, TypeOK', Numbered, [Next]_vars
  PROVE  Numbered' /\ (poller = "out" /\ poller' = "written" => sent' = sent + 1)
<1>. USE DEF pollVars, consumeVars, history
<1>1. CASE /\ UNCHANGED <<outgoing, reply, seq, sent>>
           /\ poller = "done" => poller' = "done"
           /\ ~(poller = "out" /\ poller' = "written")
  BY <1>1 DEF Numbered
<1>2. CASE PostLogon
  <2>1. PICK b \in Bufs : outgoing' = Append(outgoing, [buf |-> b, seq |-> seq])
    BY <1>2 DEF PostLogon, TypeOK
  <2>2. PICK m \in OutMsg : m = [buf |-> b, seq |-> seq]
    BY DEF TypeOK, OutMsg
  <2>3. /\ outgoing' = Append(outgoing, m) /\ m.seq = seq
        /\ outgoing \in Seq(OutMsg) /\ sent \in Nat /\ poller = "start"
        /\ reply = NoOut /\ reply' = reply /\ sent' = sent /\ seq' = seq + 1
    BY <1>2, <2>1, <2>2 DEF PostLogon, TypeOK, Stages
  <2>4. Len(outgoing) \in Nat /\ seq = sent + Len(outgoing) + 1
    BY <2>3 DEF Numbered
  <2>. QED
    BY <2>3, <2>4, NumberedPush
<1>3. CASE WriteFails \/ PollFails \/ ReadFails
  BY <1>3 DEF WriteFails, PollFails, ReadFails, Close, Numbered
<1>4. CASE Write
  <2>1. /\ outgoing \in Seq(OutMsg) /\ outgoing # <<>> /\ sent \in Nat
        /\ outgoing' = Tail(outgoing) /\ sent' = outgoing[1].seq
        /\ poller # "done" /\ reply' = reply /\ seq' = seq
    BY <1>4, PopFront DEF Write, TypeOK
  <2>2. sent' = sent + 1
    BY <2>1, PopFront DEF Numbered
  <2>3. Len(outgoing') = Len(outgoing) - 1
    BY <2>1, HeadTailProperties
  <2>4. ASSUME NEW i \in DOMAIN outgoing'
        PROVE  outgoing'[i].seq = sent' + i
    <3>1. /\ i \in Nat /\ i + 1 \in DOMAIN outgoing
          /\ outgoing'[i] = outgoing[i + 1]
      BY <2>1, PopFront
    <3>2. outgoing[i + 1].seq = sent + (i + 1)
      BY <2>1, <3>1 DEF Numbered
    <3>. QED
      BY <2>1, <2>2, <3>1, <3>2
  <2>5. Len(outgoing) \in Nat
    BY <2>1, PopFront
  <2>. QED
    BY <2>1, <2>2, <2>3, <2>4, <2>5 DEF Numbered
<1>5. CASE CreateHeartbeat \/ CreateRequest
  <2>1. reply = NoOut /\ reply' # NoOut /\ reply'.seq = seq /\ seq' = seq + 1
    BY <1>5, NothingAtHand, PlacesType
    DEF CreateHeartbeat, CreateRequest, Create, Stages, TypeOK
  <2>2. outgoing' = outgoing /\ sent' = sent /\ poller' = poller
    BY <1>5 DEF CreateHeartbeat, CreateRequest, Create
  <2>3. Len(outgoing) \in Nat /\ sent \in Nat
    BY DEF TypeOK
  <2>. QED
    BY <2>1, <2>2, <2>3 DEF Numbered
<1>6. CASE PostHeartbeat \/ PostRequest
  <2>1. PICK m \in OutMsg : m = reply /\ reply # NoOut
    BY <1>6 DEF PostHeartbeat, PostRequest, Post, Stages, TypeOK
  <2>2. /\ outgoing' = Append(outgoing, m) /\ outgoing \in Seq(OutMsg)
        /\ reply' = NoOut /\ sent' = sent /\ seq' = seq /\ poller' = poller
        /\ sent \in Nat
    BY <1>6, <2>1 DEF PostHeartbeat, PostRequest, Post, TypeOK
  <2>3. CASE poller = "done"
    BY <2>2, <2>3 DEF Numbered
  <2>4. CASE poller # "done"
    <3>1. m.seq = sent + Len(outgoing) + 1 /\ seq = sent + Len(outgoing) + 2
      BY <2>1, <2>4 DEF Numbered
    <3>. QED
      BY <2>2, <2>4, <3>1, NumberedPush
  <2>. QED
    BY <2>3, <2>4
<1>7. CASE PollReady \/ ReadData \/ HandlerRejects \/ NothingToSend \/ ReleaseWritten
  BY <1>1, <1>7
  DEF PollReady, ReadData, HandlerRejects, NothingToSend, ReleaseWritten, AfterIn
<1>8. CASE HandlerPushes \/ HandlerRepeats \/ HandlerReturns
  BY <1>1, <1>8 DEF HandlerPushes, HandlerRepeats, HandlerReturns, Push, AfterIn
<1>9. CASE Consume \/ ConsumerExits \/ CallOnce \/ Release
  BY <1>1, <1>9 DEF Consume, ConsumerExits, CallOnce, Release
<1>10. CASE UNCHANGED vars
  BY <1>1, <1>10 DEF vars
<1>. QED
  BY <1>2, <1>3, <1>4, <1>5, <1>6, <1>7, <1>8, <1>9, <1>10
  DEF Next, MainThread, ConsumerThread

\* create_*() numbers a message before the client posts it, and still no
\* interleaving puts the numbers on the wire out of order or with a gap.
THEOREM WireOrder == Spec => WireInOrder
<1>1. Init => TypeOK /\ Stages /\ Numbered
  BY TypeInit, NumberedInit
<1>2. TypeOK /\ Stages /\ Numbered /\ [Next]_vars
        => /\ TypeOK' /\ Stages' /\ Numbered'
           /\ [poller = "out" /\ poller' = "written" => sent' = sent + 1]_vars
  BY TypeStep, NumberedStep
<1>. QED
  BY <1>1, <1>2, PTL DEF Spec, WireInOrder

(***************************************************************************)
(* FixClient implements BufferLife: the place of each buffer, and what     *)
(* follows for the threads that wait for one.                              *)
(***************************************************************************)

(***************************************************************************)
(* The invariant.  A buffer that is lost is in no other place.             *)
(***************************************************************************)

\* What is lost is used by neither thread, not posted, and never released:
\* messages may still point into it, but none of them is final.
LostStaysLost ==
  /\ lost \cap (pool \cup Posted \cup {hand, reply.buf}) = {}
  /\ \A b \in lost : ~WithApp(b)

LifeInv == TypeOK /\ Discipline /\ LostStaysLost

\* The cases of OwnerOf exclude each other.
OwnerFacts ==
  \A b \in Bufs :
    /\ b \in pool => OwnerOf(b) = "pool"
    /\ b \in lost => OwnerOf(b) = "lost"
    /\ b = hand /\ poller = "handle" => OwnerOf(b) = "read"
    /\ b = hand /\ poller = "written" => OwnerOf(b) = "written"
    /\ b = reply.buf => OwnerOf(b) = "reply"
    /\ b \in Posted => OwnerOf(b) = "posted"
    /\ WithApp(b) => OwnerOf(b) = "app"
    /\ b \notin pool \cup lost \cup Posted \cup {hand, reply.buf} /\ ~WithApp(b)
         => OwnerOf(b) = "nowhere"

\* A buffer with a final message is not in anyone's hand.
LEMMA AppIsApart ==
  ASSUME TypeOK, Discipline, NEW b \in Bufs, WithApp(b)
  PROVE  b \notin pool \cup Posted \cup {hand, reply.buf}
<1>1. b \in Queued \cup {cur.buf}
  BY DEF WithApp, Final, Queued
<1>2. NoBuf \notin Bufs
  BY PlacesType
<1>3. b \notin pool \cup Posted
  BY <1>1 DEF Discipline, NoUseAfterRelease, PostedIsPrivate
<1>4. b # reply.buf
  BY <1>1, <1>2, NothingAtHand DEF Discipline, WorkIsPrivate
<1>5. b # hand
  <2>1. CASE poller = "handle"
    BY <2>1 DEF Discipline, FinalIsLast, WithApp, Final
  <2>2. CASE poller = "written"
    BY <1>1, <2>2 DEF Discipline, WorkIsPrivate
  <2>3. CASE poller \notin {"handle", "written"}
    BY <1>2, <2>3 DEF Discipline, Stages
  <2>. QED
    BY <2>1, <2>2, <2>3
<1>. QED
  BY <1>3, <1>4, <1>5

\* The discipline between the threads leaves each buffer one place.
LEMMA OwnerIs == LifeInv => OwnerFacts
<1>. SUFFICES ASSUME LifeInv, NEW b \in Bufs
              PROVE  /\ b \in pool => OwnerOf(b) = "pool"
                     /\ b \in lost => OwnerOf(b) = "lost"
                     /\ b = hand /\ poller = "handle" => OwnerOf(b) = "read"
                     /\ b = hand /\ poller = "written" => OwnerOf(b) = "written"
                     /\ b = reply.buf => OwnerOf(b) = "reply"
                     /\ b \in Posted => OwnerOf(b) = "posted"
                     /\ WithApp(b) => OwnerOf(b) = "app"
                     /\ /\ b \notin pool \cup lost \cup Posted
                        /\ b \notin {hand, reply.buf} /\ ~WithApp(b)
                        => OwnerOf(b) = "nowhere"
  BY DEF OwnerFacts
<1>1. b \in pool => b \notin lost \cup Posted \cup {hand, reply.buf}
  BY DEF LifeInv, LostStaysLost, Discipline, NoUseAfterRelease
<1>2. b \in lost => b \notin Posted \cup {hand, reply.buf} /\ ~WithApp(b)
  BY DEF LifeInv, LostStaysLost
<1>3. b = reply.buf => b # hand
  BY PlacesType, NothingAtHand DEF LifeInv, Discipline, WorkIsPrivate
<1>4. b \in Posted => b \notin {hand, reply.buf}
  BY DEF LifeInv, Discipline, PostedIsPrivate
<1>5. WithApp(b) => b \notin pool \cup Posted \cup {hand, reply.buf}
  BY AppIsApart DEF LifeInv
<1>. QED
  BY <1>1, <1>2, <1>3, <1>4, <1>5, Zenon DEF OwnerOf, WithApp

\* The same after a step.
LEMMA OwnerIsNext == LifeInv' => OwnerFacts'
BY OwnerIs, PTL

\* A step that changes nothing about a buffer.
Same(c) ==
  /\ c \in pool' <=> c \in pool
  /\ c \in lost' <=> c \in lost
  /\ c = hand' <=> c = hand
  /\ c = hand => poller' = poller
  /\ c = reply'.buf <=> c = reply.buf
  /\ c \in Posted' <=> c \in Posted
  /\ WithApp(c)' <=> WithApp(c)

\* It leaves the buffer where it is.
LEMMA OwnerSame ==
  ASSUME LifeInv, LifeInv', NEW c \in Bufs, Same(c)
  PROVE  OwnerOf(c)' = OwnerOf(c)
<1>1. c = hand => poller \in {"handle", "written"}
  BY PlacesType DEF LifeInv, Discipline, Stages
<1>2. OwnerFacts /\ OwnerFacts'
  BY OwnerIs, OwnerIsNext
<1>3. CASE \/ c \in pool \cup lost \cup Posted \cup {hand, reply.buf}
           \/ WithApp(c)
  BY <1>1, <1>2, <1>3 DEF OwnerFacts, Same
<1>4. CASE /\ c \notin pool \cup lost \cup Posted \cup {hand, reply.buf}
           /\ ~WithApp(c)
  BY <1>2, <1>4 DEF OwnerFacts, Same
<1>. QED
  BY <1>3, <1>4

(***************************************************************************)
(* What a step may do: nothing to any buffer, or a move of one of them     *)
(* along a path.                                                           *)
(***************************************************************************)

Moves(b, from, to) ==
  /\ OwnerOf(b) = from /\ OwnerOf(b)' = to
  /\ \A c \in Bufs \ {b} : OwnerOf(c)' = OwnerOf(c)

LifeStep ==
  \/ \A c \in Bufs : OwnerOf(c)' = OwnerOf(c)
  \/ \E b \in Bufs, path \in Life!Paths : Moves(b, path[1], path[2])

\* A step that changes nothing about any buffer keeps their places.
LEMMA StayStep ==
  ASSUME LifeInv, LifeInv', \A c \in Bufs : Same(c)
  PROVE  LifeStep
BY OwnerSame DEF LifeStep

\* A step that changes one buffer moves it along a path.
LEMMA MoveStep ==
  ASSUME LifeInv, LifeInv', NEW b \in Bufs, \A c \in Bufs \ {b} : Same(c),
         NEW from, NEW to, <<from, to>> \in Life!Paths,
         OwnerOf(b) = from, OwnerOf(b)' = to
  PROVE  LifeStep
<1>1. Moves(b, from, to)
  BY OwnerSame DEF Moves
<1>2. PICK path \in Life!Paths : path = <<from, to>>
  OBVIOUS
<1>3. path[1] = from /\ path[2] = to
  BY <1>2
<1>. QED
  BY <1>1, <1>3 DEF LifeStep

\* The paths of BufferLife map to steps of BufferLife.
LEMMA LifeStepRefines == LifeStep => [Life!Next]_(([b \in Bufs |-> OwnerOf(b)]))
<1>. DEFINE owner == [b \in Bufs |-> OwnerOf(b)]
<1>1. ASSUME \A c \in Bufs : OwnerOf(c)' = OwnerOf(c)
      PROVE  owner' = owner
  BY <1>1
<1>2. ASSUME NEW b \in Bufs, NEW path \in Life!Paths, Moves(b, path[1], path[2])
      PROVE  Life!Next
  <2>1. owner[b] = path[1]
    BY <1>2 DEF Moves
  <2>2. owner' = [owner EXCEPT ![b] = path[2]]
    BY <1>2 DEF Moves
  <2>. QED
    BY <2>1, <2>2 DEF Life!Next, Life!Move
<1>. QED
  BY <1>1, <1>2 DEF LifeStep

(***************************************************************************)
(* How the queues change the buffers in them.                              *)
(***************************************************************************)

\* A push to m_outgoing posts its buffer.
LEMMA PostedPush ==
  ASSUME TypeOK, NEW m \in OutMsg, outgoing' = Append(outgoing, m)
  PROVE  Posted' = Posted \cup {m.buf}
<1>1. /\ DOMAIN outgoing' = 1..Len(outgoing) + 1
      /\ DOMAIN outgoing = 1..Len(outgoing) /\ Len(outgoing) \in Nat
      /\ \A i \in 1..Len(outgoing) : outgoing'[i] = outgoing[i]
      /\ outgoing'[Len(outgoing) + 1] = m
  BY PushBack DEF TypeOK
<1>. QED
  BY <1>1 DEF Posted

\* A pop takes the front's buffer out, which no other message has.
LEMMA PostedPop ==
  ASSUME TypeOK, Discipline, outgoing # <<>>, outgoing' = Tail(outgoing)
  PROVE  /\ Posted' = Posted \ {Head(outgoing).buf}
         /\ Head(outgoing).buf \in Posted
<1>. DEFINE n == Len(outgoing)
<1>1. /\ Head(outgoing) = outgoing[1] /\ n \in Nat \ {0}
      /\ DOMAIN outgoing' = 1..n - 1 /\ DOMAIN outgoing = 1..n
      /\ \A i \in 1..n - 1 : outgoing'[i] = outgoing[i + 1]
  BY PopFront DEF TypeOK
<1>2. ASSUME NEW i \in 2..n
      PROVE  /\ outgoing[i].buf # outgoing[1].buf
             /\ i - 1 \in 1..n - 1 /\ outgoing[i] = outgoing'[i - 1]
  <2>1. i \in 1..n /\ 1 \in 1..n /\ i # 1 /\ i - 1 \in 1..n - 1 /\ (i - 1) + 1 = i
    BY <1>1
  <2>2. outgoing'[i - 1] = outgoing[(i - 1) + 1]
    BY <1>1, <2>1, Zenon
  <2>3. outgoing[i].buf # outgoing[1].buf
    <3>1. i \in DOMAIN outgoing /\ 1 \in DOMAIN outgoing
      BY <1>1, <2>1
    <3>. QED
      BY <2>1, <3>1 DEF Discipline, PostedIsPrivate
  <2>. QED
    BY <2>1, <2>2, <2>3, Zenon
<1>3. \A i \in 1..n - 1 : i + 1 \in 2..n
  BY <1>1
<1>4. Posted' \subseteq {outgoing[i].buf : i \in 2..n}
  BY <1>1, <1>3 DEF Posted
<1>5. {outgoing[i].buf : i \in 2..n} \subseteq Posted'
  <2>1. ASSUME NEW i \in 2..n PROVE outgoing[i].buf \in Posted'
    <3>1. i - 1 \in DOMAIN outgoing' /\ outgoing'[i - 1].buf = outgoing[i].buf
      BY <1>1, <1>2
    <3>. QED
      BY <3>1, Zenon DEF Posted
  <2>. QED
    BY <2>1
<1>6. Posted = {outgoing[1].buf} \cup {outgoing[i].buf : i \in 2..n}
  BY <1>1 DEF Posted
<1>. QED
  BY <1>1, <1>2, <1>4, <1>5, <1>6

\* A push to in_queue gives a buffer to the application if it is final.
LEMMA AppPush ==
  ASSUME TypeOK, NEW m \in Msg, in_queue' = Append(in_queue, m), cur' = cur,
         NEW b
  PROVE  WithApp(b)' <=> WithApp(b) \/ Final(m, b)
<1>1. /\ DOMAIN in_queue' = 1..Len(in_queue) + 1
      /\ DOMAIN in_queue = 1..Len(in_queue) /\ Len(in_queue) \in Nat
      /\ \A i \in 1..Len(in_queue) : in_queue'[i] = in_queue[i]
      /\ in_queue'[Len(in_queue) + 1] = m
  BY PushBack DEF TypeOK
<1>. QED
  BY <1>1 DEF WithApp, Final

\* Taking a message from in_queue leaves buffers with the application.
LEMMA AppConsume ==
  ASSUME TypeOK, cur = NoMsg, in_queue # <<>>,
         cur' = Head(in_queue), in_queue' = Tail(in_queue), NEW b
  PROVE  WithApp(b)' <=> WithApp(b)
<1>. DEFINE n == Len(in_queue)
<1>1. /\ cur' = in_queue[1] /\ n \in Nat \ {0}
      /\ DOMAIN in_queue' = 1..n - 1 /\ DOMAIN in_queue = 1..n
      /\ \A i \in 1..n - 1 : in_queue'[i] = in_queue[i + 1]
  BY PopFront DEF TypeOK
<1>2. \A i \in 2..n : i - 1 \in 1..n - 1 /\ in_queue[i] = in_queue'[i - 1]
  BY <1>1
<1>3. \A i \in 1..n - 1 : i + 1 \in 1..n /\ in_queue'[i] = in_queue[i + 1]
  BY <1>1
<1>4. ASSUME WithApp(b)' PROVE WithApp(b)
  BY <1>1, <1>3, <1>4 DEF WithApp, Final
<1>5. ASSUME WithApp(b) PROVE WithApp(b)'
  <2>1. PICK i \in 1..n : Final(in_queue[i], b)
    BY <1>1, <1>5, NothingAtHand DEF WithApp, Final
  <2>2. CASE i = 1
    BY <1>1, <2>1, <2>2 DEF WithApp, Final
  <2>3. CASE i \in 2..n
    BY <1>1, <1>2, <2>1, <2>3 DEF WithApp, Final
  <2>. QED
    BY <1>1, <2>2, <2>3
<1>. QED
  BY <1>4, <1>5

\* Without a queue or a message that changes, the application keeps its buffers.
LEMMA AppSame ==
  ASSUME UNCHANGED <<in_queue, cur>>, NEW b
  PROVE  WithApp(b)' <=> WithApp(b)
BY DEF WithApp, Final

\* The application gives up a buffer with its final message.
LEMMA AppRelease ==
  ASSUME UNCHANGED in_queue, cur' = NoMsg, NEW b, ~Final(cur, b)
  PROVE  WithApp(b)' <=> WithApp(b)
BY NothingAtHand DEF WithApp, Final

(***************************************************************************)
(* The moves.  Each lemma has what the discipline gives for both states.   *)
(***************************************************************************)

Kept == LifeInv /\ TypeOK' /\ Discipline'

\* Where nothing is lost, what was lost has to stay out of every place.
LEMMA LostKept ==
  ASSUME Kept, lost' = lost,
         \A b \in lost :
           \/ Same(b)
           \/ /\ b \notin pool' \cup Posted' \cup {hand', reply'.buf}
              /\ ~WithApp(b)'
  PROVE  LifeInv'
BY DEF Kept, LifeInv, LostStaysLost, Same

\* poll() takes a free buffer to read into.
LEMMA MoveRead == Kept /\ ReadData => LifeInv' /\ LifeStep
<1>. SUFFICES ASSUME Kept, ReadData PROVE LifeInv' /\ LifeStep
  OBVIOUS
<1>. USE DEF Kept, consumeVars
<1>1. PICK b \in pool : pool' = pool \ {b} /\ hand' = b
  BY DEF ReadData
<1>2. /\ UNCHANGED <<lost, in_queue, cur, outgoing, reply>> /\ b \in Bufs
      /\ hand = NoBuf /\ NoBuf \notin Bufs /\ poller' = "handle"
  BY PlacesType DEF ReadData, LifeInv, Discipline, Stages, TypeOK
<1>3. \A c \in Bufs \ {b} : Same(c)
  BY <1>1, <1>2, AppSame DEF Same, Posted
<1>4. b \notin lost /\ lost \subseteq Bufs
  BY DEF LifeInv, LostStaysLost, TypeOK
<1>5. LifeInv'
  BY <1>2, <1>3, <1>4, LostKept
<1>6. OwnerOf(b) = "pool" /\ OwnerOf(b)' = "read"
  BY <1>1, <1>2, <1>5, OwnerIs, OwnerIsNext DEF OwnerFacts
<1>7. <<"pool", "read">> \in Life!Paths
  BY DEF Life!Paths
<1>. QED
  BY <1>2, <1>3, <1>5, <1>6, <1>7, MoveStep

\* A reply takes a free buffer to fill.
LEMMA MoveCreate ==
  Kept /\ (CreateHeartbeat \/ CreateRequest) => LifeInv' /\ LifeStep
<1>. SUFFICES ASSUME Kept, CreateHeartbeat \/ CreateRequest
              PROVE  LifeInv' /\ LifeStep
  OBVIOUS
<1>. USE DEF Kept, pollVars, history
<1>1. PICK b \in pool : pool' = pool \ {b} /\ reply'.buf = b
  BY DEF CreateHeartbeat, CreateRequest, Create
<1>2. /\ UNCHANGED <<lost, in_queue, cur, outgoing, hand, poller>>
      /\ b \in Bufs /\ NoBuf \notin Bufs /\ reply = NoOut
  BY PlacesType
  DEF CreateHeartbeat, CreateRequest, Create, LifeInv, Discipline, Stages, TypeOK
<1>3. \A c \in Bufs \ {b} : Same(c)
  BY <1>1, <1>2, AppSame, NothingAtHand DEF Same, Posted
<1>4. b \notin lost /\ lost \subseteq Bufs
  BY DEF LifeInv, LostStaysLost, TypeOK
<1>5. LifeInv'
  BY <1>2, <1>3, <1>4, LostKept
<1>6. OwnerOf(b) = "pool" /\ OwnerOf(b)' = "reply"
  BY <1>1, <1>2, <1>5, OwnerIs, OwnerIsNext DEF OwnerFacts
<1>7. <<"pool", "reply">> \in Life!Paths
  BY DEF Life!Paths
<1>. QED
  BY <1>2, <1>3, <1>5, <1>6, <1>7, MoveStep

\* The logon takes one and posts it at once.
LEMMA MoveLogon == Kept /\ PostLogon => LifeInv' /\ LifeStep
<1>. SUFFICES ASSUME Kept, PostLogon PROVE LifeInv' /\ LifeStep
  OBVIOUS
<1>. USE DEF Kept, history
<1>1. PICK b \in pool : /\ pool' = pool \ {b}
                        /\ outgoing' = Append(outgoing, [buf |-> b, seq |-> seq])
  BY DEF PostLogon
<1>2. /\ UNCHANGED <<lost, in_queue, cur, reply, hand>>
      /\ b \in Bufs /\ NoBuf \notin Bufs /\ hand = NoBuf
  BY PlacesType DEF PostLogon, LifeInv, Discipline, Stages, TypeOK
<1>3. [buf |-> b, seq |-> seq] \in OutMsg
  BY <1>2 DEF OutMsg, LifeInv, TypeOK
<1>4. Posted' = Posted \cup {b}
  BY <1>1, <1>3, PostedPush DEF LifeInv
<1>5. \A c \in Bufs \ {b} : Same(c)
  BY <1>1, <1>2, <1>4, AppSame DEF Same
<1>6. b \notin lost /\ lost \subseteq Bufs
  BY DEF LifeInv, LostStaysLost, TypeOK
<1>7. LifeInv'
  BY <1>2, <1>5, <1>6, LostKept
<1>8. OwnerOf(b) = "pool" /\ OwnerOf(b)' = "posted"
  BY <1>1, <1>2, <1>4, <1>7, OwnerIs, OwnerIsNext DEF OwnerFacts
<1>9. <<"pool", "posted">> \in Life!Paths
  BY DEF Life!Paths
<1>. QED
  BY <1>2, <1>5, <1>7, <1>8, <1>9, MoveStep

\* The reply is posted.
LEMMA MovePost == Kept /\ (PostHeartbeat \/ PostRequest) => LifeInv' /\ LifeStep
<1>. SUFFICES ASSUME Kept, PostHeartbeat \/ PostRequest PROVE LifeInv' /\ LifeStep
  OBVIOUS
<1>. USE DEF Kept, pollVars, history
<1>1. /\ UNCHANGED <<pool, lost, in_queue, cur, hand, poller>>
      /\ reply \in OutMsg /\ outgoing' = Append(outgoing, reply) /\ reply' = NoOut
  BY DEF PostHeartbeat, PostRequest, Post, LifeInv, Discipline, Stages, TypeOK
<1>2. PICK b \in Bufs : b = reply.buf
  BY <1>1 DEF OutMsg
<1>3. Posted' = Posted \cup {b} /\ NoBuf \notin Bufs
  BY <1>1, <1>2, PostedPush, PlacesType DEF LifeInv
<1>4. \A c \in Bufs \ {b} : Same(c)
  BY <1>1, <1>2, <1>3, AppSame, NothingAtHand DEF Same
<1>5. b \notin lost /\ lost \subseteq Bufs
  BY <1>2 DEF LifeInv, LostStaysLost, TypeOK
<1>6. LifeInv'
  BY <1>1, <1>4, <1>5, LostKept
<1>7. OwnerOf(b) = "reply" /\ OwnerOf(b)' = "posted"
  BY <1>2, <1>3, <1>6, OwnerIs, OwnerIsNext DEF OwnerFacts
<1>8. <<"reply", "posted">> \in Life!Paths
  BY DEF Life!Paths
<1>. QED
  BY <1>4, <1>6, <1>7, <1>8, MoveStep

\* A message is written: its buffer is at hand, or goes with the connection.
LEMMA MoveWrite == Kept /\ (Write \/ WriteFails) => LifeInv' /\ LifeStep
<1>. SUFFICES ASSUME Kept, Write \/ WriteFails PROVE LifeInv' /\ LifeStep
  OBVIOUS
<1>. USE DEF Kept, consumeVars
<1>1. /\ UNCHANGED <<pool, in_queue, cur, reply>> /\ hand = NoBuf
      /\ outgoing # <<>> /\ outgoing' = Tail(outgoing)
  BY DEF Write, WriteFails, Close, LifeInv, Discipline, Stages
<1>2. Head(outgoing).buf \in Bufs /\ NoBuf \notin Bufs
  BY <1>1, PopFront, PlacesType DEF LifeInv, TypeOK, OutMsg
<1>3. PICK b \in Bufs : b = Head(outgoing).buf
  BY <1>2
<1>4. Posted' = Posted \ {b} /\ b \in Posted
  BY <1>1, <1>3, PostedPop DEF LifeInv
<1>5. b \notin pool \cup lost \cup {hand, reply.buf} /\ ~WithApp(b)
  BY <1>4, AppIsApart
  DEF LifeInv, LostStaysLost, Discipline, PostedIsPrivate, NoUseAfterRelease
<1>6. OwnerOf(b) = "posted"
  BY <1>4, OwnerIs DEF OwnerFacts
<1>7. CASE Write
  <2>1. hand' = b /\ poller' = "written" /\ lost' = lost
    BY <1>3, <1>7 DEF Write
  <2>2. \A c \in Bufs \ {b} : Same(c)
    BY <1>1, <1>2, <1>4, <2>1, AppSame DEF Same
  <2>3. LifeInv'
    <3>1. lost \subseteq Bufs
      BY DEF LifeInv, TypeOK
    <3>. QED
      BY <1>5, <2>1, <2>2, <3>1, LostKept
  <2>4. OwnerOf(b)' = "written"
    BY <2>1, <2>3, OwnerIsNext DEF OwnerFacts
  <2>5. <<"posted", "written">> \in Life!Paths
    BY DEF Life!Paths
  <2>. QED
    BY <1>6, <2>2, <2>3, <2>4, <2>5, MoveStep
<1>8. CASE WriteFails
  <2>1. hand' = hand /\ lost' = lost \cup {b}
    BY <1>3, <1>8 DEF WriteFails, Close
  <2>2. \A c \in Bufs \ {b} : Same(c)
    BY <1>1, <1>2, <1>4, <2>1, AppSame DEF Same
  <2>3. LifeInv'
    <3>1. lost' \cap (pool' \cup Posted' \cup {hand', reply'.buf}) = {}
      BY <1>1, <1>4, <1>5, <2>1 DEF LifeInv, LostStaysLost
    <3>2. \A c \in lost' : ~WithApp(c)'
      BY <1>1, <1>5, <2>1, AppSame DEF LifeInv, LostStaysLost
    <3>. QED
      BY <3>1, <3>2 DEF LifeInv, LostStaysLost
  <2>4. OwnerOf(b)' = "lost"
    BY <2>1, <2>3, OwnerIsNext DEF OwnerFacts
  <2>5. <<"posted", "lost">> \in Life!Paths
    BY DEF Life!Paths
  <2>. QED
    BY <1>6, <2>2, <2>3, <2>4, <2>5, MoveStep
<1>. QED
  BY <1>7, <1>8

\* A buffer that was written, or that held no message, goes back to the pool.
LEMMA MoveBack ==
  Kept /\ (HandlerRejects \/ ReleaseWritten) => LifeInv' /\ LifeStep
<1>. SUFFICES ASSUME Kept, HandlerRejects \/ ReleaseWritten
              PROVE  LifeInv' /\ LifeStep
  OBVIOUS
<1>. USE DEF Kept, consumeVars, history
<1>1. /\ UNCHANGED <<in_queue, cur, reply, outgoing, lost>>
      /\ pool' = pool \cup {hand} /\ hand' = NoBuf
      /\ poller \in {"handle", "written"}
  BY DEF HandlerRejects, ReleaseWritten
<1>2. PICK b \in Bufs : b = hand
  BY <1>1 DEF LifeInv, Discipline, Stages, TypeOK
<1>3. NoBuf \notin Bufs /\ lost \subseteq Bufs /\ b \notin lost
  BY <1>2, PlacesType DEF LifeInv, TypeOK, LostStaysLost
<1>4. \A c \in Bufs \ {b} : Same(c)
  BY <1>1, <1>2, <1>3, AppSame DEF Same, Posted
<1>5. LifeInv'
  BY <1>1, <1>3, <1>4, LostKept
<1>6. OwnerOf(b) = (IF poller = "handle" THEN "read" ELSE "written")
  BY <1>1, <1>2, OwnerIs DEF OwnerFacts
<1>7. OwnerOf(b)' = "pool"
  BY <1>1, <1>2, <1>5, OwnerIsNext DEF OwnerFacts
<1>8. <<"read", "pool">> \in Life!Paths /\ <<"written", "pool">> \in Life!Paths
  BY DEF Life!Paths
<1>. QED
  BY <1>4, <1>5, <1>6, <1>7, <1>8, MoveStep

\* The consumer puts the buffer of a final message back.
LEMMA MoveRelease == Kept /\ Release => LifeInv' /\ LifeStep
<1>. SUFFICES ASSUME Kept, Release PROVE LifeInv' /\ LifeStep
  OBVIOUS
<1>. USE DEF Kept, pollVars, history
<1>1. /\ UNCHANGED <<in_queue, reply, outgoing, hand, poller, lost>>
      /\ cur' = NoMsg /\ pool' = IF cur.final THEN pool \cup {cur.buf} ELSE pool
  BY DEF Release
<1>2. cur \in Msg /\ cur.buf \in Bufs
  BY DEF Release, LifeInv, Discipline, Stages, TypeOK, Msg
<1>3. CASE ~cur.final
  <2>1. \A c \in Bufs : Same(c)
    BY <1>1, <1>3, AppRelease DEF Same, Posted, Final
  <2>2. LifeInv'
    <3>1. lost \subseteq Bufs
      BY DEF LifeInv, TypeOK
    <3>. QED
      BY <1>1, <2>1, <3>1, LostKept
  <2>. QED
    BY <2>1, <2>2, StayStep
<1>4. CASE cur.final
  <2>1. PICK b \in Bufs : b = cur.buf
    BY <1>2
  <2>2. WithApp(b) /\ b \notin lost /\ lost \subseteq Bufs
    BY <1>4, <2>1 DEF WithApp, Final, LifeInv, LostStaysLost, TypeOK
  <2>3. \A c \in Bufs \ {b} : Same(c)
    BY <1>1, <1>4, <2>1, AppRelease DEF Same, Posted, Final
  <2>4. LifeInv'
    BY <1>1, <2>2, <2>3, LostKept
  <2>5. OwnerOf(b) = "app" /\ OwnerOf(b)' = "pool"
    BY <1>1, <1>4, <2>1, <2>2, <2>4, OwnerIs, OwnerIsNext DEF OwnerFacts
  <2>6. <<"app", "pool">> \in Life!Paths
    BY DEF Life!Paths
  <2>. QED
    BY <2>3, <2>4, <2>5, <2>6, MoveStep
<1>. QED
  BY <1>3, <1>4

\* What the parser pushes leaves its buffer at hand, or with the last message
\* hands it to the application, or loses it.
LEMMA MovePush ==
  Kept /\ (HandlerPushes \/ HandlerRepeats \/ HandlerReturns)
    => LifeInv' /\ LifeStep
<1>. SUFFICES ASSUME Kept, HandlerPushes \/ HandlerRepeats \/ HandlerReturns
              PROVE  LifeInv' /\ LifeStep
  OBVIOUS
<1>. USE DEF Kept, consumeVars
<1>1. /\ UNCHANGED <<pool, cur, reply, outgoing>> /\ poller = "handle"
      /\ in_queue' = Append(in_queue, NextPush)
  BY DEF HandlerPushes, HandlerRepeats, HandlerReturns, Push
<1>2. NextPush \in Msg /\ NextPush.buf = hand
  BY PushType DEF HandlerPushes, HandlerRepeats, HandlerReturns, LifeInv,
     Discipline, NextPush
<1>3. PICK b \in Bufs : b = hand
  BY <1>1 DEF LifeInv, Discipline, Stages, TypeOK
<1>4. \A c : WithApp(c)' <=> WithApp(c) \/ (c = b /\ NextPush.final)
  <2>1. \A c : Final(NextPush, c) <=> c = b /\ NextPush.final
    BY <1>2, <1>3 DEF Final
  <2>. QED
    BY <1>1, <1>2, <2>1, AppPush DEF LifeInv
<1>5. /\ b \notin pool \cup lost \cup Posted \cup {reply.buf} /\ ~WithApp(b)
      /\ lost \subseteq Bufs /\ NoBuf \notin Bufs
  <2>1. b \notin lost /\ lost \subseteq Bufs /\ NoBuf \notin Bufs
    BY <1>3, PlacesType DEF LifeInv, LostStaysLost, TypeOK
  <2>2. ~WithApp(b)
    BY <1>3, AppIsApart DEF LifeInv
  <2>3. b \notin pool \cup Posted
    BY <1>3 DEF LifeInv, Discipline, NoUseAfterRelease, PostedIsPrivate
  <2>4. b # reply.buf
    BY <1>3, <2>1, NothingAtHand DEF LifeInv, Discipline, WorkIsPrivate
  <2>. QED
    BY <2>1, <2>2, <2>3, <2>4
<1>6. OwnerOf(b) = "read"
  BY <1>1, <1>3, OwnerIs DEF OwnerFacts
<1>7. HandlerReturns => (NextPush.final <=> parse.tail # "overrun")
  BY DEF HandlerReturns, NextPush, LifeInv, TypeOK, AllTails
<1>8. CASE HandlerPushes \/ HandlerRepeats
  <2>1. UNCHANGED <<hand, poller, lost>>
    BY <1>8 DEF HandlerPushes, HandlerRepeats
  <2>2. ~NextPush.final
    BY <1>8 DEF HandlerPushes, HandlerRepeats, NextPush
  <2>3. \A c \in Bufs : Same(c)
    BY <1>1, <1>4, <2>1, <2>2 DEF Same, Posted
  <2>4. LifeInv'
    BY <1>5, <2>1, <2>3, LostKept
  <2>. QED
    BY <2>3, <2>4, StayStep
<1>9. CASE HandlerReturns /\ NextPush.final
  <2>1. hand' = NoBuf /\ lost' = lost
    BY <1>9, <1>7 DEF HandlerReturns
  <2>2. \A c \in Bufs \ {b} : Same(c)
    BY <1>1, <1>3, <1>4, <1>5, <2>1 DEF Same, Posted
  <2>3. LifeInv'
    BY <1>5, <2>1, <2>2, LostKept
  <2>4. OwnerOf(b)' = "app"
    BY <1>4, <1>9, <2>3, OwnerIsNext DEF OwnerFacts
  <2>5. <<"read", "app">> \in Life!Paths
    BY DEF Life!Paths
  <2>. QED
    BY <1>6, <2>2, <2>3, <2>4, <2>5, MoveStep
<1>10. CASE HandlerReturns /\ ~NextPush.final
  <2>1. hand' = NoBuf /\ lost' = lost \cup {b}
    BY <1>3, <1>10, <1>7 DEF HandlerReturns
  <2>2. \A c \in Bufs \ {b} : Same(c)
    BY <1>1, <1>3, <1>4, <1>5, <2>1 DEF Same, Posted
  <2>3. LifeInv'
    <3>1. lost' \cap (pool' \cup Posted' \cup {hand', reply'.buf}) = {}
      BY <1>1, <1>5, <2>1 DEF LifeInv, LostStaysLost, Posted
    <3>2. \A c \in lost' : ~WithApp(c)'
      BY <1>4, <1>5, <1>10, <2>1 DEF LifeInv, LostStaysLost
    <3>. QED
      BY <3>1, <3>2 DEF LifeInv, LostStaysLost
  <2>4. OwnerOf(b)' = "lost"
    BY <2>1, <2>3, OwnerIsNext DEF OwnerFacts
  <2>5. <<"read", "lost">> \in Life!Paths
    BY DEF Life!Paths
  <2>. QED
    BY <1>6, <2>2, <2>3, <2>4, <2>5, MoveStep
<1>. QED
  BY <1>8, <1>9, <1>10

\* Taking a message from in_queue leaves its buffer with the application.
LEMMA MoveConsume == Kept /\ Consume => LifeInv' /\ LifeStep
<1>. SUFFICES ASSUME Kept, Consume PROVE LifeInv' /\ LifeStep
  OBVIOUS
<1>. USE DEF Kept, pollVars, history
<1>1. /\ UNCHANGED <<pool, lost, reply, outgoing, hand, poller>>
      /\ cur = NoMsg /\ in_queue # <<>>
      /\ cur' = Head(in_queue) /\ in_queue' = Tail(in_queue)
  BY DEF Consume, LifeInv, Discipline, Stages
<1>2. \A c \in Bufs : Same(c)
  BY <1>1, AppConsume DEF LifeInv, Same, Posted
<1>3. LifeInv'
  BY <1>1, <1>2, LostKept DEF LifeInv, TypeOK
<1>. QED
  BY <1>2, <1>3, StayStep

\* The other steps touch no buffer.
LEMMA MoveNothing ==
  Kept /\ UNCHANGED <<pool, lost, in_queue, cur, reply, outgoing, hand>>
       /\ (poller' = poller \/ poller \notin {"handle", "written"})
    => LifeInv' /\ LifeStep
<1>. SUFFICES ASSUME Kept,
                     UNCHANGED <<pool, lost, in_queue, cur, reply, outgoing, hand>>,
                     poller' = poller \/ poller \notin {"handle", "written"}
              PROVE  LifeInv' /\ LifeStep
  OBVIOUS
<1>. USE DEF Kept
<1>1. hand \in Bufs => poller \in {"handle", "written"}
  BY PlacesType DEF LifeInv, Discipline, Stages
<1>2. \A c \in Bufs : Same(c)
  BY <1>1, AppSame DEF Same, Posted
<1>3. LifeInv'
  BY <1>2, LostKept DEF LifeInv, TypeOK
<1>. QED
  BY <1>2, <1>3, StayStep

\* In the beginning all buffers are free.
LEMMA LifeInit == Init => LifeInv /\ Life!Init
<1>. SUFFICES ASSUME Init PROVE LifeInv /\ Life!Init
  OBVIOUS
<1>1. LifeInv
  BY TypeInit, DisciplineInit DEF Init, LifeInv, LostStaysLost
<1>2. \A b \in Bufs : OwnerOf(b) = "pool"
  BY <1>1, OwnerIs DEF Init, OwnerFacts
<1>. QED
  BY <1>1, <1>2 DEF Life!Init

\* Every step keeps the invariant and moves at most one buffer.
LEMMA LifeInvStep == LifeInv /\ [Next]_vars => LifeInv' /\ LifeStep
<1>. SUFFICES ASSUME LifeInv, [Next]_vars PROVE LifeInv' /\ LifeStep
  OBVIOUS
<1>1. Kept
  BY DisciplineStep DEF LifeInv, Kept
<1>2. CASE \/ PollFails \/ PollReady \/ ReadFails \/ NothingToSend
           \/ ConsumerExits \/ CallOnce \/ UNCHANGED vars
  BY <1>1, <1>2, MoveNothing
  DEF PollFails, PollReady, ReadFails, NothingToSend, ConsumerExits, CallOnce,
      Close, vars, pollVars, consumeVars, history
<1>. QED
  BY <1>1, <1>2, MoveLogon, MoveRead, MoveBack, MovePush, MoveWrite, MoveConsume,
     MoveCreate, MovePost, MoveRelease, Zenon
  DEF Next, MainThread, ConsumerThread

\* Every step of the two threads moves at most one buffer, along a path that
\* the README of the library allows: the client implements BufferLife.
THEOREM ClientFollowsLife == Spec => BuffersFollowLife
<1>1. LifeInv /\ [Next]_vars
        => LifeInv' /\ [Life!Next]_([b \in Bufs |-> OwnerOf(b)])
  BY LifeInvStep, LifeStepRefines
<1>. QED
  BY LifeInit, <1>1, PTL DEF Spec, BuffersFollowLife, Life!Spec

(***************************************************************************)
(* No buffer vanishes.                                                     *)
(***************************************************************************)

Everywhere == \A b \in Bufs : OwnerOf(b) \in Life!Owners

\* No path leads out of the places.
LEMMA EverywhereStep == Everywhere /\ LifeStep => Everywhere'
<1>. SUFFICES ASSUME Everywhere, LifeStep PROVE Everywhere'
  OBVIOUS
<1>1. ASSUME NEW path \in Life!Paths PROVE path[2] \in Life!Owners
  BY DEF Life!Paths, Life!Owners
<1>. QED
  BY <1>1 DEF LifeStep, Moves, Everywhere

\* A buffer that has a place is in circulation or lost, and not both.
LEMMA PlacesCirculate == LifeInv /\ Everywhere => OnlyCutReadsLeak
<1>0. LifeInv => lost \subseteq Bufs
  BY DEF LifeInv, TypeOK
<1>. SUFFICES ASSUME LifeInv, Everywhere, NEW b \in Bufs
              PROVE  b \notin Circulating <=> b \in lost
  BY <1>0, SMT DEF OnlyCutReadsLeak
<1>1. OwnerOf(b) # "nowhere"
  BY DEF Everywhere, Life!Owners
<1>2. b \in pool \cup lost \cup Posted \cup {hand, reply.buf} \/ WithApp(b)
  BY <1>1, OwnerIs DEF OwnerFacts
<1>3. b \in lost => b \notin pool \cup Posted \cup {hand, reply.buf} /\ ~WithApp(b)
  BY DEF LifeInv, LostStaysLost
<1>4. b \in Circulating
        <=> b \in pool \cup Posted \cup {hand, reply.buf} \/ WithApp(b)
  BY Zenon DEF Circulating
<1>5. b \in lost \/ b \in pool \cup Posted \cup {hand, reply.buf} \/ WithApp(b)
  BY <1>2, Zenon
<1>. QED
  BY <1>3, <1>4, <1>5, Zenon

\* Every buffer that was not lost to a cut read or a failed write is in the pool,
\* posted, in a thread's hand, or has a final message, which will release it;
\* those that were lost have none of these.
THEOREM NoOtherBufferLeaks == Spec => []OnlyCutReadsLeak
<1>1. Init => LifeInv /\ Everywhere
  BY LifeInit, OwnerIs DEF Init, OwnerFacts, Everywhere, Life!Owners
<1>2. LifeInv /\ Everywhere /\ [Next]_vars => LifeInv' /\ Everywhere'
  BY LifeInvStep, EverywhereStep
<1>. QED
  BY <1>1, <1>2, PlacesCirculate, PTL DEF Spec

(***************************************************************************)
(* While the connection is up the pool gets everything back if no read is  *)
(* cut: the next theorem needs this, it is a hypothesis of it.             *)
(***************************************************************************)

\* The main thread runs while the connection is up.
NothingLostInv ==
  /\ parse.tail # "overrun"
  /\ open <=> poller # "done"
  /\ open => lost = {}

\* Only an overrun and a failed write, which closes, lose a buffer.
LEMMA NothingLostStep ==
  ASSUME "overrun" \notin Tails, TypeOK, NothingLostInv, [Next]_vars
  PROVE  NothingLostInv'
<1>. USE DEF NothingLostInv, pollVars, consumeVars, history
<1>1. CASE UNCHANGED <<open, lost, parse>> /\ (poller' = "done" <=> poller = "done")
  BY <1>1
<1>2. CASE HandlerPushes \/ HandlerRepeats
  BY <1>2 DEF HandlerPushes, HandlerRepeats, Push, TypeOK
<1>3. CASE HandlerReturns
  <2>1. parse.tail = "exact" /\ NextPush.final
    BY <1>3 DEF HandlerReturns, TypeOK, AllTails, NextPush
  <2>. QED
    BY <1>3, <2>1 DEF HandlerReturns, Push, AfterIn, TypeOK
<1>4. CASE ReadData
  BY <1>4 DEF ReadData, Reads
<1>5. CASE PollFails \/ ReadFails \/ WriteFails
  BY <1>5 DEF PollFails, ReadFails, WriteFails, Close
<1>6. CASE PostLogon \/ PollReady \/ NothingToSend \/ Write \/ ReleaseWritten
  BY <1>1, <1>6 DEF PostLogon, PollReady, NothingToSend, Write, ReleaseWritten
<1>7. CASE HandlerRejects
  BY <1>1, <1>7 DEF HandlerRejects, AfterIn
<1>8. CASE Consume \/ ConsumerExits \/ CallOnce \/ Release
  BY <1>1, <1>8 DEF Consume, ConsumerExits, CallOnce, Release
<1>9. CASE CreateHeartbeat \/ CreateRequest \/ PostHeartbeat \/ PostRequest
  BY <1>1, <1>9
  DEF CreateHeartbeat, CreateRequest, Create, PostHeartbeat, PostRequest, Post
<1>10. CASE UNCHANGED vars
  BY <1>1, <1>10 DEF vars
<1>. QED
  BY <1>2, <1>3, <1>4, <1>5, <1>6, <1>7, <1>8, <1>9, <1>10, Zenon
  DEF Next, MainThread, ConsumerThread

(***************************************************************************)
(* The threads do not wait for each other, as long as the server leaves    *)
(* room in the pool for the answers.  Each message in a queue, or at hand  *)
(* and not answered, may hold a buffer; there are never as many of them as *)
(* buffers.                                                                *)
(***************************************************************************)

\* The message at hand may still take a place in m_outgoing.
Owes ==
  IF \/ consumer \in {"beat", "beat_post", "request", "request_post"}
     \/ (consumer = "once" /\ cur.type # "beat")
  THEN 1 ELSE 0

Pending == Len(in_queue) + Len(outgoing) + Owes

\* A message has one answer: a beat is not the one that fires the request.
AnsweredOnce ==
  /\ consumer \in {"beat", "beat_post"} => cur.type = "beat"
  /\ consumer = "request" => cur.type # "beat"
  /\ ~once /\ state = "LoggedIn" => consumer = "once" /\ cur.type = "logon"

\* Before the first read there is nothing but the logon; each read adds up to
\* MaxPerRead messages to less than Window, and nothing else adds any.
FlowBounded ==
  /\ parse.tail = "exact"
  /\ poller = "start" => reads = 0
  /\ reads = 0 => parse.types = <<>> /\ in_queue = <<>> /\ cur = NoMsg
  /\ reads > 0 => Pending + Len(parse.types) < Window + MaxPerRead

FlowInv == TypeOK /\ Stages /\ AnsweredOnce /\ FlowBounded

\* Before the logon nothing is on its way.
LEMMA FlowInit == Init => FlowInv
BY TypeInit DEF Init, FlowInv, AnsweredOnce, FlowBounded

\* The consumer answers a message once.
LEMMA AnsweredOnceStep ==
  ASSUME FlowInv, [Next]_vars
  PROVE  AnsweredOnce'
<1>. USE DEF FlowInv, AnsweredOnce, consumeVars
<1>1. CASE MainThread \/ UNCHANGED vars
  <2>1. CASE PostLogon
    BY <2>1 DEF PostLogon, Stages
  <2>2. CASE ~PostLogon
    BY <1>1, <2>2
    DEF MainThread, PollFails, PollReady, ReadData, ReadFails, HandlerRejects,
        HandlerPushes, HandlerRepeats, HandlerReturns, Push, NothingToSend,
        Write, WriteFails, ReleaseWritten, Close, vars
  <2>. QED
    BY <2>1, <2>2
<1>2. CASE Consume
  BY <1>2 DEF Consume
<1>3. CASE CallOnce
  BY <1>3 DEF CallOnce
<1>4. CASE ConsumerExits \/ Release
  BY <1>4 DEF ConsumerExits, Release
<1>5. CASE CreateHeartbeat \/ CreateRequest
  BY <1>5 DEF CreateHeartbeat, CreateRequest, Create
<1>6. CASE PostHeartbeat \/ PostRequest
  BY <1>6 DEF PostHeartbeat, PostRequest, Post
<1>. QED
  BY <1>1, <1>2, <1>3, <1>4, <1>5, <1>6 DEF Next, ConsumerThread

\* What is counted are numbers.
LEMMA CountTypes ==
  ASSUME TypeOK
  PROVE  /\ Len(in_queue) \in Nat /\ Len(outgoing) \in Nat
         /\ Len(parse.types) \in Nat /\ Owes \in {0, 1} /\ reads \in Nat
         /\ Window \in Nat /\ MaxPerRead \in Nat
BY ClientAssumption DEF TypeOK, Owes, ClientAssumption

\* What the main thread does to the count.
LEMMA FlowMain ==
  ASSUME Tails \subseteq {"exact"}, FlowInv, TypeOK', MainThread
  PROVE  FlowBounded'
<1>. USE DEF FlowInv, pollVars, consumeVars, history
<1>1. CASE PostLogon
  BY <1>1 DEF PostLogon, FlowBounded
<1>2. CASE ReadData
  <2>1. parse' \in Reads /\ parse'.tail = "exact" /\ poller' # "start"
    BY <1>2 DEF ReadData, Reads
  <2>2. Len(parse'.types) <= MaxPerRead
    <3>1. PICK n \in 0..MaxPerRead : parse'.types \in [1..n -> MsgType]
      BY <2>1 DEF Reads
    <3>2. n \in Nat /\ n <= MaxPerRead
      BY <3>1, CountTypes
    <3>3. Len(parse'.types) = n
      BY <3>1, <3>2
    <3>. QED
      BY <3>2, <3>3
  <2>3. Unanswered < Window /\ reads' = reads + 1
    BY <1>2 DEF ReadData
  <2>4. UNCHANGED <<in_queue, outgoing, consumer, cur>>
    BY <1>2 DEF ReadData
  <2>5. Pending' <= Unanswered
    <3>1. cur = NoMsg => Owes = 0
      BY DEF Stages, Owes
    <3>2. Owes' = Owes /\ Len(in_queue') = Len(in_queue) /\ Len(outgoing') = Len(outgoing)
      BY <2>4 DEF Owes
    <3>. QED
      BY <3>1, <3>2, CountTypes DEF Pending, Unanswered
  <2>6. reads' # 0
    BY <2>3, CountTypes
  <2>7. Unanswered \in Nat /\ Pending' \in Nat /\ Len(parse'.types) \in Nat
    <3>1. Len(in_queue') \in Nat /\ Len(outgoing') \in Nat /\ Owes' \in {0, 1}
          /\ Len(parse'.types) \in Nat
      BY DEF TypeOK, Owes
    <3>. QED
      BY <3>1, CountTypes DEF Pending, Unanswered
  <2>8. Pending' + Len(parse'.types) < Window + MaxPerRead
    BY <2>2, <2>3, <2>5, <2>7, CountTypes
  <2>. QED
    BY <2>1, <2>6, <2>8 DEF FlowBounded
<1>3. CASE HandlerPushes \/ HandlerReturns
  <2>1. /\ in_queue' = Append(in_queue, NextPush) /\ parse.types # <<>>
        /\ parse' = [parse EXCEPT !.types = Tail(parse.types)]
        /\ UNCHANGED <<outgoing, consumer, cur, reads>> /\ poller' # "start"
    BY <1>3 DEF HandlerPushes, HandlerReturns, Push, AfterIn
  <2>2. /\ Len(in_queue') = Len(in_queue) + 1
        /\ Len(parse.types) \in Nat \ {0}
    BY <1>3, <2>1, PushType, PushBack DEF HandlerPushes, HandlerReturns, TypeOK
  <2>3. Len(parse'.types) = Len(parse.types) - 1
    BY <2>1, HeadTailProperties DEF TypeOK
  <2>4. reads > 0
    BY <2>1, CountTypes DEF FlowBounded
  <2>5. Owes' = Owes /\ Len(outgoing') = Len(outgoing)
    BY <2>1 DEF Owes
  <2>6. Pending' + Len(parse'.types) = Pending + Len(parse.types)
    <3>1. Pending' = Pending + 1 /\ Pending \in Nat
      BY <2>2, <2>5, CountTypes DEF Pending
    <3>2. PICK a \in Nat, b \in Nat \ {0} : a = Pending /\ b = Len(parse.types)
      BY <2>2, <3>1
    <3>3. Pending' = a + 1 /\ Len(parse'.types) = b - 1
      BY <2>3, <3>1, <3>2
    <3>4. (a + 1) + (b - 1) = a + b
      OBVIOUS
    <3>. QED
      BY <3>2, <3>3, <3>4, Zenon
  <2>7. parse'.tail = "exact"
    BY <2>1 DEF FlowBounded, TypeOK
  <2>. QED
    BY <2>1, <2>4, <2>6, <2>7, CountTypes DEF FlowBounded
<1>4. CASE HandlerRepeats
  BY <1>4 DEF HandlerRepeats, FlowBounded
<1>5. CASE Write \/ WriteFails
  <2>1. /\ outgoing # <<>> /\ outgoing' = Tail(outgoing)
        /\ UNCHANGED <<in_queue, parse, consumer, cur, reads>> /\ poller' # "start"
    BY <1>5 DEF Write, WriteFails, Close
  <2>2. Len(outgoing') = Len(outgoing) - 1
    BY <2>1, HeadTailProperties DEF TypeOK
  <2>3. Owes' = Owes
    BY <2>1 DEF Owes
  <2>4. Pending' = Pending - 1 /\ Pending \in Nat
    BY <2>1, <2>2, <2>3, CountTypes DEF Pending
  <2>5. Pending + Len(parse.types) < Window + MaxPerRead
          => Pending' + Len(parse.types) < Window + MaxPerRead
    BY <2>4, CountTypes
  <2>. QED
    BY <2>1, <2>5 DEF FlowBounded
<1>6. CASE \/ PollFails \/ PollReady \/ ReadFails \/ HandlerRejects
           \/ NothingToSend \/ ReleaseWritten
  <2>1. UNCHANGED <<in_queue, outgoing, parse, consumer, cur, reads>> /\ poller' # "start"
    BY <1>6 DEF PollFails, PollReady, ReadFails, HandlerRejects, NothingToSend,
       ReleaseWritten, Close, AfterIn
  <2>. QED
    BY <2>1 DEF FlowBounded, Pending, Owes
<1>. QED
  BY <1>1, <1>2, <1>3, <1>4, <1>5, <1>6 DEF MainThread

\* What the consumer does to the count: what it takes it owes an answer, what it
\* posts it does not owe any more.
LEMMA FlowConsumer ==
  ASSUME FlowInv, TypeOK', AnsweredOnce', ConsumerThread
  PROVE  FlowBounded'
<1>. USE DEF FlowInv, pollVars, history
<1>1. UNCHANGED <<parse, poller, reads>>
  BY DEF ConsumerThread, Consume, ConsumerExits, CallOnce, Release,
     CreateHeartbeat, CreateRequest, Create, PostHeartbeat, PostRequest, Post
<1>2. reads = 0 => in_queue' = <<>> /\ cur' = NoMsg
  BY DEF FlowBounded, ConsumerThread, Consume, ConsumerExits, CallOnce, Release,
     CreateHeartbeat, CreateRequest, Create, PostHeartbeat, PostRequest, Post
<1>3. Pending' <= Pending
  <2>1. CASE Consume
    <3>1. Len(in_queue') = Len(in_queue) - 1 /\ Len(outgoing') = Len(outgoing)
      BY <2>1, HeadTailProperties DEF Consume, TypeOK
    <3>2. Owes = 0 /\ Owes' = 1
      BY <2>1 DEF Consume, Owes
    <3>. QED
      BY <3>1, <3>2, CountTypes DEF Pending
  <2>2. CASE PostHeartbeat \/ PostRequest
    <3>1. Len(outgoing') = Len(outgoing) + 1 /\ in_queue' = in_queue
      <4>1. reply \in OutMsg /\ outgoing' = Append(outgoing, reply)
        BY <2>2 DEF PostHeartbeat, PostRequest, Post, Stages, TypeOK
      <4>. QED
        BY <2>2, <4>1, PushBack DEF PostHeartbeat, PostRequest, Post, TypeOK
    <3>2. Owes = 1 /\ Owes' = 0
      BY <2>2 DEF PostHeartbeat, PostRequest, Post, Owes, AnsweredOnce
    <3>. QED
      BY <3>1, <3>2, CountTypes DEF Pending
  <2>3. CASE \/ ConsumerExits \/ CallOnce \/ Release
             \/ CreateHeartbeat \/ CreateRequest
    <3>1. UNCHANGED <<in_queue, outgoing>>
      BY <2>3 DEF ConsumerExits, CallOnce, Release, CreateHeartbeat, CreateRequest,
         Create
    <3>2. Owes' = Owes \/ Owes' = 0
      BY <2>3 DEF ConsumerExits, CallOnce, Release, CreateHeartbeat, CreateRequest,
         Create, Owes, AnsweredOnce
    <3>. QED
      BY <3>1, <3>2, CountTypes DEF Pending
  <2>. QED
    BY <2>1, <2>2, <2>3 DEF ConsumerThread
<1>4. Pending \in Nat /\ Pending' \in Nat
  <2>1. Len(in_queue') \in Nat /\ Len(outgoing') \in Nat /\ Owes' \in {0, 1}
    BY DEF TypeOK, Owes
  <2>. QED
    BY <2>1, CountTypes DEF Pending
<1>5. Pending + Len(parse.types) < Window + MaxPerRead
        => Pending' + Len(parse.types) < Window + MaxPerRead
  BY <1>3, <1>4, CountTypes
<1>. QED
  BY <1>1, <1>2, <1>5 DEF FlowBounded

\* No step has more on its way than the server may have asked for.
LEMMA FlowStep ==
  ASSUME Tails \subseteq {"exact"}, FlowInv, [Next]_vars
  PROVE  FlowInv'
<1>1. TypeOK' /\ Stages' /\ AnsweredOnce'
  BY TypeStep, AnsweredOnceStep DEF FlowInv
<1>2. CASE UNCHANGED vars
  BY <1>1, <1>2
  DEF FlowInv, FlowBounded, Pending, Owes, vars, pollVars, consumeVars, history
<1>. QED
  BY <1>1, <1>2, FlowMain, FlowConsumer DEF Next, FlowInv

\* If both threads waited every buffer would be held by a message on its
\* way, and there are fewer of those than buffers.
LEMMA RoomForAnswers ==
  ASSUME LifeInv, Everywhere, NothingLostInv, FlowInv,
         Window + MaxPerRead <= Cardinality(Bufs)
  PROVE  NoMutualWait
<1>. SUFFICES ASSUME PollerBlocked, ConsumerBlocked PROVE FALSE
  BY DEF NoMutualWait
<1>1. /\ pool = {} /\ consumer \in {"beat", "request"} /\ poller \in {"get", "handle"}
      /\ poller = "handle" => parse.types # <<>>
  BY DEF PollerBlocked, ConsumerBlocked
<1>2. lost = {} /\ reply = NoOut /\ cur # NoMsg
  BY <1>1 DEF NothingLostInv, FlowInv, Stages
<1>3. Bufs \subseteq Queued \cup Posted \cup {cur.buf, hand}
  <2>. SUFFICES ASSUME NEW b \in Bufs,
                       b \notin Queued \cup Posted \cup {cur.buf, hand}
                PROVE  FALSE
    OBVIOUS
  <2>1. ~WithApp(b) /\ b # reply.buf
    BY <1>2, PlacesType, NothingAtHand DEF WithApp, Final, Queued, LifeInv
  <2>2. OwnerOf(b) = "nowhere"
    BY <1>1, <1>2, <2>1, OwnerIs DEF OwnerFacts
  <2>. QED
    BY <2>2 DEF Everywhere, Life!Owners
<1>4. reads > 0 /\ Pending + Len(parse.types) < Window + MaxPerRead
  BY <1>2, CountTypes DEF FlowInv, FlowBounded
<1>5. Owes = 1
  BY <1>1 DEF Owes
<1>. DEFINE k == Len(in_queue)
            m == Len(outgoing)
            Rest == Queued \cup Posted \cup {cur.buf}
<1>6. k \in Nat /\ m \in Nat /\ Pending = k + m + 1
  BY <1>5, CountTypes DEF Pending, FlowInv
<1>7. IsFiniteSet(Rest) /\ Cardinality(Rest) <= k + m + 1
  <2>1. /\ IsFiniteSet(Queued) /\ Cardinality(Queued) <= k
        /\ IsFiniteSet(Posted) /\ Cardinality(Posted) <= m
    BY BufsOfQueue DEF FlowInv, TypeOK, Queued, Posted
  <2>. QED
    BY <1>6, <2>1, UnionBound
<1>8. IsFiniteSet(Bufs) /\ Cardinality(Bufs) \in Nat /\ NoBuf \notin Bufs
  BY ClientAssumption, FS_CardinalityType DEF ClientAssumption
<1>9. /\ Pending \in Nat /\ Len(parse.types) \in Nat
       /\ Window \in Nat /\ MaxPerRead \in Nat
  BY <1>6, CountTypes DEF FlowInv
<1>10. CASE poller = "get"
  <2>1. Bufs \subseteq Rest
    BY <1>3, <1>8, <1>10 DEF FlowInv, Stages
  <2>2. Cardinality(Bufs) <= Cardinality(Rest) /\ Cardinality(Rest) \in Nat
    BY <1>7, <2>1, FS_Subset, FS_CardinalityType
  <2>3. Cardinality(Bufs) <= Pending
    BY <1>6, <1>7, <1>8, <2>2
  <2>. QED
    BY <1>4, <1>8, <1>9, <2>3
<1>11. CASE poller = "handle"
  <2>1. Bufs \subseteq Rest \cup {hand}
    BY <1>3
  <2>2. /\ IsFiniteSet(Rest \cup {hand})
        /\ Cardinality(Rest \cup {hand}) <= Cardinality(Rest) + 1
        /\ Cardinality(Rest) \in Nat
    BY <1>7, AddBound
  <2>3. /\ Cardinality(Bufs) <= Cardinality(Rest \cup {hand})
        /\ Cardinality(Rest \cup {hand}) \in Nat
    BY <2>1, <2>2, FS_Subset, FS_CardinalityType
  <2>4. Cardinality(Bufs) <= Pending + 1
    BY <1>6, <1>7, <1>8, <2>2, <2>3
  <2>5. Len(parse.types) >= 1
    BY <1>1, <1>11, PopFront DEF FlowInv, TypeOK
  <2>. QED
    BY <1>4, <1>8, <1>9, <2>4, <2>5
<1>. QED
  BY <1>1, <1>10, <1>11

\* If the reads end with a message and the server never has more work out than
\* the pool has buffers for, counting the read that is on its way, then the
\* main thread and the consumer never wait for each other, with queues of any
\* length.  (With one message more they do: the run about it finds the state.)
THEOREM ThreadsNeverWait ==
  ASSUME Tails \subseteq {"exact"}, Window + MaxPerRead <= Cardinality(Bufs)
  PROVE  Spec => []NoMutualWait
<1>. DEFINE I == LifeInv /\ Everywhere /\ NothingLostInv /\ FlowInv
<1>1. Init => I
  BY LifeInit, FlowInit, OwnerIs
  DEF Init, OwnerFacts, Everywhere, Life!Owners, NothingLostInv
<1>2. I /\ [Next]_vars => I'
  <2>1. "overrun" \notin Tails
    OBVIOUS
  <2>. QED
    BY <2>1, LifeInvStep, EverywhereStep, NothingLostStep, FlowStep DEF FlowInv
<1>3. I => NoMutualWait
  BY RoomForAnswers
<1>. QED
  BY <1>1, <1>2, <1>3, PTL DEF Spec
=============================================================================
