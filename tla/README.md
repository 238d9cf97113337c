# open_fix in TLA+

A verification development for open_fix, a header-only FIX client and TCP server in C++.
Every module is written from the source under `src/`; paths below are relative to it.

## The system

| component | source | state | operations | talks to |
|---|---|---|---|---|
| session | `include/session.h` | `m_fd`, a plain `int` | read, write, close | the socket |
| buffer pool | `include/details.h` (`object_pool`) | an atomic queue of free buffers | get, release; both busy wait | TCP client and server |
| TCP client | `include/tcp_client.h` | pool, `m_outgoing`, the handler | connect, poll, post, get_buf, release_buf | handler (callback), consumer (queues) |
| FIX handler | `include/fix_client.h` | `in_queue`, the clock | `operator()` on one read | called by poll(), feeds the consumer |
| FIX parser | `include/fix_parse.h` | iterators over a buffer | next, init, find | called by the handler |
| FIX client | `include/fix_client.h`, `include/lmax.h` | `m_broker` (state, seq) | consume_fix_msg, post_logon, post_heartbeat, post_market_request | handler's queue, TCP client |
| FIX writer | `include/fix_parse.h` | pointers into a buffer | push_header, push_field, push_trailer | called by the broker |
| LMAX command line client | `test/lmax_cli/main.cpp` | `g_cli`, `g_once` | main, consume_in | two threads over the client |
| TCP server | `include/tcp_server.h` | pollfds, pool, out queue, handler | bind, run, post | handler callbacks |
| server handlers | `test/server/main.cpp`, `include/ipc.h` | subscribed descriptors | on_connect, on_read, on_out, on_disconnect | the server |
| clock | `include/tscns.h` | parameters under a sequence lock | init, calibrate, tsc2ns | handler and consumer |
| the rest | `config.h`, `order.h`, `fix_spec.h`, `test/xml_parse`, ... | - | - | - |

**What is hard.** Two threads run the client. The main thread polls, reads, parses and writes;
the detached consumer takes messages from `in_queue`, answers heartbeats and releases the
buffers. Neither owns a buffer: one read may hold several messages, all pointing into one
buffer, and the flag `is_final` of the last one says who may release it. Both threads wait
busily on the same pool and on bounded queues. TCP cuts the stream anywhere, memory is not
cleared between reads, and the parser does not know where the data ends. The server keeps
descriptors that the kernel hands out again, and erases from a vector while iterating over it.
Each of the five system calls of connect() may fail after others have succeeded. The clock's readers take no
lock. The writer moves the body of a message by a number of digits it has to predict.

**What makes each part correct.**
- Pool and client: a buffer has one user at a time and comes back; nothing reads or writes a
  buffer that was released; a posted message is not touched until it is written.
- Queues: no thread waits for ever; numbers reach the wire in order.
- Handler: a read of whole messages gives exactly these messages; the return value says truly
  whether messages still point into the buffer; every call returns.
- FIX client: a heartbeat or test request is answered; the request follows the logon.
- connect(): ok means a socket that poll() can use, anything else leaves nothing open; the call
  returns, with an error when no address can be connected to.
- Writer: length and checksum are those of the bytes written, inside the buffer.
- Clock: a reader never mixes the parameters of two calibrations.
- Server: a subscription belongs to the client that asked for it; a client is dropped when its
  own write fails; every buffer comes back; the server's thread does not wait for itself.

## The modules

| module | what it is |
|---|---|
| `FixClient` | the two threads of the client: poll(), the handler's calls, consume_in(), the posts |
| `BufferLife` | abstract: where a buffer may be and along which paths it moves |
| `FixHandler` | handler and parser over memory cells, fed by a stream that TCP cuts |
| `ParseLife` | abstract: what a call of the handler promises to poll() and to the consumer |
| `TcpServer` | the server's thread with the handler of `test/server`, the kernel's descriptors and the clients |
| `TcpConnect` | connect() and the calls around it, with the kernel's descriptors |
| `Conversions` | atoi and itoa next to the decimal system |
| `FixWriter` | the writer, the broker's messages, and the parser on what was written |
| `SeqLock` | the clock's sequence lock, load by load and store by store |
| `AtomicClock` | abstract: a read takes the parameters of one calibration |
| `ClockSync` | syncTime(), trial by trial |
| `TscClock` | init(): syncTime() in front of the calibrations |
| `FixClientProofs` | theorems about `FixClient`: discipline and order; places of the buffers and the threads' waiting |
| `TcpServerProofs`, `TcpServerOrderProofs` | theorems about `TcpServer`: shape and buffers; who is polled and who receives what |
| `TcpConnectProofs`, `FixHandlerProofs`, `SeqLockProofs` | theorems about `TcpConnect`, `FixHandler`, and `SeqLock` with `ClockSync` |
| `FixWriterProofs` | theorems about `Conversions` and `FixWriter` |
| `QueueLemmas` | lemmas the proofs share: queues, pieces and reversals, erasing from a vector, least members, counting, recursion |
| `MCFixClient`, `MCFixHandler`, `MCTcpServer`, `MCTcpConnect`, `MCFixWriter`, `MCSeqLock` | small instances for TLC |

How they fit together: `FixClient` starts where `TcpConnect` has returned ok (`OkMeansUsable` is its
assumption on `m_fd`), and takes from `FixHandler` what a parse may do: both are bound by
`ParseLife`, and `BufferLife` is what the client makes of it. `FixWriter` fills the messages that
`FixClient` posts; `FixHandler` and `FixWriter` use the same parser, over cells and over bytes.
`SeqLock` stands beside them: handler and consumer may read the clock at any time.

`FixClient` abstracts a parse to its outcome: the messages it pushes and how the loop ends
(`Tails`: "exact", "overrun", "stuck"). `FixHandler` is the parser in detail and shows where
these outcomes come from. A fourth outcome, a null pointer used, ends the process: for
`FixClient` that is a behaviour that stops.

### FixClient and the code

An action is a stretch of one thread's code with at most one access to shared state, so every
interleaving of the two threads is a behaviour. A busy wait is a disabled action: `pool = {}`
disables the actions that follow get_buf(), a full `in_queue` disables `Push`, a full
`m_outgoing` disables `Post`.

| code | actions |
|---|---|
| post_logon (main) | `PostLogon`; the consumer starts after it |
| ::poll fails, POLLHUP | `PollFails` |
| POLLIN / POLLOUT | `PollReady`, then `ReadData` or `ReadFails`, then the handler, then the write |
| handler returns true | `HandlerRejects` (poll() releases) |
| a push, more messages follow | `HandlerPushes` |
| a push, what follows does not parse | `HandlerRepeats`: `valid` is never cleared |
| the last push, returns false | `HandlerReturns` |
| try_pop and write | `NothingToSend`, `Write` then `ReleaseWritten`, `WriteFails` |
| consume_fix_msg | `Consume`, `CreateHeartbeat`, `PostHeartbeat` |
| call_once | `CallOnce`, `CreateRequest`, `PostRequest` |
| is_final | `Release` |
| `fd() > 0` is false | `ConsumerExits` |

A poll that reports nothing changes nothing and is a stuttering step. `sent`, `lost` and
`reads` record what happened, for the properties and the bound: `lost` holds the buffers of reads
that were cut ("overrun") and of the write that failed.

### FixHandler and the code

Memory is two neighbouring buffers. A cell is the bytes `tag=`, or a value with its delimiter,
and holds the place of the stream it was read from, so stale content is simply an older place.
Reads end anywhere between cells, that is between a tag and its value or between fields, and not
inside of a tag or a value. The tags of a fresh message's iterators are uninitialized
(`Uninit`): init() sees any of them. A value that is continued by bytes that are not its own
reads as any number. A buffer that was left to the consumer without a final message is never
read into again.

### TcpServer and the code

One thread runs all of the server; what interleaves with it are the clients and the kernel. An
action is the code around one system call, so that clients may connect, finish, reset or stop
reading between any two of them, in particular between the `::poll` whose `revents` a scan uses
and the call made on their account.

| code | actions |
|---|---|
| ::poll | `Poll`, `PollFails`; no event is a stuttering step |
| the loop's increment and condition, `break` | parts of the other actions: `Continue`, `Break` |
| POLLHUP | `HangUp` with on_disconnect |
| accept, on_connect | `Accept`, `AcceptFails` |
| get_buf, read, on_read | `Subscribe` (returns true), `Share` then `Post` (returns false), `ReadFails` |
| POLLOUT, try_pop | `NothingToSend`, `Pop` |
| the send to all or to one, on_out | `Skip`, `Filtered`, `Write`, `WriteFails`, `WriteKills`, then `Release` |
| erase in the send loop | `Erase` |

`pollfds` is `m_pollfds` with the listening socket in front. `targets` is the memory the
range-for of a broadcast walks over: its end is fixed when the loop starts, an erase shifts the
elements in front of it and leaves a copy of the last one behind. An erase at end() is undefined;
the model has the two outcomes of the library's move of a negative number of elements: nothing
moves and the last element is dropped, or the process crashes.

The kernel is modelled as far as run() sees it: `peer` says which connection is behind a
descriptor, `accept` takes the lowest free one, a connection is up, finished by the client (reads
give what is left, then 0), reset (POLLHUP, errors), or reset after it was finished ("pipe": the
error is EPIPE and comes with SIGPIPE, which nothing ignores). Accepted sockets do not inherit
O_NONBLOCK, so a write to a client who does not read (`slow`) blocks.

### TcpConnect and the code

An action is a system call with what the code does about its result: `Lookup`, `LookupFails`
(getaddrinfo), `Socket`, `SocketFails`, `Connect`, `ConnectFails` (which close and take the next
address, `NextAddr`), `FreeInfo` (freeaddrinfo and the test of `m_fd`), `SetUp`, `SetUpFails` (fcntl,
then setsockopt). `PollEnds` is poll(), which ends with close(); after that, or after an error, the
program may call connect() again. `sock` is what the kernel knows of each descriptor.

### FixWriter, Conversions and the code

A text is its length and the sum of its bytes, which is all that BodyLength and CheckSum depend on.
`Opening`, `LogonFields`, `MarketFields` and `Pushes` list the fields that create_logon, create_heartbeat and
create_market_request push; `PushField` writes one; `PushTrailer` counts the body, predicts the
digits of its length (`NumDigits`), moves it, writes 9 in front and 10 behind. `Parsed` is
fix_message_t::init: it finds the trailer where BodyLength says it begins. `Conversions` takes itoa
and atoi character by character: `Quot` and `Rem` truncate as C++ does, `Wrap` is the overflow of
a number of W bits, and `WrapInt` that of an int, in which atoi computes whatever type it is for.
`NumDigits` is exact where the code truncates a double, `log10( n ) + 1`. Digits of a time stamp are taken to be zeros; FIX separators and the sign keep their
codes, since they enter the sum.

### SeqLock, ClockSync and the code

`StartSave`, `Save(f)` and `EndSave` are the two stores of `param_seq_` and the three plain
stores between the fences, in any order; `LoadBefore`, `Load(r, f)` and `LoadAfter` are tsc2ns().
The fences are the compiler's: that the processor keeps stores and loads in their order is x86,
for which the file is written (`rdtsc`). A parameter's value is the number of its calibration.
`AtomicClock` has no lock at all: a read takes the current parameters in one step. `ClockSync`
is syncTime(), a trial at a time: the thread may lose ticks before and after it reads the system
clock. `TscClock` puts it in front of the calibrations, as init() does.

## The runs

| run | question | bounds and why they are enough |
|---|---|---|
| `client_safety` | is shared memory safe, does post() wait, do other buffers leak than those of cut reads, does the client implement `BufferLife`, are messages written in order? | 3 buffers: one being read, one queued, one posted; `in_queue` of 2, so it fills; two messages per read, so a buffer is shared; all tails; 3 reads, so that buffers are used again |
| `client_live` | are beats answered, does the market request follow the logon, is the queue drained, do the threads ever wait for each other? | 3 buffers = `Window` + `MaxPerRead`; an `in_queue` of one, which is full while poll() pushes the next message; 3 messages after the logon, so the pool runs empty; reads end with a message |
| `client_mutual_wait` | do they wait for each other with more in flight? | violated: two messages per read, `Window` 3, 3 buffers |
| `handler_parse` | are whole reads, and the complete messages of any other, parsed as sent; is the contract kept? | 3 messages of two lengths, 3 reads that end between any two cells, two neighbouring buffers |
| `handler_return` | does a call return when a message is cut behind a complete one? | violated: null pointer, with `Uninit = {0}`: it does not take an uninitialized value |
| `server_safety` | do buffers, clients' places in m_pollfds, the order of messages and the listening socket survive? | 3 connections over 2 descriptors, so that these are used again, even while m_pollfds still has them; 4 reads: two subscriptions and two messages, to all or to one; a queue of 1, which fills; clients who reset or stop reading, so that a message waits while its receiver goes away; both writes of a broadcast may fail, so that the erase at end() happens |
| `server_live` | does a message reach all subscribers; can on_read's post wait? | 2 clients who read and may finish |
| `server_stale` | does a subscription belong to who asked for it? | violated by an orderly end |
| `server_drop` | is the right client dropped? | violated by a failed broadcast write |
| `connect` | is nothing leaked, is ok true, does the call return where the loop can end? | hosts of up to 3 addresses, of which any set accepts: the third is the one the loop cannot reach; 3 calls and 3 failures, so that a call follows two failed ones; 2 descriptors, so that one leak leaves another one to use |
| `codec` | are BodyLength and CheckSum right, does the parser take the message, does it fit? | ids of 0, 28, 29, 300, 390 and 400 bytes in each place, so that lengths fall on both sides of 100 and 1000 and of the buffer's 2048; a letter and a byte above 127; 1, 2 and 10 digits of the sequence number's range; beside one message, all 16 bit integers with 2 to 6 characters of room: 16 bits fit an int, and their smallest number is the one that loses its sign |
| `clock` | does a reader see one calibration, does it return; is syncTime() exact? | 3 calibrations, so that a call may span a whole one; numbers modulo 8 from each even one, so that they wrap; one reader, for readers write nothing that another one reads; all interruptions of up to 5 ticks of 3 trials |

`client_safety` uses symmetry with `BuffersFollowLife` and `WireInOrder`: both are properties of
single steps, and neither tells one buffer from another.

Some of what the models show is not a run of its own:
- `NextAddr`: the loop goes on with `info->ai_next`, so that, for a host with several addresses,
  connect() never returns if neither of the first two accepts, never reports connect_err, and never
  tries a third: `Returns` is stated for the other hosts;
- a read whose last message ends beyond the data (`Tails` with "overrun") is left to the consumer
  without a final message, and its buffer never comes back: `OnlyCutReadsLeak` counts it as lost;
- a read that begins with part of a message and lies over an old message in the same buffer is
  completed by it: the old message is queued again (`FixHandler` without `Starts` in
  `CompleteComeFirst`);
- behind a complete message whose second field does not parse the handler's loop repeats for ever,
  because `valid` is not cleared: the other way in which `CallsReturn` fails;
- five ids of 400 bytes make a logon longer than its buffer (`FitsBuffer` with a `SafeLen` of 400);
- with bytes above 127 the checksum may be written as a negative number, which the client's own
  parser takes for the right one (`ParsesBack`) and another one need not;
- itoa writes nothing for 0, and for the smallest number the characters it gets from negative
  remainders; atoi maps them back for an int and for 64 bits does not (an int cannot hold it), and for
  a narrower type it returns that number without its sign (`ConversionsAgree`);
- `CallOnce`: the flag of call_once is spent by the first message, logon or not; a session whose
  first message is another one never posts the market request;
- `WriteKills`: a write to a client that has finished and reset raises SIGPIPE, since send() has no
  MSG_NOSIGNAL, and the server is "dead".

`test/server` itself only sends to all, so no message of it is filtered on its way to one client; with
the messages to one client that the repository's README describes, `Filtered` skips release_buf, and once
every buffer is lost that way get_buf() waits for ever where tcp_server.h:155 logs "postponing fd".
`GetNeverWaits` says that nothing else empties the pool.

`Window` is the work the server may have given the client and got no answer to. It is an
assumption about the server, not code: the safety runs set it out of reach, `client_live`
shows how much the pool can take. TLC finds `NoMutualWait` violated as soon as
`Window + MaxPerRead` exceeds the number of buffers.

Deadlock is not checked: a closed connection ends both loops, a reader at its bound of reads
has nothing to do, and the mutual wait is a property of its own. A writer stops when its message
is written, connect() and the clock at their bounds of calls.

### Fairness

`FairSpec` assumes that the operating system runs both threads (weak fairness on every step),
that ::poll reports an event sooner or later, and that a thread waiting for a buffer gets one
if buffers keep being released (strong fairness: the atomic queue serves its poppers in the
order of their tickets). Nothing is assumed about the server: it may stay silent, and the
connection may go down at any time, which is why the liveness properties end in `\/ ~open`.

For `TcpServer` it is weak fairness of the one thread as a whole: it runs. Nothing is assumed
about the clients, nor about which step the thread takes, except that a failing `::poll` is not
forced. `Served` holds for clients who read (`Slow = FALSE`); with a client who does not it is
false, by the blocking write and by the post of on_read that waits for its own thread.

`TcpConnect`: the thread runs and an attempt to connect ends, as TCP's timers see to. Which calls
fail is open, up to `MaxFaults` failures that have no cause in the address or the descriptors.
`SeqLock`: a calibration that was begun goes on and so does a call of tsc2ns(); neither has to
be begun.

### The slips

A definition introduced by "Slip:" is a mistake one could make in that place of the code, such
as releasing twice or marking every message final. `PROJECT.json` names the property that
excludes each of them.

## What is proved

Each theorem holds for every value of the constants that the module's assumption allows; a
hypothesis beyond that is part of the theorem's statement and named here.

### FixClient

From `ClientAssumption`: a finite nonempty pool, and at least as many slots in `m_outgoing` as
there are buffers, as in `fix_tcp_client`, 64 and 64.

- `TypeCorrect`: `TypeOK` and `Stages`. The types alone are not inductive: that a pushed message
  has a buffer depends on `hand` being one at that point of poll().
- `DisciplineHolds`: the inductive invariant `Discipline`. Safety (`NoUseAfterRelease`) is not
  inductive: that a release is safe depends on the released buffer's final message being the
  last one of it, in the queue and in the parser's hand (`FinalIsLast`), and on buffers that are
  written or filled being private (`WorkIsPrivate`, `PostedIsPrivate`). The proof has one lemma
  for each kind of step: a push, a frame step, taking a buffer, releasing one, a write, a post,
  a consume.
- `NeverUsedAfterRelease`, `PostedStaysPrivate`: its two consequences.
- `PostFindsRoom`: the buffers of `m_outgoing` and of the reply are different, so by the
  pigeonhole principle there are fewer messages than slots.
- `WireOrder`: from the invariant `Numbered`: `m_outgoing`, then the reply, hold exactly the
  numbers between the last one written and the next one.
- `ClientFollowsLife`: `FixClient` implements `BufferLife`. The mapping `OwnerOf` takes the first
  place that fits, so the argument is first that only one fits (`OwnerFacts`, from `LifeInv`:
  `Discipline`, and that a lost buffer stays out of everything), then that a step changes the
  facts about one buffer at most (`LifeStep`).
- `NoOtherBufferLeaks`: `OnlyCutReadsLeak`. Every buffer is in one of `BufferLife`'s places
  (`PlacesCirculate`), and all of them but "lost" are places it comes back from: the pool, a thread's
  hand, a posted or prepared message, or a queue that still holds its final message.
- `ThreadsNeverWait`: `NoMutualWait`, with exact reads and `Window + MaxPerRead <=
  Cardinality(Bufs)`. The invariant `FlowInv` counts what is on its way: messages in both queues,
  in the parser's hand, and at the consumer's if they may still be answered (`Owes`), are fewer
  than `Window + MaxPerRead`. If both threads waited, the pool would be empty and each buffer held
  by one of these messages. `client_mutual_wait` shows that one message more breaks it.

### FixHandler

From `HandlerAssumption`: any messages of at least one field, any sizes, any uninitialized tags.

- `HandlerTypeCorrect`: `TypeOK`, from `HandlerInv`, which says where the iterators may stand: the
  loop goes on behind what it pushed, or at no place. `After` is what one init() leaves behind.
- `HandlerKeepsContract`: the handler implements `ParseLife`. Each round of the loop has an
  `Outcome`: a crash, a rejection with nothing pushed, or a push that is final only if it ends the
  call.
- `WholeReadsReachConsumer`, `CompleteReachConsumer`: `WholeReadsParsed` and `CompleteComeFirst`, from
  the invariant `ParseInv`. `Framed` is what the stream is: wherever a message starts, BodyLength
  says where its trailer is, no message starts inside of it, and another one or the end follows;
  that the server's messages are like this (`CellsLayout`, `FramedCells`, `FramedConcat`) is proved
  from `Cells`. `Filled` ties memory to the stream. `Progress` is the heart: up to some place the read
  was parsed to the first pushes, and at that place the handler goes on, or has reached the end, or
  has met a message that is cut. From a cut message on nothing is claimed of the iterators: stale
  memory may complete it.

### TcpServer

From `ServerAssumption`: `m_outgoing` smaller than the pool, any clients, descriptors and endings.

- `ServerShape`: the inductive invariant `ShapeInv` about the vector: `it` is inside of it except
  in the send loop, which may erase under it; `SendLoop` bounds what that loop can erase by the
  elements it has left behind; `Arrivals` bounds the vector by the clients accepted.
- `ServerTypeCorrect`, `ListeningGoesOn`: `TypeOK` and `ListenerStays`. That no erase takes the
  listening socket needs `SendLoop`: the first element walked over is the listening socket itself,
  so the vector is never as short as the erases are many.
- `BuffersOnePlace`, `PoolNeverEmpty`: `OnePlace`, and `GetNeverWaits` from it by counting: a queue
  that is smaller than the pool cannot hold all of it.
- `ClientsPolled`: `PolledUntilAWriteFails`, with `PolledOnce`: descriptors in the vector are
  different and those of the connections.
- `ReceivedInOrder`: `OnceInOrder`, with `QueueInOrder` (numbers rise along the queue and to the
  message at hand) and `Received` (nobody has received what is queued; of the message being sent
  only those whose turn was).
- `PostNeverWaits`: `NeverWaitsForItself`, with `~Slow`. The invariant `Drained`: an element that is
  readable is writable, so the queue is empty whenever a client is heard. With slow clients the
  property is false.

### TcpConnect

From `ConnectAssumption` the invariant `ConnectInv` (`ConnectInvHolds`): at each point of connect()
the session's descriptor is the only open one (`OnlySession`), what the calls made of it so far
(`MadeSoFar`), and where the list of addresses is in use (`ListInUse`). From it
`ConnectTypeCorrect`, `ConnectNeverLeaks` and `OkIsUsable`.

### The clock

From `SeqAssumption` and `SyncAssumption`:

- `LockHolds`: the inductive invariant `Locked`. `SeenIsCurrent` alone says nothing of a reader whose
  number is old; `ReadersFollow` says how many calibrations have ended since it read the number, and
  `ParamsInStep` which parameters are the old ones while the others are written. That a reader's
  number is never met again (`NeverLeft`) is where `2 * MaxCalibrations < Numbers` enters.
- `SeqTypeCorrect`: `TypeOK`, with the number odd exactly during a calibration.
- `SeenStaysCurrent`: `SeenIsCurrent`.
- `ClockIsAtomic`: `SeqLock` implements `AtomicClock`; the steps that map to a step of it are `EndSave`
  and a `LoadAfter` that finds its number.
- `SyncIsExact`: `SyncWithinBest` for every number of trials, with `Readings` (each system time lies
  between the two counter readings around it) and `BestIsShortest`, an induction along the loop.
- `ClockRunsLock`: `TscClock` implements `SeqLock`, so all of the above holds after init().

### FixWriter and Conversions

From `WidthAssumption` (8, 16, 32 or 64 bits) and `WriterAssumption` (ids of any length, of any bytes
but 0 and the separator, and any sequence numbers):

- `ConversionsAgreeAlways`: `ConversionsAgree`, for every number of the width and every room. What
  itoa collects is the number's digits, turned: `ReversedOf` and `TurnedIsNumeral` for numbers above
  0, and for the smallest number its digits with negative remainders. `ReadsBack` is the loop of atoi
  on these, for numbers that an int holds: each prefix is the number without its last digits, so nothing
  overflows on the way. For the smallest int the minus in front is what wraps (`IntWraps`), and for the
  smallest number of a narrower type nothing does, so it loses its sign (`NarrowHalf`). Of numbers of
  64 bits that an int cannot hold nothing is claimed.
- `WritesInOrder` is the inductive invariant of the writer (`WritesAlways`): what is out and what is
  still to be pushed make up the message (`MessageOf`), and in the end `out` is `Written`, a closed
  form of the whole message. `TypeOK` alone does not say what is out, and no property of the finished
  message follows from it. The step that writes the trailer needs `NumDigitsOf`: the one k with
  `10^(k-1) <= n < 10^k` is the number of digits `Digits` gives, for every n above 0, so the gap that
  is made is the one that is filled.
- `WriterTypesAlways`, `BodyLengthAlwaysCounts`, `CheckSumAlwaysAgrees`: `TypeOK`, `BodyLengthCounts` and
  `CheckSumAgrees`, from where the parts of `Written` are (`WrittenOf`).
- `AlwaysParsesBack`: `ParsesBack`. Every field takes a byte (`BeginsBefore`), so only the trailer begins
  where BodyLength points, and atoi takes the tags 8, 9, 10 and 35 for what they are
  (`TagReadsBack`).
- `ShortIdsAlwaysFit`: `FitsBuffer`, with `RoomForAll`: sequence numbers of 32 bits, a buffer below 10000
  bytes, and `5 * SafeLen + 98` and `3 * SafeLen + 167` within it, which is the longest logon and the
  longest market request. For the client's 2048 bytes that is a `SafeLen` of 390, and 391 may be too long.

### Recursion

`Best`, `FlattenSeq`, `Power`, `Digits`, `Reversed`, `Value` and `Total` are recursive functions. An
induction theorem that takes an operator cannot be used here, but one that takes a set can:
`QueueLemmas` derives `Inductive` from the well-foundedness of the numbers, and from that `Recursion`
and `RecursionUp` (over positions) and `RecursionDown` (over anything with a size that shrinks): such a
function exists and has its defining equation. `Computed`, `UpToTop` and `SmallerFirst` are the inductions
that go with them.

### Only model-checked

- Liveness (`BeatAnswered`, `RequestFollowsLogon`, `InQueueDrains`, `Served`, `Returns`, `ReadsReturn`):
  this prover does no fairness.
- The violations. `CallsReturn`, `SubscribersAsked` and `EveryClientPolled` are false, and what is
  false of `NoMutualWait` is what `ThreadsNeverWait` excludes.

## What is not modelled, and the plan

Next, proofs:
1. `FixClient` and `FixHandler` in one statement: what `ParseLife` promises is what `FixClient`
   assumes of a parse.
2. `PolledUntilAWriteFails` and `OnceInOrder` say nothing after a failed write: what still holds then.

Left out, and why:
- `json.h` and pugixml are other projects' parsers, `fix_spec.h` holds constants and tables that
  `util/spec_parse.py` generates, `include.h` is a list of headers: nothing of them keeps state of
  this program. They are most of the repository's lines.
- `config.h` reads one file before the program starts; `test/xml_parse`, `test/fix_parse` and
  `test/benchmark` are tools without state.
- `order.h`: no program creates an order book, so no caller says which calls are legal.
- `ipc.h`: included by nothing, and its server cannot be instantiated.
- The write that sends only a part: any positive result counts as sent in the code.
- The teardown of the process under a running consumer; EINTR as a cause of a failed poll; the
  steps of bind() before run().
- The floating point arithmetic of the clock; wording of messages and logs.
- The external atomic_queue, spdlog, fmt and prometheus: of these only capacity and order of the
  queue and the text of numbers are used.
