----------------------------- MODULE FixHandler -----------------------------
(***************************************************************************)
(* fix_handler of include/fix_client.h and the parser it runs,             *)
(* fix_message_t::init() and fix_field_iterator_t::next() of               *)
(* include/fix_parse.h, on what read() puts into the buffers of the pool.  *)
(*                                                                         *)
(* TCP delivers the server's stream in pieces that do not respect message  *)
(* boundaries.  Memory is a row of cells: the bytes "tag=" are one cell,   *)
(* the bytes of a value and its delimiter another.  A cell holds the place *)
(* in the stream it was read from, or nothing: read() neither clears the   *)
(* rest of the buffer nor ends it with a zero, so the parser may run on    *)
(* into what an earlier read has left there, or into the next buffer.      *)
(* Memory behind the second buffer is taken to be zero.                    *)
(***************************************************************************)
EXTENDS Naturals, Sequences, SequencesExt, FiniteSets

CONSTANTS
  Kinds,      \* the messages a server sends: [type : MsgType, fields : 1..n],
              \* fields being those between BodyLength and CheckSum
  Uninit,     \* what an uninitialized tag may hold, 0 standing for all the
              \* values that init() does not look for
  BufCells,   \* the size of a buffer
  MaxMsgs,    \* bound: messages in the stream
  MaxReads    \* bound: reads

ASSUME HandlerAssumption ==
  /\ \A k \in Kinds : k.fields \in Nat \ {0}
  /\ Uninit # {} /\ Uninit \subseteq {0, 8, 10}
  /\ {BufCells, MaxMsgs, MaxReads} \subseteq Nat

VARIABLES
  wire,    \* the cells of the stream
  pos,     \* how many of them were read
  mem,     \* two neighbouring buffers of the pool
  buf,     \* where the buffer at hand starts
  len,     \* how many cells of it were read
  ps,      \* the fields of `msg`
  pc,      \* where the handler is
  pushed,  \* what it has pushed for this read, repetitions left out
  round,   \* parity of the loop's iterations
  leaked,  \* buffers left to the consumer without a final message
  reads    \* number of reads

vars == <<wire, pos, mem, buf, len, ps, pc, pushed, round, leaked, reads>>

-----------------------------------------------------------------------------
(* The stream.                                                             *)

TagCell(t)    == [kind |-> "tag", tag |-> t, val |-> 0]
ValCell(t, v) == [kind |-> "val", tag |-> t, val |-> v]
Nul           == [kind |-> "nul", tag |-> 0, val |-> 0]

Field(t, v) == <<TagCell(t), ValCell(t, v)>>

\* BeginString, BodyLength, MsgType, other fields, CheckSum
Cells(k) ==
  Field(8, 0) \o Field(9, 2 * k.fields) \o Field(35, k.type)
    \o FlattenSeq([i \in 1..k.fields - 1 |-> Field(49, 0)]) \o Field(10, 0)

Streams == UNION {[1..n -> Kinds] : n \in 1..MaxMsgs}

\* Does a message of the stream start at place o?
Starts(o) == o = Len(wire) + 1 \/ wire[o] = TagCell(8)

-----------------------------------------------------------------------------
(* The field iterator.                                                     *)

Cell(p) == IF p \in DOMAIN mem /\ mem[p] # 0 THEN wire[mem[p]] ELSE Nul

\* Where the scan for a delimiter stops: at the end of a value or at a zero.
Stop(p) ==
  CHOOSE e \in p..Len(mem) + 1 :
    Cell(e).kind # "tag" /\ \A i \in p..e - 1 : Cell(i).kind = "tag"

\* next() finds a '=' and a delimiter.
Parses(p) == Cell(p).kind = "tag" /\ Cell(Stop(p)).kind = "val"

\* cur.tag after next(): a field that does not parse leaves it as it was.
TagAfter(p, old) == IF Parses(p) THEN Cell(p).tag ELSE old

Null == 0

\* cur.begin after next().
BeginAfter(p) == IF Parses(p) THEN Stop(p) + 1 ELSE Null

\* What as_int() makes of the value of the field at p: its number, unless the
\* value is not BodyLength's own.
Ints(p) ==
  LET c == Cell(p + 1)
  IN  IF c.kind = "val" /\ c.tag = 9 THEN {c.val} ELSE 0..Len(mem)

Char(p) ==
  LET c == Cell(p + 1)
  IN  IF c.kind = "val" /\ c.tag = 35 THEN c.val ELSE "other"

-----------------------------------------------------------------------------
(* init(), on a message that starts at p: `crash` is the use of a null     *)
(* pointer.                                                                *)

Crash == [btag |-> 0, etag |-> 0, end |-> Null, type |-> "crash", valid |-> FALSE]

\* The trailer is expected at e, begin_it stands on the field at f.
InitTrailer(e, f, m) ==
  LET etag == TagAfter(e, m.etag)
      \* the end of a field that does not parse is null, end_ is behind it
      m10  == [m EXCEPT !.etag = etag, !.end = BeginAfter(e)]
      b35  == TagAfter(f, m.btag)
  IN  IF etag # 10 THEN [m EXCEPT !.etag = etag]
      ELSE IF Cell(e).kind # "tag" THEN Crash       \* as_int() of no value
      ELSE IF b35 # 35 THEN [m10 EXCEPT !.btag = b35]
      ELSE [m10 EXCEPT !.btag = TagAfter(BeginAfter(f), 35),
                       !.type = Char(f), !.valid = TRUE]

\* The results init() may have.
InitResults(p, m) ==
  LET b8 == TagAfter(p, m.btag)
      f9 == BeginAfter(p)
      b9 == TagAfter(f9, b8)
      f  == BeginAfter(f9)
  IN  IF b8 # 8 THEN {[m EXCEPT !.btag = b8]}
      ELSE IF f9 = Null THEN {Crash}
      ELSE IF b9 # 9 THEN {[m EXCEPT !.btag = b9]}
      ELSE {IF n = 0 THEN [m EXCEPT !.btag = 9]
                     ELSE InitTrailer(f + n, f, [m EXCEPT !.btag = 9]) :
              n \in Ints(f9)}

-----------------------------------------------------------------------------
(* The handler.                                                            *)

\* A fresh fix_message_t: the tags of its iterators are not initialized.
Fresh == [btag : Uninit, etag : Uninit, end : {Null}, type : {"none"},
          valid : {FALSE}]

Limit == buf + len

Init ==
  /\ \E s \in Streams : wire = FlattenSeq([i \in DOMAIN s |-> Cells(s[i])])
  /\ pos = 0
  /\ mem = [i \in 1..2 * BufCells |-> 0]
  /\ buf = 1 /\ len = 0
  /\ ps = [btag |-> 0, etag |-> 0, end |-> Null, type |-> "none", valid |-> FALSE]
  /\ pc = "released"
  /\ pushed = <<>> /\ round = 0
  /\ leaked = {} /\ reads = 0

\* poll() gets one of the two buffers, unless nobody has put it back, read()
\* fills it with what has arrived of the stream, and the handler is called.
Receive ==
  /\ pc \in {"released", "kept"}
  /\ reads < MaxReads
  /\ leaked' = IF pc = "kept" /\ ~Last(pushed).final THEN leaked \cup {buf}
                                                      ELSE leaked
  /\ \E b \in {1, BufCells + 1} \ leaked', n \in 1..BufCells :
       /\ pos + n <= Len(wire)
       /\ buf' = b /\ len' = n
       /\ mem' = [i \in DOMAIN mem |-> IF i \in b..b + n - 1 THEN pos + 1 + i - b
                                                             ELSE mem[i]]
       /\ pos' = pos + n
  /\ ps' \in Fresh
  /\ pushed' = <<>> /\ round' = 0
  /\ pc' = "first"
  /\ reads' = reads + 1
  /\ UNCHANGED wire

\* in_queue.push(); a loss of nothing is final.
Push(start, m) ==
  LET msg == [start |-> start, type |-> m.type, final |-> m.end = Limit]
  IN  pushed' = IF pushed # <<>> /\ Last(pushed).start = start
                THEN pushed ELSE Append(pushed, msg)

\* Slip: the loop goes on at the end of the data.
ContinueAtEnd(m) == IF m.end <= Limit THEN "again" ELSE "kept"

\* Slip: what follows the first message is not looked at.
ContinueNever(m) == "kept"

\* After a push the loop goes on while there is a loss.
Continue(m) == IF m.end < Limit THEN "again" ELSE "kept"

\* A call of init() and what the handler does about its result.
Handle(start, results) ==
  /\ \E m \in results :
       /\ ps' = m
       /\ \/ /\ m = Crash
             /\ pc' = "crashed" /\ UNCHANGED pushed
          \/ /\ m # Crash /\ ~m.valid            \* return true
             /\ pc' = "released" /\ UNCHANGED pushed
          \/ /\ m.valid
             /\ Push(start, m) /\ pc' = Continue(m)
  /\ UNCHANGED <<wire, pos, mem, buf, len, leaked, reads>>

\* The first message.
First ==
  /\ pc = "first"
  /\ Handle(buf, InitResults(buf, ps))
  /\ UNCHANGED round

\* Slip: `valid` is cleared before the next message is looked at.
AgainCleared ==
  /\ pc = "again"
  /\ round' = 1 - round
  /\ Handle(ps.end, IF ps.end = Null THEN {Crash}
                    ELSE InitResults(ps.end, [ps EXCEPT !.valid = FALSE]))

\* One iteration of the loop: `valid` keeps the value of the message before.
Again ==
  /\ pc = "again"
  /\ round' = 1 - round
  /\ Handle(ps.end, IF ps.end = Null THEN {Crash} ELSE InitResults(ps.end, ps))

Next == Receive \/ First \/ Again

Spec == Init /\ [][Next]_vars

\* The handler's thread runs.
FairSpec == Spec /\ WF_vars(First) /\ WF_vars(Again)

-----------------------------------------------------------------------------
(* Properties.                                                             *)

TypeOK ==
  /\ pos \in 0..Len(wire) /\ len \in 0..BufCells
  /\ buf \in {1, BufCells + 1}
  /\ mem \in [1..2 * BufCells -> 0..pos]
  /\ ps.end \in 0..2 * BufCells + 1
  /\ pc \in {"first", "again", "released", "kept", "crashed"}
  \* what is pushed begins inside the data that was read
  /\ \A i \in DOMAIN pushed : pushed[i].start \in buf..Limit - 1

Called   == len > 0
Returned == pc \in {"released", "kept", "crashed"} /\ Called

\* The places of the stream that the read holds, and where one is in memory.
ReadPlaces == pos - len + 1..pos
InMem(o)   == buf + o - (pos - len + 1)

\* The messages that begin in this read, as the consumer should get them.
Arrived ==
  {[start |-> InMem(o), type |-> wire[o + 5].val] :
     o \in {o \in ReadPlaces : wire[o] = TagCell(8)}}

Whole == Starts(pos - len + 1) /\ Starts(pos + 1)

\* A read of whole messages is parsed to exactly these messages, in order, the
\* last one and no other final, whatever memory held before.
WholeReadsParsed ==
  Returned /\ Whole =>
    /\ pc = "kept"
    /\ {[start |-> pushed[i].start, type |-> pushed[i].type] :
          i \in DOMAIN pushed} = Arrived
    /\ \A i \in DOMAIN pushed :
         /\ pushed[i].final <=> i = Len(pushed)
         /\ i > 1 => pushed[i - 1].start < pushed[i].start

\* The messages that are complete in this read.
Complete ==
  {[start |-> InMem(o), type |-> wire[o + 5].val] :
     o \in {o \in ReadPlaces : /\ wire[o] = TagCell(8)
                              /\ \E e \in o + 1..pos + 1 : Starts(e)}}

\* Between whichever cells the last message of a read is cut, and whatever an
\* earlier read left behind it, the complete ones before it are parsed as they were sent.
CompleteComeFirst ==
  Returned /\ Starts(pos - len + 1) =>
    /\ Len(pushed) >= Cardinality(Complete)
    /\ {[start |-> pushed[i].start, type |-> pushed[i].type] :
          i \in 1..Cardinality(Complete)} = Complete

\* Who has the buffer, and what waits of it for the consumer.
Stage == CASE pc = "released" -> "poll"
           [] pc = "kept" -> "consumer"
           [] OTHER -> "handler"

Queued == IF pushed = <<>> THEN "nothing"
          ELSE IF Last(pushed).final THEN "final" ELSE "some"

\* The handler keeps the contract that poll() and the consumer rely on.
Life == INSTANCE ParseLife WITH stage <- Stage, queued <- Queued

ContractKept == Life!Spec

\* A message that does not parse behind others is reported and ends the call.
CallsReturn == pc = "first" ~> pc \in {"released", "kept"}
=============================================================================
