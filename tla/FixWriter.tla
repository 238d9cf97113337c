----------------------------- MODULE FixWriter -----------------------------
(***************************************************************************)
(* fix_writer of include/fix_parse.h as the create_ functions of           *)
(* include/lmax.h use it, and the parser of include/fix_parse.h on what    *)
(* they have written.                                                      *)
(*                                                                         *)
(* Bytes are signed.  A stretch of text is its length and the sum of its   *)
(* bytes, with the number it denotes: BodyLength and CheckSum depend on    *)
(* nothing else.                                                           *)
(***************************************************************************)
EXTENDS Integers, Sequences, SequencesExt, Conversions

CONSTANTS
  IdLens,       \* lengths of fix_ver, target_id and sender_id
  IdChars,      \* bytes they are made of
  SeqNums,      \* sequence numbers
  buffer_size,  \* the buffer's length
  SafeLen       \* ids up to this length fit

ASSUME WriterAssumption ==
  /\ IdLens \cup SeqNums \cup {buffer_size, SafeLen} \subseteq Nat
  /\ IdChars \subseteq -128..127 \ {0, 1}

VARIABLES
  order,   \* the message to write: its type, ids and sequence number
  todo,    \* the fields that are still to be pushed
  out,     \* the fields written, from m_begin to m_cur
  cur,     \* m_cur - m_begin
  body,    \* m_body_len, as the number of fields in front of it
  done     \* the trailer was pushed

vars == <<order, todo, out, cur, body, done>>

-----------------------------------------------------------------------------
(* Text.                                                                   *)

Total(ns) ==
  LET sum[i \in 0..Len(ns)] == IF i = 0 THEN 0 ELSE sum[i - 1] + ns[i]
  IN  sum[Len(ns)]

Text(chars, n) == [len |-> Len(chars), sum |-> Total(chars), num |-> n]

Number(n) == Text(Decimal(n), n)
Char(c)   == Text(<<c>>, c)
Id(n, c)  == [len |-> n, sum |-> n * c, num |-> 0]

\* {:03}: zeros behind the sign, three characters at least.
ThreeDigits(n) ==
  LET d == Decimal(n)
      k == IF n < 0 THEN 1 ELSE 0
  IN  Text(SubSeq(d, 1, k) \o [i \in 1..3 - Len(d) |-> 48] \o SubSeq(d, k + 1, Len(d)), n)

\* Slip: nine digits of the fraction, although it was cut to milliseconds.
StampNanos == Text([i \in 1..23 |-> 48] \o <<45, 58, 58, 46>>, 0)

\* YYYYMMDD-HH:MM:SS.mmm: 17 digits, which are taken to be zeros.
Stamp == Text([i \in 1..17 |-> 48] \o <<45, 58, 58, 46>>, 0)

\* "{}={}\001"
Field(tag, val) ==
  [tag |-> tag, val |-> val, len |-> Number(tag).len + val.len + 2,
   sum |-> Number(tag).sum + 61 + val.sum + 1]

Size(fields)   == Total([i \in DOMAIN fields |-> fields[i].len])
SumOf(fields)  == Total([i \in DOMAIN fields |-> fields[i].sum])

-----------------------------------------------------------------------------
(* The messages of the broker.                                             *)

Logon         == 65    \* 'A'
Heartbeat     == 48    \* '0'
MarketRequest == 86    \* 'V'

Orders == [type : {Logon, Heartbeat, MarketRequest}, ver : IdLens,
           target : IdLens, sender : IdLens, char : IdChars, seq : SeqNums]

Opening(o) ==
  << Field(8, Id(o.ver, o.char)), Field(35, Char(o.type)),
     Field(56, Id(o.target, o.char)), Field(49, Id(o.sender, o.char)),
     Field(52, Stamp), Field(34, Number(o.seq)) >>

Instrument(id) == <<Field(48, Number(id)), Field(22, Number(8))>>

\* What create_logon and create_market_request push behind that.
LogonFields(o) ==
  << Field(141, Char(89)), Field(98, Number(0)), Field(108, Number(30)),
     Field(553, Id(o.sender, o.char)), Field(554, Id(o.sender, o.char)) >>

MarketFields ==
  << Field(262, Text(<<84, 69, 83, 84>>, 0)), Field(263, Number(1)),
     Field(264, Number(0)), Field(267, Number(2)), Field(269, Number(0)),
     Field(269, Number(1)), Field(146, Number(4)) >>
  \o Instrument(5002) \o Instrument(5003) \o Instrument(5004) \o Instrument(5005)

Pushes(o) ==
  Opening(o) \o
  CASE o.type = Heartbeat -> << >>
    [] o.type = Logon -> LogonFields(o)
    [] o.type = MarketRequest -> MarketFields

-----------------------------------------------------------------------------
(* fix_writer.                                                             *)

Init ==
  /\ order \in Orders /\ todo = Pushes(order)
  /\ out = <<>> /\ cur = 0 /\ body = 0 /\ done = FALSE

\* Slip: each field is taken for the header.
PushFieldMovesBody ==
  /\ todo # <<>>
  /\ LET f == Head(todo) IN
       /\ out' = Append(out, f)
       /\ cur' = cur + f.len
       /\ body' = Len(out')
  /\ todo' = Tail(todo)
  /\ UNCHANGED <<order, done>>

\* push_header, push_field, push_timestamp
PushField ==
  /\ todo # <<>>
  /\ LET f == Head(todo) IN
       /\ out' = Append(out, f)
       /\ cur' = cur + f.len
       /\ body' = IF f.tag = 8 THEN Len(out') ELSE body
  /\ todo' = Tail(todo)
  /\ UNCHANGED <<order, done>>

\* Slip: one digit too few for 10, 100 and 1000.
DigitsRoundedUp(n) == CHOOSE k \in 1..n : Power(10)[k - 1] < n /\ n <= Power(10)[k]

\* log10( n ) + 1 as an int: how many digits n has.  The double that log10 returns
\* is exact enough for that as long as n is below 10^15, as a body's length is.
NumDigits(n) == CHOOSE k \in 1..n : Power(10)[k - 1] <= n /\ n < Power(10)[k]

\* The body is moved by str_len and "9=..." is written in front of it.  A gap of
\* another size would spoil what follows.
Insert9(n, str_len) ==
  LET f == Field(9, Number(n))
  IN  InsertAt(out, body + 1,
               IF f.len = str_len THEN f ELSE [f EXCEPT !.tag = 0, !.len = str_len])

\* Slip: the sum is taken before BodyLength is there.
PushTrailerSumsEarly ==
  /\ todo = <<>> /\ ~done
  /\ LET n       == Size(SubSeq(out, body + 1, Len(out)))
         str_len == NumDigits(n) + 3
         trailer == Field(10, ThreeDigits(Rem(SumOf(out), 256)))
     IN  /\ out' = Append(Insert9(n, str_len), trailer)
         /\ cur' = cur + str_len + trailer.len
  /\ done' = TRUE
  /\ UNCHANGED <<order, todo, body>>

\* Slip: the length is that of all that was written.
PushTrailerCountsAll ==
  /\ todo = <<>> /\ ~done
  /\ LET n       == Size(out)
         str_len == NumDigits(n) + 3
         shifted == Insert9(n, str_len)
         trailer == Field(10, ThreeDigits(Rem(SumOf(shifted), 256)))
     IN  /\ out' = Append(shifted, trailer)
         /\ cur' = cur + str_len + trailer.len
  /\ done' = TRUE
  /\ UNCHANGED <<order, todo, body>>

PushTrailer ==
  /\ todo = <<>> /\ ~done
  /\ LET n       == Size(SubSeq(out, body + 1, Len(out)))
         str_len == NumDigits(n) + 3
         shifted == Insert9(n, str_len)
         trailer == Field(10, ThreeDigits(Rem(SumOf(shifted), 256)))
     IN  /\ out' = Append(shifted, trailer)
         /\ cur' = cur + str_len + trailer.len
  /\ done' = TRUE
  /\ UNCHANGED <<order, todo, body>>

Next == PushField \/ PushTrailer

Spec == Init /\ [][Next]_vars

-----------------------------------------------------------------------------
(* fix_message_t::init() on the result.                                    *)

Offset(i) == Size(SubSeq(out, 1, i - 1))

\* The field that begins at an offset, if one does.
At(o) == {out[i] : i \in {i \in DOMAIN out : Offset(i) = o}}

Tag(f) == atoi(Decimal(f.tag))

\* The trailer is looked for b_len bytes behind the end of the second field.
\* checksum is a uint8_t.
Parsed ==
  {[type |-> out[3].val.num, checksum |-> trailer.val.num % 256] :
     trailer \in {f \in At(Offset(3) + out[2].val.num) :
                    /\ <<Tag(out[1]), Tag(out[2]), Tag(out[3])>> = <<8, 9, 35>>
                    /\ out[2].val.num # 0 /\ Tag(f) = 10}}

-----------------------------------------------------------------------------
(* Properties.                                                             *)

TypeOK ==
  /\ order \in Orders
  /\ IsSuffix(todo, Pushes(order))
  /\ cur = Size(out)
  /\ body \in 0..1 /\ (body = 0 => out = <<>>)
  /\ done \in BOOLEAN

Before10 == SubSeq(out, 1, Len(out) - 1)

\* BodyLength counts the bytes from behind it to the trailer, at 99, 100, 999 and
\* 1000 too, where its own digits change and with them how far the body moves.
BodyLengthCounts ==
  done => /\ out[2].tag = 9
          /\ out[2].val.num = Size(SubSeq(out, 3, Len(out) - 1))

\* CheckSum is the sum of the unsigned bytes in front of it, modulo 256 and in
\* three characters, if their sum as signed bytes is not negative: bytes above
\* 127 are taken for negative numbers, and so is the remainder.
CheckSumAgrees ==
  done /\ SumOf(Before10) >= 0 =>
    Last(out) = Field(10, ThreeDigits(SumOf(Before10) % 256))

\* The client's own parser takes what the writer wrote, whatever the ids are,
\* and finds the type and the sum of the unsigned bytes, even if the checksum
\* was written as a negative number.
ParsesBack ==
  done => Parsed = {[type |-> order.type, checksum |-> SumOf(Before10) % 256]}

\* Nothing looks at m_len.  Ids up to SafeLen keep each message inside the
\* buffer, for every sequence number.
FitsBuffer ==
  (\A n \in {order.ver, order.target, order.sender} : n <= SafeLen)
    => cur <= buffer_size
=============================================================================
