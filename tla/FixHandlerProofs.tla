--------------------------- MODULE FixHandlerProofs ---------------------------
(***************************************************************************)
(* Theorems about FixHandler for all messages, every size of the buffers,  *)
(* every stream and every place between two cells where it is cut.         *)
(***************************************************************************)
EXTENDS FixHandler, QueueLemmas

(***************************************************************************)
(* The invariant: what memory holds, and where the handler is in it.       *)
(***************************************************************************)

Vals  == Nat \cup {k.type : k \in Kinds}
Types == Vals \cup {"none", "other", "crash"}

\* The value of BodyLength is a number.
WireCell ==
  {c \in [kind : {"tag", "val"}, tag : Nat, val : Vals] :
     c.kind = "val" /\ c.tag = 9 => c.val \in Nat}

PsType == [btag : Nat, etag : Nat, end : 0..2 * BufCells + 1, type : Types,
           valid : BOOLEAN]

PushType == [start : Nat, type : Types, final : BOOLEAN]

Memory ==
  /\ wire \in Seq(WireCell) /\ pos \in 0..Len(wire)
  /\ len \in 0..BufCells /\ buf \in {1, BufCells + 1}
  /\ mem \in [1..2 * BufCells -> 0..pos]
  /\ ps \in PsType

\* The loop goes on behind a message that was pushed and is not final, with
\* `valid` set, further back in the data or at no place at all.
Handling ==
  /\ pc \in {"first", "again", "released", "kept", "crashed"}
  /\ pushed \in Seq(PushType)
  /\ \A i \in DOMAIN pushed : pushed[i].start \in buf..Limit - 1
  /\ pc = "first" => pushed = <<>> /\ len # 0 /\ ps.end = Null
  /\ pc = "again" =>
       /\ ps.valid /\ pushed # <<>> /\ ~Last(pushed).final
       /\ ps.end = Null \/ ps.end \in buf..Limit - 1
  /\ pc = "released" => pushed = <<>>

HandlerInv == Memory /\ Handling

(***************************************************************************)
(* The stream.                                                             *)
(***************************************************************************)

\* The constants are numbers.
LEMMA Sizes ==
  /\ BufCells \in Nat /\ MaxMsgs \in Nat /\ MaxReads \in Nat
  /\ Uninit \subseteq Nat
  /\ \A k \in Kinds : k.fields \in Nat \ {0}
BY HandlerAssumption DEF HandlerAssumption

\* A field is two cells of the stream.
LEMMA FieldType ==
  ASSUME NEW t \in Nat, NEW v \in Vals, t = 9 => v \in Nat
  PROVE  Field(t, v) \in Seq(WireCell)
<1>1. TagCell(t) \in WireCell
  BY DEF TagCell, WireCell, Vals
<1>2. ValCell(t, v) \in WireCell
  BY DEF ValCell, WireCell
<1>. QED
  BY <1>1, <1>2 DEF Field

\* A message is a sequence of cells.
LEMMA CellsType ==
  ASSUME NEW k \in Kinds
  PROVE  Cells(k) \in Seq(WireCell)
<1>. DEFINE more == [i \in 1..k.fields - 1 |-> Field(49, 0)]
<1>1. k.fields \in Nat \ {0} /\ 2 * k.fields \in Nat /\ k.type \in Vals /\ 0 \in Vals
  BY Sizes DEF Vals
<1>2. /\ Field(8, 0) \in Seq(WireCell) /\ Field(9, 2 * k.fields) \in Seq(WireCell)
      /\ Field(35, k.type) \in Seq(WireCell) /\ Field(10, 0) \in Seq(WireCell)
      /\ Field(49, 0) \in Seq(WireCell)
  <2>1. 2 * k.fields \in Vals
    BY <1>1 DEF Vals
  <2>2. \A t \in Nat, v \in Vals : (t = 9 => v \in Nat) => Field(t, v) \in Seq(WireCell)
    BY FieldType
  <2>3. /\ Field(8, 0) \in Seq(WireCell) /\ Field(35, k.type) \in Seq(WireCell)
        /\ Field(10, 0) \in Seq(WireCell) /\ Field(49, 0) \in Seq(WireCell)
    <3>1. {8, 35, 10, 49} \subseteq Nat \ {9}
      OBVIOUS
    <3>2. \A t \in {8, 35, 10, 49}, v \in Vals : Field(t, v) \in Seq(WireCell)
      BY <2>2, <3>1, Zenon
    <3>. QED
      BY <1>1, <3>2, Zenon
  <2>4. Field(9, 2 * k.fields) \in Seq(WireCell)
    BY <1>1, <2>1, <2>2
  <2>. QED
    BY <2>3, <2>4
<1>3. FlattenSeq(more) \in Seq(WireCell)
  <2>1. PICK n \in Nat : n = k.fields - 1
    BY <1>1
  <2>2. more \in Seq(Seq(WireCell))
    <3>1. [i \in 1..n |-> Field(49, 0)] \in Seq(Seq(WireCell))
      BY <1>2
    <3>. QED
      BY <2>1, <3>1
  <2>. QED
    BY <2>2, Flattened
<1>4. \A a, b \in Seq(WireCell) : a \o b \in Seq(WireCell)
  BY ConcatProperties
<1>. HIDE DEF more
<1>5. Field(8, 0) \o Field(9, 2 * k.fields) \o Field(35, k.type)
        \o FlattenSeq(more) \o Field(10, 0) \in Seq(WireCell)
  BY <1>2, <1>3, <1>4, Zenon
<1>. QED
  BY <1>5 DEF Cells, more

\* What the server sends are cells.
LEMMA StreamType ==
  ASSUME NEW s \in Streams
  PROVE  FlattenSeq([i \in DOMAIN s |-> Cells(s[i])]) \in Seq(WireCell)
<1>1. PICK n \in 1..MaxMsgs : s \in [1..n -> Kinds]
  BY DEF Streams
<1>2. n \in Nat /\ DOMAIN s = 1..n
  BY <1>1, Sizes
<1>3. \A i \in 1..n : Cells(s[i]) \in Seq(WireCell)
  BY <1>1, CellsType
<1>4. [i \in DOMAIN s |-> Cells(s[i])] \in Seq(Seq(WireCell))
  BY <1>2, <1>3
<1>. QED
  BY <1>4, Flattened

(***************************************************************************)
(* The field iterator.                                                     *)
(***************************************************************************)

\* A cell that is not zero is in memory and holds a cell of the stream.
LEMMA CellType ==
  ASSUME Memory, NEW p
  PROVE  /\ Len(mem) = 2 * BufCells /\ DOMAIN mem = 1..2 * BufCells
         /\ Cell(p) \in WireCell \cup {Nul}
         /\ Cell(p).kind # "nul" => p \in 1..2 * BufCells /\ Cell(p) \in WireCell
<1>1. Len(mem) = 2 * BufCells /\ DOMAIN mem = 1..2 * BufCells
  BY Sizes DEF Memory
<1>2. CASE p \in DOMAIN mem /\ mem[p] # 0
  <2>1. mem[p] \in 1..Len(wire)
    <3>1. mem[p] \in 0..pos /\ pos \in 0..Len(wire) /\ Len(wire) \in Nat
      BY <1>1, <1>2 DEF Memory
    <3>. QED
      BY <1>2, <3>1
  <2>2. Cell(p) = wire[mem[p]]
    BY <1>2 DEF Cell
  <2>3. wire[mem[p]] \in WireCell
    BY <2>1 DEF Memory
  <2>. QED
    BY <1>1, <1>2, <2>2, <2>3
<1>3. CASE ~(p \in DOMAIN mem /\ mem[p] # 0)
  <2>1. Cell(p) = Nul
    BY <1>3, Zenon DEF Cell
  <2>. QED
    BY <1>1, <2>1 DEF Nul
<1>. QED
  BY <1>2, <1>3

\* The scan for a delimiter stops, behind where it began.
LEMMA StopAt ==
  ASSUME Memory, NEW p, Cell(p).kind = "tag"
  PROVE  /\ p \in 1..2 * BufCells
         /\ Stop(p) \in p + 1..2 * BufCells + 1
         /\ Cell(Stop(p)).kind = "val" => Stop(p) \in p + 1..2 * BufCells
<1>. DEFINE n == 2 * BufCells
            S == {e \in p..n + 1 : Cell(e).kind # "tag"}
<1>1. p \in 1..n /\ n \in Nat /\ Len(mem) = n
  BY CellType, Sizes
<1>2. n + 1 \in S
  <2>1. Cell(n + 1).kind # "tag"
    BY <1>1, CellType
  <2>. QED
    BY <1>1, <2>1
<1>3. S \subseteq Nat
  BY <1>1
<1>4. Min(S) \in S /\ \A y \in S : Min(S) <= y
  <2>. HIDE DEF S
  <2>. QED
    BY <1>2, <1>3, HasMin
<1>. DEFINE Is(e) == Cell(e).kind # "tag" /\ \A i \in p..e - 1 : Cell(i).kind = "tag"
<1>5. \E e \in p..n + 1 : Is(e)
  <2>1. ASSUME NEW i \in p..Min(S) - 1 PROVE Cell(i).kind = "tag"
    <3>1. Min(S) \in p..n + 1
      BY <1>4
    <3>2. i \in p..n + 1 /\ ~(Min(S) <= i)
      <4>. HIDE DEF S
      <4>. QED
        BY <1>1, <3>1
    <3>3. i \notin S
      BY <1>4, <3>2, Zenon
    <3>. QED
      BY <3>2, <3>3
  <2>. QED
    BY <1>4, <2>1
<1>6. Stop(p) = CHOOSE e \in p..n + 1 : Is(e)
  BY <1>1, Zenon DEF Stop
<1>7. Stop(p) \in p..n + 1 /\ Is(Stop(p))
  <2>. HIDE DEF Is
  <2>. QED
    BY <1>5, <1>6
<1>8. Stop(p) # p
  BY <1>7
<1>9. Cell(Stop(p)).kind = "val" => Stop(p) \in 1..n
  BY CellType
<1>. QED
  BY <1>1, <1>7, <1>8, <1>9

\* next() goes forward, or nowhere.
LEMMA NextGoesOn ==
  ASSUME Memory, NEW p
  PROVE  /\ \/ BeginAfter(p) = Null
            \/ p \in Nat /\ BeginAfter(p) \in Nat /\ p < BeginAfter(p)
         /\ BeginAfter(p) \in 0..2 * BufCells + 1
         /\ \A old \in Nat : TagAfter(p, old) \in Nat
<1>1. CASE Parses(p)
  <2>1. Cell(p).kind = "tag" /\ Cell(Stop(p)).kind = "val"
    BY <1>1 DEF Parses
  <2>2. p \in 1..2 * BufCells /\ Stop(p) \in p + 1..2 * BufCells /\ 2 * BufCells \in Nat
    BY <2>1, StopAt, Sizes
  <2>3. BeginAfter(p) = Stop(p) + 1
    BY <1>1 DEF BeginAfter
  <2>4. Cell(p).tag \in Nat
    BY <2>1, CellType DEF WireCell
  <2>5. \A old \in Nat : TagAfter(p, old) \in Nat
    BY <1>1, <2>4 DEF TagAfter
  <2>. QED
    BY <2>2, <2>3, <2>5
<1>2. CASE ~Parses(p)
  BY <1>2, Sizes DEF BeginAfter, TagAfter, Null
<1>. QED
  BY <1>1, <1>2

(***************************************************************************)
(* init()                                                                  *)
(***************************************************************************)

\* A message that was looked at keeps `valid`, unless it ends the process, and
\* ends where it did, behind where it began, or at no place.
After(p, m, r) ==
  /\ r \in PsType
  /\ r = Crash
     \/ /\ m.valid => r.valid
        /\ r.end \in {m.end, Null} \/ p < r.end

\* Looking for the trailer leaves one of four messages, or a crash.
LEMMA TrailerResult ==
  ASSUME Memory, NEW p \in Nat, NEW e \in Nat, p < e, NEW f, NEW m \in PsType
  PROVE  After(p, m, InitTrailer(e, f, m))
<1>. DEFINE etag == TagAfter(e, m.etag)
            m10  == [m EXCEPT !.etag = etag, !.end = BeginAfter(e)]
            b35  == TagAfter(f, m.btag)
            r3   == [m10 EXCEPT !.btag = b35]
            r4   == [m10 EXCEPT !.btag = TagAfter(BeginAfter(f), 35),
                                !.type = Char(f), !.valid = TRUE]
<1>1. Crash \in PsType
  BY Sizes DEF Crash, PsType, Types, Null
<1>2. /\ etag \in Nat /\ b35 \in Nat /\ TagAfter(BeginAfter(f), 35) \in Nat
      /\ BeginAfter(e) \in 0..2 * BufCells + 1
      /\ BeginAfter(e) = Null \/ (BeginAfter(e) \in Nat /\ e < BeginAfter(e))
  <2>1. m.etag \in Nat /\ m.btag \in Nat
    BY DEF PsType
  <2>. QED
    BY <2>1, NextGoesOn
<1>3. Char(f) \in Types
  <2>1. Cell(f + 1).kind = "val" => Cell(f + 1).val \in Vals
    BY CellType DEF WireCell
  <2>. QED
    BY <2>1 DEF Char, Types
<1>4. BeginAfter(e) \in {m.end, Null} \/ p < BeginAfter(e)
  BY <1>2
<1>. HIDE DEF etag, b35
<1>5. After(p, m, [m EXCEPT !.etag = etag])
  BY <1>2 DEF After, PsType
<1>6. m10 \in PsType /\ m10.valid = m.valid /\ m10.end = BeginAfter(e)
  BY <1>2 DEF PsType
<1>. HIDE DEF m10
<1>7. r3 \in PsType /\ r3.valid = m10.valid /\ r3.end = m10.end
  BY <1>2, <1>6 DEF PsType
<1>8. r4 \in PsType /\ r4.valid = TRUE /\ r4.end = m10.end
  BY <1>2, <1>3, <1>6 DEF PsType
<1>. HIDE DEF r3, r4
<1>9. After(p, m, r3) /\ After(p, m, r4) /\ After(p, m, Crash)
  BY <1>1, <1>4, <1>6, <1>7, <1>8 DEF After
<1>10. InitTrailer(e, f, m) \in {[m EXCEPT !.etag = etag], Crash, r3, r4}
  BY Zenon DEF InitTrailer, etag, m10, b35, r3, r4
<1>. QED
  BY <1>5, <1>9, <1>10

\* So does every call of init(): iterators go forward or stop.
LEMMA InitResult ==
  ASSUME Memory, NEW p \in Nat, NEW m \in PsType, NEW r \in InitResults(p, m)
  PROVE  After(p, m, r)
<1>. DEFINE b8 == TagAfter(p, m.btag)
            f9 == BeginAfter(p)
            b9 == TagAfter(f9, b8)
            f  == BeginAfter(f9)
            m9 == [m EXCEPT !.btag = 9]
<1>1. Crash \in PsType
  BY Sizes DEF Crash, PsType, Types, Null
<1>2. b8 \in Nat /\ b9 \in Nat /\ (f9 = Null \/ p < f9)
      /\ f9 \in 0..2 * BufCells + 1 /\ f \in 0..2 * BufCells + 1
      /\ (f = Null \/ f9 < f)
  <2>1. m.btag \in Nat
    BY DEF PsType
  <2>. QED
    BY <2>1, NextGoesOn
<1>. HIDE DEF b8, b9, f9, f
<1>3. m9 \in PsType /\ m9.valid = m.valid /\ m9.end = m.end
  BY DEF PsType
<1>4. /\ After(p, m, [m EXCEPT !.btag = b8]) /\ After(p, m, [m EXCEPT !.btag = b9])
      /\ After(p, m, m9) /\ After(p, m, Crash)
  BY <1>1, <1>2 DEF After, PsType
<1>. HIDE DEF m9
<1>5. CASE r \in {[m EXCEPT !.btag = b8], Crash, [m EXCEPT !.btag = b9]}
  BY <1>4, <1>5
<1>6. CASE /\ b8 = 8 /\ f9 # Null /\ b9 = 9
           /\ r \in {IF n = 0 THEN m9 ELSE InitTrailer(f + n, f, m9) : n \in Ints(f9)}
  <2>1. PICK n \in Ints(f9) : r = IF n = 0 THEN m9 ELSE InitTrailer(f + n, f, m9)
    BY <1>6
  <2>2. n \in Nat
    <3>1. Len(mem) \in Nat
      BY CellType, Sizes
    <3>2. Cell(f9 + 1).kind = "val" /\ Cell(f9 + 1).tag = 9 => Cell(f9 + 1).val \in Nat
      BY CellType DEF WireCell
    <3>. QED
      BY <3>1, <3>2 DEF Ints
  <2>3. CASE n = 0
    BY <1>4, <2>1, <2>3
  <2>4. CASE n # 0
    \* The tag has changed from 8 to 9, so the field was there.
    <3>1. Parses(f9)
      BY <1>6 DEF b9, TagAfter
    <3>2. f # Null
      <4>1. Cell(f9).kind = "tag" /\ f = Stop(f9) + 1
        BY <3>1 DEF Parses, f, BeginAfter
      <4>2. Stop(f9) \in Nat
        BY <4>1, StopAt, Sizes
      <4>. QED
        BY <4>1, <4>2 DEF Null
    <3>3. f9 \in Nat /\ f \in Nat
      BY <1>2, Sizes
    <3>4. f + n \in Nat /\ p < f + n
      BY <1>2, <1>6, <2>2, <3>2, <3>3
    <3>5. After(p, m9, InitTrailer(f + n, f, m9))
      BY <1>3, <3>4, TrailerResult
    <3>. QED
      BY <1>3, <2>1, <2>4, <3>5 DEF After
  <2>. QED
    BY <2>3, <2>4
<1>7. \/ r \in {[m EXCEPT !.btag = b8], Crash, [m EXCEPT !.btag = b9]}
      \/ /\ b8 = 8 /\ f9 # Null /\ b9 = 9
         /\ r \in {IF n = 0 THEN m9 ELSE InitTrailer(f + n, f, m9) : n \in Ints(f9)}
  BY Zenon DEF InitResults, b8, b9, f9, f, m9
<1>. QED
  BY <1>5, <1>6, <1>7

(***************************************************************************)
(* The handler.                                                            *)
(***************************************************************************)

\* The read is where the handler looks for messages.
LEMMA Data ==
  ASSUME Memory
  PROVE  /\ buf \in Nat \ {0} /\ len \in Nat /\ Limit \in Nat
         /\ Limit = buf + len /\ Len(wire) \in Nat /\ pos \in Nat
BY Sizes DEF Memory, Limit

\* A push adds one message behind the others.
LEMMA LastPushed ==
  ASSUME NEW e \in PushType, pushed \in Seq(PushType)
  PROVE  /\ Append(pushed, e) \in Seq(PushType) /\ Append(pushed, e) # <<>>
         /\ Last(Append(pushed, e)) = e
         /\ DOMAIN Append(pushed, e) = DOMAIN pushed \cup {Len(pushed) + 1}
         /\ \A i \in DOMAIN pushed : Append(pushed, e)[i] = pushed[i]
         /\ Append(pushed, e)[Len(pushed) + 1] = e
<1>1. PICK n \in Nat : n = Len(pushed) /\ DOMAIN pushed = 1..n
  OBVIOUS
<1>2. /\ Append(pushed, e) \in Seq(PushType) /\ Len(Append(pushed, e)) = n + 1
      /\ DOMAIN Append(pushed, e) = 1..n + 1
      /\ \A i \in 1..n : Append(pushed, e)[i] = pushed[i]
      /\ Append(pushed, e)[n + 1] = e
  BY <1>1, PushBack
<1>3. 1..n + 1 = 1..n \cup {n + 1}
  OBVIOUS
<1>4. Append(pushed, e) # <<>>
  BY <1>2, EmptySeq
<1>. QED
  BY <1>1, <1>2, <1>3, <1>4 DEF Last

\* What a call of init() leaves behind, and what the handler does about it: it
\* ends the process, gives the buffer back if nothing is pushed, or pushes.
Outcome ==
  \/ pc' = "crashed" /\ UNCHANGED pushed
  \/ pc' = "released" /\ pushed = <<>> /\ UNCHANGED pushed
  \/ \E final \in BOOLEAN :
       /\ pc' \in {"again", "kept"} /\ (final => pc' = "kept")
       /\ pushed' # <<>>
       /\ (pushed # <<>> /\ pushed' = pushed) \/ Last(pushed').final = final

\* One round of the handler's loop keeps the invariant.
LEMMA Handles ==
  ASSUME HandlerInv, NEW start \in buf..Limit - 1, NEW R, Handle(start, R),
         \A m \in R : After(start, ps, m),
         ps.end \in {Null, start},
         pushed = <<>> \/ (ps.valid /\ ~Last(pushed).final)
  PROVE  HandlerInv' /\ Outcome
<1>. USE DEF HandlerInv
<1>1. PICK m \in R :
        /\ ps' = m
        /\ \/ /\ m = Crash
              /\ pc' = "crashed" /\ UNCHANGED pushed
           \/ /\ m # Crash /\ ~m.valid
              /\ pc' = "released" /\ UNCHANGED pushed
           \/ /\ m.valid
              /\ Push(start, m) /\ pc' = Continue(m)
  BY DEF Handle
<1>2. UNCHANGED <<wire, pos, mem, buf, len>> /\ Limit' = Limit
  BY DEF Handle, Limit
<1>3. m \in PsType
  BY DEF After
<1>4. Memory'
  BY <1>1, <1>2, <1>3 DEF Memory
<1>5. CASE m = Crash /\ pc' = "crashed" /\ UNCHANGED pushed
  BY <1>2, <1>4, <1>5 DEF Handling, Outcome
<1>6. CASE m # Crash /\ ~m.valid /\ pc' = "released" /\ UNCHANGED pushed
  <2>1. pushed = <<>>
    BY <1>6 DEF After
  <2>. QED
    BY <1>2, <1>4, <1>6, <2>1 DEF Handling, Outcome
<1>7. CASE m.valid /\ Push(start, m) /\ pc' = Continue(m)
  <2>. DEFINE e == [start |-> start, type |-> m.type, final |-> m.end = Limit]
  <2>1. /\ buf \in Nat \ {0} /\ len \in Nat /\ Limit \in Nat /\ Limit = buf + len
        /\ m.end \in Nat
    BY <1>3, Data, Sizes DEF PsType
  <2>2. e \in PushType /\ e.start = start /\ e.final = (m.end = Limit)
    BY <1>3, <2>1 DEF PushType, PsType
  <2>. HIDE DEF e
  <2>3. /\ pc' \in {"again", "kept"} /\ (pc' = "again" => m.end < Limit)
        /\ (m.end = Limit => pc' = "kept")
    BY <1>7, <2>1 DEF Continue
  <2>4. \/ pushed # <<>> /\ pushed' = pushed
        \/ pushed' = Append(pushed, e)
    BY <1>7 DEF Push, e
  <2>5. /\ pushed \in Seq(PushType)
        /\ \A i \in DOMAIN pushed : pushed[i].start \in buf..Limit - 1
    BY DEF Handling
  <2>6. pushed' \in Seq(PushType) /\ pushed' # <<>>
    BY <2>2, <2>4, <2>5, LastPushed
  <2>7. \A i \in DOMAIN pushed' : pushed'[i].start \in buf..Limit - 1
    <3>1. CASE pushed' = pushed
      BY <2>5, <3>1
    <3>2. CASE pushed' = Append(pushed, e)
      BY <2>2, <2>5, <3>2, LastPushed
    <3>. QED
      BY <2>4, <3>1, <3>2
  <2>8. pc' = "again" => ~Last(pushed').final
    <3>1. CASE pushed # <<>> /\ pushed' = pushed
      BY <3>1
    <3>2. CASE pushed' = Append(pushed, e)
      <4>1. Last(pushed').final = (m.end = Limit)
        BY <2>2, <2>5, <3>2, LastPushed
      <4>. QED
        BY <2>1, <2>3, <4>1
    <3>. QED
      BY <2>4, <3>1, <3>2
  <2>9. pc' = "again" => m.end = Null \/ m.end \in buf..Limit - 1
    <3>. SUFFICES ASSUME pc' = "again", m.end # Null PROVE m.end \in buf..Limit - 1
      OBVIOUS
    <3>1. m.end < Limit
      BY <2>3
    <3>2. m # Crash
      BY DEF Crash
    <3>3. m.end = start \/ start < m.end
      BY <3>2 DEF After
    <3>. QED
      BY <2>1, <3>1, <3>3
  <2>10. Handling'
    BY <1>1, <1>2, <1>7, <2>3, <2>6, <2>7, <2>8, <2>9 DEF Handling
  <2>11. Outcome
    <3>1. CASE pushed # <<>> /\ pushed' = pushed
      BY <2>3, <2>6, <3>1 DEF Outcome
    <3>2. CASE pushed' = Append(pushed, e)
      <4>1. Last(pushed').final = (m.end = Limit) /\ (m.end = Limit) \in BOOLEAN
        BY <2>2, <2>5, <3>2, LastPushed
      <4>. QED
        BY <2>3, <2>6, <4>1 DEF Outcome
    <3>. QED
      BY <2>4, <3>1, <3>2
  <2>. QED
    BY <1>4, <2>10, <2>11
<1>. QED
  BY <1>1, <1>5, <1>6, <1>7

\* Nothing is read, nothing is pushed.
LEMMA InitHandler == Init => HandlerInv
<1>. SUFFICES ASSUME Init PROVE HandlerInv
  OBVIOUS
<1>1. PICK s \in Streams : wire = FlattenSeq([i \in DOMAIN s |-> Cells(s[i])])
  BY DEF Init
<1>2. wire \in Seq(WireCell) /\ Len(wire) \in Nat
  BY <1>1, StreamType
<1>3. Memory
  BY <1>2, Sizes DEF Init, Memory, PsType, Types, Null
<1>4. Handling
  BY DEF Init, Handling
<1>. QED
  BY <1>3, <1>4 DEF HandlerInv

\* A read fills a part of one buffer with what comes next in the stream.
LEMMA ReceiveStep == HandlerInv /\ Receive => HandlerInv'
<1>. SUFFICES ASSUME HandlerInv, Receive PROVE HandlerInv'
  OBVIOUS
<1>1. PICK b \in {1, BufCells + 1}, n \in 1..BufCells :
        /\ pos + n <= Len(wire)
        /\ buf' = b /\ len' = n
        /\ mem' = [i \in DOMAIN mem |-> IF i \in b..b + n - 1 THEN pos + 1 + i - b
                                                              ELSE mem[i]]
        /\ pos' = pos + n
  BY DEF Receive
<1>2. /\ Memory /\ BufCells \in Nat /\ Len(wire) \in Nat /\ pos \in Nat
      /\ n \in Nat \ {0} /\ b \in Nat
  BY Sizes, Data DEF HandlerInv
<1>3. mem' \in [1..2 * BufCells -> 0..pos']
  <2>1. DOMAIN mem = 1..2 * BufCells /\ \A i \in 1..2 * BufCells : mem[i] \in 0..pos
    BY <1>2 DEF Memory
  <2>2. ASSUME NEW i \in 1..2 * BufCells PROVE mem'[i] \in 0..pos'
    BY <1>1, <1>2, <2>1
  <2>. QED
    BY <1>1, <2>1, <2>2
<1>4. ps' \in Fresh /\ wire' = wire
  BY DEF Receive
<1>5. ps' \in PsType /\ ps'.end = Null
  <2>1. PICK m \in Fresh : ps' = m
    BY <1>4
  <2>2. /\ m = [btag |-> m.btag, etag |-> m.etag, end |-> Null, type |-> "none",
                valid |-> FALSE]
        /\ m.btag \in Uninit /\ m.etag \in Uninit
    BY DEF Fresh
  <2>3. /\ m.btag \in Nat /\ m.etag \in Nat /\ "none" \in Types /\ FALSE \in BOOLEAN
        /\ Null \in 0..2 * BufCells + 1
    BY <2>2, Sizes DEF Types, Null
  <2>4. m \in PsType /\ m.end = Null
    <3>. DEFINE a == m.btag
                c == m.etag
    <3>1. m = [btag |-> a, etag |-> c, end |-> Null, type |-> "none", valid |-> FALSE]
          /\ a \in Nat /\ c \in Nat
      BY <2>2, <2>3
    <3>. HIDE DEF a, c
    <3>. QED
      BY <2>3, <3>1 DEF PsType
  <2>. QED
    BY <2>1, <2>4
<1>6. Memory'
  BY <1>1, <1>2, <1>3, <1>4, <1>5 DEF Memory
<1>7. pushed' = <<>> /\ pc' = "first"
  BY DEF Receive
<1>8. Handling'
  BY <1>1, <1>2, <1>5, <1>7 DEF Handling
<1>. QED
  BY <1>6, <1>8 DEF HandlerInv

\* The first message begins where the read does.
LEMMA FirstStep == HandlerInv /\ First => HandlerInv' /\ Outcome
<1>. SUFFICES ASSUME HandlerInv, First PROVE HandlerInv' /\ Outcome
  OBVIOUS
<1>1. /\ pc = "first" /\ Handle(buf, InitResults(buf, ps))
      /\ pushed = <<>> /\ len # 0 /\ ps.end = Null /\ Memory
  BY DEF First, HandlerInv, Handling
<1>2. buf \in Nat /\ buf \in buf..Limit - 1
  BY <1>1, Data
<1>3. \A m \in InitResults(buf, ps) : After(buf, ps, m)
  <2>1. ps \in PsType
    BY <1>1 DEF Memory
  <2>. QED
    BY <1>1, <1>2, <2>1, InitResult
<1>. QED
  BY <1>1, <1>2, <1>3, Handles

\* The next one begins behind the one before it.
LEMMA AgainStep == HandlerInv /\ Again => HandlerInv' /\ Outcome
<1>. SUFFICES ASSUME HandlerInv, Again PROVE HandlerInv' /\ Outcome
  OBVIOUS
<1>1. /\ Memory /\ ps.valid /\ pushed # <<>> /\ ~Last(pushed).final
      /\ ps.end = Null \/ ps.end \in buf..Limit - 1
      /\ Handle(ps.end, IF ps.end = Null THEN {Crash} ELSE InitResults(ps.end, ps))
  BY DEF Again, HandlerInv, Handling
<1>2. CASE ps.end = Null
  <2>1. Handle(ps.end, {Crash})
    BY <1>1, <1>2
  <2>2. /\ ps' = Crash /\ pc' = "crashed" /\ UNCHANGED pushed
        /\ UNCHANGED <<wire, pos, mem, buf, len>>
    BY <2>1 DEF Handle, Crash
  <2>3. Crash \in PsType
    BY Sizes DEF Crash, PsType, Types, Null
  <2>4. Memory'
    BY <1>1, <2>2, <2>3 DEF Memory
  <2>5. Handling'
    BY <2>2 DEF HandlerInv, Handling, Limit
  <2>. QED
    BY <2>2, <2>4, <2>5 DEF HandlerInv, Outcome
<1>3. CASE ps.end # Null
  <2>1. ps.end \in buf..Limit - 1 /\ ps.end \in Nat /\ ps \in PsType
    BY <1>1, <1>3, Data DEF Memory
  <2>2. \A m \in InitResults(ps.end, ps) : After(ps.end, ps, m)
    BY <1>1, <2>1, InitResult
  <2>3. Handle(ps.end, InitResults(ps.end, ps))
    BY <1>1, <1>3
  <2>. QED
    BY <1>1, <2>1, <2>2, <2>3, Handles
<1>. QED
  BY <1>2, <1>3

LEMMA HandlerIdle == HandlerInv /\ UNCHANGED vars => HandlerInv'
BY DEF HandlerInv, Memory, Handling, Limit, vars

\* The handler's invariant holds at all times.
LEMMA HandlerAlways == Spec => []HandlerInv
<1>1. HandlerInv /\ [Next]_vars => HandlerInv'
  BY ReceiveStep, FirstStep, AgainStep, HandlerIdle DEF Next
<1>. QED
  BY <1>1, InitHandler, PTL DEF Spec

\* Memory holds only what was read, the handler looks for messages only inside
\* the data of the read, and what it pushes begins there: on every stream,
\* cut between any two cells, with whatever the tags of a fresh fix_message_t hold.
THEOREM HandlerTypeCorrect == Spec => []TypeOK
<1>1. HandlerInv => TypeOK
  BY DEF HandlerInv, Memory, Handling, TypeOK, PsType
<1>. QED
  BY <1>1, HandlerAlways, PTL

(***************************************************************************)
(* The contract with poll() and the consumer.                              *)
(***************************************************************************)

\* Where the handler is, as the contract sees it.
LEMMA Stages ==
  /\ pc = "released" => Stage = "poll"
  /\ pc = "kept" => Stage = "consumer"
  /\ pc \in {"first", "again", "crashed"} => Stage = "handler"
BY DEF Stage

\* What waits for the consumer, as the contract sees it.
LEMMA Waiting ==
  /\ pushed = <<>> => Queued = "nothing"
  /\ pushed # <<>> /\ ~Last(pushed).final => Queued = "some"
  /\ pushed # <<>> => Queued \in {"some", "final"}
  /\ Queued = "final" => pushed # <<>> /\ Last(pushed).final
BY DEF Queued

\* After a call of init() the handler has taken a step of the contract.
LEMMA OutcomeKeeps ==
  ASSUME Outcome, Stage = "handler", Queued \in {"nothing", "some"},
         pushed # <<>> => ~Last(pushed).final
  PROVE  [Life!Next]_<<Stage, Queued>>
<1>1. CASE pc' = "crashed" /\ UNCHANGED pushed
  <2>1. Stage' = "handler" /\ UNCHANGED Queued
    BY <1>1, Stages DEF Stage, Queued
  <2>. QED
    BY <2>1
<1>2. CASE pc' = "released" /\ pushed = <<>> /\ UNCHANGED pushed
  <2>1. Stage' = "poll" /\ Queued = "nothing" /\ UNCHANGED Queued
    BY <1>2 DEF Stage, Queued
  <2>2. Life!Reject
    BY <2>1 DEF Life!Reject
  <2>. QED
    BY <2>2 DEF Life!Next
<1>3. CASE \E final \in BOOLEAN :
             /\ pc' \in {"again", "kept"} /\ (final => pc' = "kept")
             /\ pushed' # <<>>
             /\ (pushed # <<>> /\ pushed' = pushed) \/ Last(pushed').final = final
  <2>1. PICK final \in BOOLEAN :
             /\ pc' \in {"again", "kept"} /\ (final => pc' = "kept")
             /\ pushed' # <<>>
             /\ (pushed # <<>> /\ pushed' = pushed) \/ Last(pushed').final = final
    BY <1>3
  <2>2. Stage' = IF pc' = "kept" THEN "consumer" ELSE "handler"
    BY <2>1 DEF Stage
  <2>3. Queued' = IF Last(pushed').final THEN "final" ELSE "some"
    BY <2>1 DEF Queued
  <2>4. Last(pushed').final => pc' = "kept"
    <3>1. CASE pushed # <<>> /\ pushed' = pushed
      <4>1. ~Last(pushed).final
        BY <3>1
      <4>. QED
        BY <3>1, <4>1
    <3>2. CASE Last(pushed').final = final
      BY <2>1, <3>2
    <3>. QED
      BY <2>1, <3>1, <3>2
  <2>5. /\ Queued' \in {"some", "final"} /\ Stage' \in {"handler", "consumer"}
        /\ (Queued' = "final" => Stage' = "consumer")
    BY <2>2, <2>3, <2>4
  <2>6. Life!Push
    BY <2>5 DEF Life!Push
  <2>. QED
    BY <2>6 DEF Life!Next
<1>. QED
  BY <1>1, <1>2, <1>3 DEF Outcome

\* A buffer that the handler gives back has no message waiting for the consumer,
\* and one it leaves to the consumer has; behind a final message it pushes nothing.
THEOREM HandlerKeepsContract == Spec => ContractKept
<1>1. Init => Life!Init
  <2>1. Init => Stage = "poll" /\ Queued = "nothing"
    BY Stages, Waiting DEF Init
  <2>. QED
    BY <2>1 DEF Life!Init
<1>2. HandlerInv /\ [Next]_vars => [Life!Next]_<<Stage, Queued>>
  <2>. SUFFICES ASSUME HandlerInv, [Next]_vars
                PROVE  [Life!Next]_<<Stage, Queued>>
    OBVIOUS
  <2>1. CASE Receive
    <3>1. Stage \in {"poll", "consumer"}
      BY <2>1, Stages DEF Receive
    <3>2. Stage' = "handler" /\ Queued' = "nothing"
      <4>1. pc' = "first" /\ pushed' = <<>>
        BY <2>1 DEF Receive
      <4>. QED
        BY <4>1 DEF Stage, Queued
    <3>3. Life!Call
      BY <3>1, <3>2 DEF Life!Call
    <3>. QED
      BY <3>3 DEF Life!Next
  <2>2. CASE First
    <3>1. pc = "first" /\ pushed = <<>> /\ Outcome
      BY <2>2, FirstStep DEF First, HandlerInv, Handling
    <3>. QED
      BY <3>1, Stages, Waiting, OutcomeKeeps
  <2>3. CASE Again
    <3>1. pc = "again" /\ pushed # <<>> /\ ~Last(pushed).final /\ Outcome
      BY <2>3, AgainStep DEF Again, HandlerInv, Handling
    <3>. QED
      BY <3>1, Stages, Waiting, OutcomeKeeps
  <2>4. CASE UNCHANGED vars
    BY <2>4 DEF vars, Stage, Queued
  <2>. QED
    BY <2>1, <2>2, <2>3, <2>4 DEF Next
<1>. QED
  BY <1>1, <1>2, HandlerAlways, PTL DEF Spec, ContractKept, Life!Spec

(***************************************************************************)
(* How messages follow each other in the stream.                           *)
(***************************************************************************)

\* Behind a message of kind k that starts at o.
Behind(o, k) == o + 2 * k.fields + 6

\* In the first l cells of w a message of type t starts at place o, none inside of
\* it, and what follows it is another one or nothing.  BodyLength is n.
Placed(w, l, o, n, t) ==
  /\ o + n + 6 <= l + 1
  /\ w[o] = TagCell(8) /\ w[o + 1].kind = "val"
  /\ w[o + 2] = TagCell(9) /\ w[o + 3] = ValCell(9, n)
  /\ w[o + 4] = TagCell(35) /\ w[o + 5] = ValCell(35, t)
  /\ w[o + n + 4] = TagCell(10) /\ w[o + n + 5].kind = "val"
  /\ \A i \in o + 1..o + n + 5 : w[i] # TagCell(8)
  /\ o + n + 6 # l + 1 => w[o + n + 6] = TagCell(8)

MessageAt(w, o, k) == Placed(w, Len(w), o, 2 * k.fields, k.type)

Framed ==
  {w \in Seq(WireCell) :
     /\ w # <<>> /\ w[1] = TagCell(8)
     /\ \A o \in 1..Len(w) :
          w[o] = TagCell(8) => \E k \in Kinds : MessageAt(w, o, k)}

\* The cells of one field.
LEMMA FieldCells ==
  ASSUME NEW t, NEW v
  PROVE  /\ Len(Field(t, v)) = 2
         /\ Field(t, v)[1] = TagCell(t) /\ Field(t, v)[2] = ValCell(t, v)
BY DEF Field

\* A message by itself is framed by its BodyLength.
LEMMA CellsLayout ==
  ASSUME NEW k \in Kinds
  PROVE  Len(Cells(k)) = 2 * k.fields + 6 /\ MessageAt(Cells(k), 1, k)
<1>. DEFINE more == [i \in 1..k.fields - 1 |-> Field(49, 0)]
            C == {TagCell(8), ValCell(8, 0), TagCell(9), ValCell(9, 2 * k.fields),
                  TagCell(35), ValCell(35, k.type), TagCell(49), ValCell(49, 0),
                  TagCell(10), ValCell(10, 0)}
            D == {TagCell(49), ValCell(49, 0)}
            a == Field(8, 0)
            b == Field(9, 2 * k.fields)
            c == Field(35, k.type)
            d == FlattenSeq(more)
            e == Field(10, 0)
            n == 2 * k.fields
<1>1. PICK m \in Nat : m + 1 = k.fields /\ m = k.fields - 1 /\ n = 2 * m + 2
  BY Sizes
<1>2. Len(d) = 2 * m /\ d \in Seq(D)
  <2>1. Field(49, 0) \in Seq(D)
    BY DEF Field
  <2>2. more \in Seq(Seq(D)) /\ Len(more) = m /\ \A i \in 1..m : more[i] = Field(49, 0)
    <3>1. /\ [i \in 1..m |-> Field(49, 0)] \in Seq(Seq(D))
          /\ Len([i \in 1..m |-> Field(49, 0)]) = m
      BY <2>1
    <3>. QED
      BY <1>1, <3>1
  <2>3. \A i \in 1..Len(more) : Len(more[i]) = 2
    <3>1. Len(Field(49, 0)) = 2
      BY FieldCells
    <3>. HIDE DEF more
    <3>. QED
      BY <2>2, <3>1
  <2>. HIDE DEF more, D
  <2>4. Len(d) = 2 * Len(more)
    BY <2>2, <2>3, FlattenedLen
  <2>5. d \in Seq(D)
    BY <2>2, Flattened
  <2>. QED
    BY <2>2, <2>4, <2>5
<1>3. /\ a \in Seq(C) /\ Len(a) = 2 /\ a[1] = TagCell(8) /\ a[2] = ValCell(8, 0)
      /\ b \in Seq(C) /\ Len(b) = 2 /\ b[1] = TagCell(9) /\ b[2] = ValCell(9, n)
      /\ c \in Seq(C) /\ Len(c) = 2 /\ c[1] = TagCell(35) /\ c[2] = ValCell(35, k.type)
      /\ e \in Seq(C) /\ Len(e) = 2 /\ e[1] = TagCell(10) /\ e[2] = ValCell(10, 0)
  <2>1. a \in Seq(C) /\ b \in Seq(C) /\ c \in Seq(C) /\ e \in Seq(C)
    BY DEF Field
  <2>. HIDE DEF C
  <2>2. \A t, v : Len(Field(t, v)) = 2 /\ Field(t, v)[1] = TagCell(t)
                  /\ Field(t, v)[2] = ValCell(t, v)
    BY FieldCells
  <2>. QED
    BY <2>1, <2>2
<1>4. d \in Seq(C) /\ \A i \in 1..2 * m : d[i] \in D
  <2>1. \A i \in 1..2 * m : d[i] \in D
    <3>. HIDE DEF d, D
    <3>. QED
      BY <1>2
  <2>2. Field(49, 0) \in Seq(C)
    BY DEF Field
  <2>3. [i \in 1..m |-> Field(49, 0)] \in Seq(Seq(C))
    BY <2>2
  <2>4. d \in Seq(C)
    <3>1. more \in Seq(Seq(C))
      BY <1>1, <2>3
    <3>. HIDE DEF more, C
    <3>. QED
      BY <3>1, Flattened
  <2>. QED
    BY <2>1, <2>4
<1>5. \A x \in D \cup {ValCell(8, 0), TagCell(9), ValCell(9, n), TagCell(35),
                      ValCell(35, k.type), TagCell(10), ValCell(10, 0)} :
        x # TagCell(8)
  BY DEF TagCell, ValCell
<1>. DEFINE w == a \o b \o c \o d \o e
<1>6. w = Cells(k)
  BY DEF Cells
<1>. HIDE DEF a, b, c, d, e, C, D, more
<1>7. /\ a \o b \in Seq(C) /\ Len(a \o b) = 4
      /\ (a \o b)[1] = a[1] /\ (a \o b)[2] = a[2]
      /\ (a \o b)[3] = b[1] /\ (a \o b)[4] = b[2]
  <2>1. /\ a \o b \in Seq(C) /\ Len(a \o b) = Len(a) + Len(b)
        /\ \A i \in 1..Len(a) + Len(b) :
             (a \o b)[i] = IF i <= Len(a) THEN a[i] ELSE b[i - Len(a)]
    <3>1. a \in Seq(C) /\ b \in Seq(C)
      BY <1>3, Zenon
    <3>. QED
      BY <3>1, ConcatProperties
  <2>2. \A i \in 1..4 : (a \o b)[i] = IF i <= 2 THEN a[i] ELSE b[i - 2]
    BY <1>3, <2>1
  <2>. QED
    BY <1>3, <2>1, <2>2
<1>. DEFINE h == a \o b \o c
<1>8. /\ h \in Seq(C) /\ Len(h) = 6
      /\ h[1] = a[1] /\ h[2] = a[2] /\ h[3] = b[1] /\ h[4] = b[2]
      /\ h[5] = c[1] /\ h[6] = c[2]
  <2>1. h \in Seq(C) /\ Len(h) = Len(a \o b) + 2
        /\ \A i \in 1..Len(a \o b) + 2 :
             h[i] = IF i <= Len(a \o b) THEN (a \o b)[i] ELSE c[i - Len(a \o b)]
    BY <1>3, <1>7, ConcatProperties
  <2>. HIDE DEF h
  <2>2. \A i \in 1..6 : h[i] = IF i <= 4 THEN (a \o b)[i] ELSE c[i - 4]
    BY <1>7, <2>1
  <2>. QED
    BY <1>7, <2>1, <2>2
<1>. HIDE DEF h
<1>. DEFINE g == h \o d
<1>9. g \in Seq(C) /\ Len(g) = 2 * m + 6
      /\ \A i \in 1..2 * m + 6 : g[i] = IF i <= 6 THEN h[i] ELSE d[i - 6]
  <2>1. /\ g \in Seq(C) /\ Len(g) = Len(h) + Len(d)
        /\ \A i \in 1..Len(h) + Len(d) : g[i] = IF i <= Len(h) THEN h[i] ELSE d[i - Len(h)]
    BY <1>4, <1>8, ConcatProperties
  <2>. HIDE DEF g
  <2>. QED
    BY <1>2, <1>8, <2>1
<1>. HIDE DEF g
<1>10. w = g \o e
  BY DEF g, h
<1>. HIDE DEF w
<1>11. w \in Seq(C) /\ Len(w) = 2 * m + 8
      /\ \A i \in 1..2 * m + 8 : w[i] = IF i <= 2 * m + 6 THEN g[i] ELSE e[i - (2 * m + 6)]
  <2>1. /\ w \in Seq(C) /\ Len(w) = Len(g) + Len(e)
        /\ \A i \in 1..Len(g) + Len(e) : w[i] = IF i <= Len(g) THEN g[i] ELSE e[i - Len(g)]
    <3>1. g \in Seq(C) /\ e \in Seq(C)
      BY <1>3, <1>9, Zenon
    <3>2. /\ g \o e \in Seq(C) /\ Len(g \o e) = Len(g) + Len(e)
          /\ \A i \in 1..Len(g) + Len(e) :
               (g \o e)[i] = IF i <= Len(g) THEN g[i] ELSE e[i - Len(g)]
      BY <3>1, ConcatProperties
    <3>. QED
      BY <1>10, <3>2, Zenon
  <2>2. Len(g) = 2 * m + 6 /\ Len(e) = 2 /\ Len(g) + Len(e) = 2 * m + 8
    <3>1. Len(g) = 2 * m + 6 /\ Len(e) = 2
      BY <1>3, <1>9, Zenon
    <3>. QED
      BY <3>1
  <2>. QED
    BY <2>1, <2>2, Zenon
<1>12. /\ w[1] = a[1] /\ w[2] = a[2] /\ w[3] = b[1] /\ w[4] = b[2]
       /\ w[5] = c[1] /\ w[6] = c[2]
       /\ w[2 * m + 7] = e[1] /\ w[2 * m + 8] = e[2]
       /\ \A i \in 7..2 * m + 6 : w[i] = d[i - 6] /\ i - 6 \in 1..2 * m
  BY <1>8, <1>9, <1>11
<1>13. \A i \in 2..2 * m + 8 : w[i] # TagCell(8)
  <2>. SUFFICES ASSUME NEW i \in 2..2 * m + 8 PROVE w[i] # TagCell(8)
    OBVIOUS
  <2>1. CASE i \in 7..2 * m + 6
    BY <1>4, <1>5, <1>12, <2>1
  <2>2. /\ w[2] # TagCell(8) /\ w[3] # TagCell(8) /\ w[4] # TagCell(8)
        /\ w[5] # TagCell(8) /\ w[6] # TagCell(8)
        /\ w[2 * m + 7] # TagCell(8) /\ w[2 * m + 8] # TagCell(8)
    <3>1. /\ w[2] = ValCell(8, 0) /\ w[3] = TagCell(9) /\ w[4] = ValCell(9, n)
          /\ w[5] = TagCell(35) /\ w[6] = ValCell(35, k.type)
          /\ w[2 * m + 7] = TagCell(10) /\ w[2 * m + 8] = ValCell(10, 0)
      BY <1>3, <1>12, Zenon
    <3>. QED
      BY <1>5, <3>1, Zenon
  <2>3. \/ i \in 7..2 * m + 6
        \/ i = 2 \/ i = 3 \/ i = 4 \/ i = 5 \/ i = 6 \/ i = 2 * m + 7 \/ i = 2 * m + 8
    OBVIOUS
  <2>. QED
    BY <2>1, <2>2, <2>3, Zenon
<1>14. /\ 1 + n + 6 = Len(w) + 1 /\ 1 + n + 4 = 2 * m + 7 /\ 1 + n + 5 = 2 * m + 8
  <2>1. m \in Nat /\ n = 2 * m + 2 /\ Len(w) = 2 * m + 8
    BY <1>1, <1>11
  <2>. HIDE DEF n
  <2>. QED
    BY <2>1
<1>15. w[2].kind = "val" /\ w[2 * m + 8].kind = "val"
  BY <1>3, <1>12 DEF ValCell
<1>16. MessageAt(w, 1, k)
  BY <1>3, <1>11, <1>12, <1>13, <1>14, <1>15 DEF MessageAt, Placed
<1>. QED
  BY <1>1, <1>6, <1>11, <1>16

\* Two streams behind each other: the messages of the first stay where they are.
LEMMA MessageStays ==
  ASSUME NEW a \in Framed, NEW b \in Framed, NEW o \in 1..Len(a), NEW k \in Kinds,
         MessageAt(a, o, k)
  PROVE  MessageAt(a \o b, o, k)
<1>. DEFINE w == a \o b
<1>1. a \in Seq(WireCell) /\ b \in Seq(WireCell) /\ b # <<>> /\ b[1] = TagCell(8)
  BY DEF Framed
<1>2. PICK la \in Nat, lb \in Nat : la = Len(a) /\ lb = Len(b) /\ lb # 0
  BY <1>1, EmptySeq
<1>3. PICK n \in Nat : n = 2 * k.fields /\ n >= 2
  BY Sizes
<1>4. /\ Len(w) = la + lb
      /\ \A i \in 1..la : w[i] = a[i]
      /\ w[la + 1] = b[1]
  <2>1. /\ Len(w) = Len(a) + Len(b)
        /\ \A i \in 1..Len(a) + Len(b) : w[i] = IF i <= Len(a) THEN a[i] ELSE b[i - Len(a)]
    BY <1>1, ConcatProperties
  <2>. HIDE DEF w
  <2>. QED
    BY <1>2, <2>1
<1>. HIDE DEF w
<1>5. o \in Nat \ {0} /\ Placed(a, la, o, n, k.type)
  BY <1>2, <1>3 DEF MessageAt
<1>6. o + n + 6 <= la + 1 /\ \A i \in o..o + n + 5 : w[i] = a[i]
  <2>1. o + n + 6 <= la + 1
    BY <1>5 DEF Placed
  <2>. QED
    BY <1>4, <1>5, <2>1
<1>7. /\ w[o] = a[o] /\ w[o + 1] = a[o + 1] /\ w[o + 2] = a[o + 2]
      /\ w[o + 3] = a[o + 3] /\ w[o + 4] = a[o + 4] /\ w[o + 5] = a[o + 5]
      /\ w[o + n + 4] = a[o + n + 4] /\ w[o + n + 5] = a[o + n + 5]
      /\ \A i \in o + 1..o + n + 5 : w[i] = a[i]
  BY <1>5, <1>6
<1>8. w[o + n + 6] = TagCell(8)
  <2>1. CASE o + n + 6 = la + 1
    BY <1>1, <1>4, <1>5, <2>1
  <2>2. CASE o + n + 6 # la + 1
    <3>1. a[o + n + 6] = TagCell(8)
      BY <1>5, <2>2 DEF Placed
    <3>2. o + n + 6 \in 1..la
      BY <1>5, <1>6, <2>2
    <3>. QED
      BY <1>4, <3>1, <3>2
  <2>. QED
    BY <2>1, <2>2
<1>9. Placed(w, la + lb, o, n, k.type)
  <2>1. o + n + 6 <= la + lb + 1
    BY <1>5, <1>6
  <2>2. \A i \in o + 1..o + n + 5 : w[i] # TagCell(8)
    BY <1>5, <1>7 DEF Placed
  <2>. QED
    BY <1>5, <1>7, <1>8, <2>1, <2>2, Zenon DEF Placed
<1>. QED
  BY <1>3, <1>4, <1>9 DEF MessageAt, w

\* Those of the second begin behind the first.
LEMMA MessageMoves ==
  ASSUME NEW a \in Framed, NEW b \in Framed, NEW o \in 1..Len(b), NEW k \in Kinds,
         MessageAt(b, o, k)
  PROVE  MessageAt(a \o b, Len(a) + o, k)
<1>. DEFINE w == a \o b
<1>1. a \in Seq(WireCell) /\ b \in Seq(WireCell)
  BY DEF Framed
<1>2. PICK la \in Nat, lb \in Nat : la = Len(a) /\ lb = Len(b)
  BY <1>1
<1>3. PICK n \in Nat : n = 2 * k.fields /\ n >= 2
  BY Sizes
<1>4. Len(w) = la + lb /\ \A i \in 1..lb : w[la + i] = b[i]
  <2>1. /\ Len(w) = Len(a) + Len(b)
        /\ \A i \in 1..Len(a) + Len(b) : w[i] = IF i <= Len(a) THEN a[i] ELSE b[i - Len(a)]
    BY <1>1, ConcatProperties
  <2>. HIDE DEF w
  <2>2. ASSUME NEW i \in 1..lb PROVE w[la + i] = b[i]
    <3>1. la + i \in 1..Len(a) + Len(b) /\ ~(la + i <= la) /\ (la + i) - la = i
      BY <1>2
    <3>. QED
      BY <1>2, <2>1, <3>1
  <2>. QED
    BY <1>2, <2>1, <2>2
<1>. HIDE DEF w
<1>5. o \in Nat \ {0} /\ Placed(b, lb, o, n, k.type)
  BY <1>2, <1>3 DEF MessageAt
<1>6. o + n + 6 <= lb + 1 /\ \A i \in o..o + n + 5 : w[la + i] = b[i]
  <2>1. o + n + 6 <= lb + 1
    BY <1>5 DEF Placed
  <2>. QED
    BY <1>4, <1>5, <2>1
<1>7. /\ w[la + o] = b[o] /\ w[la + o + 1] = b[o + 1] /\ w[la + o + 2] = b[o + 2]
      /\ w[la + o + 3] = b[o + 3] /\ w[la + o + 4] = b[o + 4]
      /\ w[la + o + 5] = b[o + 5]
      /\ w[la + o + n + 4] = b[o + n + 4] /\ w[la + o + n + 5] = b[o + n + 5]
  <2>. DEFINE I == o..o + n + 5
  <2>1. /\ o \in I /\ o + 1 \in I /\ o + 2 \in I /\ o + 3 \in I /\ o + 4 \in I
        /\ o + 5 \in I /\ o + n + 4 \in I /\ o + n + 5 \in I
    BY <1>5
  <2>2. /\ la + (o + 1) = la + o + 1 /\ la + (o + 2) = la + o + 2
        /\ la + (o + 3) = la + o + 3 /\ la + (o + 4) = la + o + 4
        /\ la + (o + 5) = la + o + 5 /\ la + (o + n + 4) = la + o + n + 4
        /\ la + (o + n + 5) = la + o + n + 5
    BY <1>5
  <2>3. \A i \in I : w[la + i] = b[i]
    BY <1>6
  <2>. HIDE DEF I
  <2>4. /\ w[la + o] = b[o] /\ w[la + (o + 1)] = b[o + 1] /\ w[la + (o + 2)] = b[o + 2]
        /\ w[la + (o + 3)] = b[o + 3] /\ w[la + (o + 4)] = b[o + 4]
        /\ w[la + (o + 5)] = b[o + 5]
        /\ w[la + (o + n + 4)] = b[o + n + 4] /\ w[la + (o + n + 5)] = b[o + n + 5]
    BY <2>1, <2>3, Zenon
  <2>. QED
    BY <2>2, <2>4, Zenon
<1>8. ASSUME NEW i \in la + o + 1..la + o + n + 5 PROVE w[i] # TagCell(8)
  <2>1. PICK j \in o + 1..o + n + 5 : i = la + j
    <3>1. i - la \in o + 1..o + n + 5 /\ i = la + (i - la)
      BY <1>5
    <3>. QED
      BY <3>1
  <2>2. b[j] # TagCell(8)
    BY <1>5 DEF Placed
  <2>3. w[la + j] = b[j]
    <3>1. j \in o..o + n + 5
      BY <1>5
    <3>. QED
      BY <1>6, <3>1, Zenon
  <2>. QED
    BY <2>1, <2>2, <2>3
<1>9. la + o + n + 6 # la + lb + 1 => w[la + o + n + 6] = TagCell(8)
  <2>. SUFFICES ASSUME la + o + n + 6 # la + lb + 1
                PROVE  w[la + o + n + 6] = TagCell(8)
    OBVIOUS
  <2>1. /\ o + n + 6 # lb + 1 /\ o + n + 6 \in 1..lb
        /\ la + (o + n + 6) = la + o + n + 6
    BY <1>5, <1>6
  <2>2. b[o + n + 6] = TagCell(8)
    BY <1>5, <2>1 DEF Placed
  <2>3. w[la + (o + n + 6)] = b[o + n + 6]
    BY <1>4, <2>1, Zenon
  <2>. QED
    BY <2>1, <2>2, <2>3
<1>10. la + o + n + 6 <= la + lb + 1
  BY <1>5, <1>6
<1>11. Placed(w, la + lb, la + o, n, k.type)
  BY <1>5, <1>7, <1>8, <1>9, <1>10 DEF Placed
<1>. QED
  BY <1>2, <1>3, <1>4, <1>11 DEF MessageAt, w

\* Streams of whole messages may follow each other.
LEMMA FramedConcat ==
  ASSUME NEW a \in Framed, NEW b \in Framed
  PROVE  a \o b \in Framed
<1>. DEFINE w == a \o b
<1>1. /\ a \in Seq(WireCell) /\ b \in Seq(WireCell) /\ a # <<>>
      /\ a[1] = TagCell(8)
  BY DEF Framed
<1>2. PICK la \in Nat, lb \in Nat : la = Len(a) /\ lb = Len(b) /\ la # 0
  BY <1>1, EmptySeq
<1>3. /\ w \in Seq(WireCell) /\ Len(w) = la + lb
      /\ \A i \in 1..la + lb : w[i] = IF i <= la THEN a[i] ELSE b[i - la]
  BY <1>1, <1>2, ConcatProperties
<1>. HIDE DEF w
<1>4. w # <<>> /\ w[1] = TagCell(8)
  BY <1>1, <1>2, <1>3, EmptySeq
<1>5. ASSUME NEW o \in 1..Len(w), w[o] = TagCell(8)
      PROVE  \E k \in Kinds : MessageAt(w, o, k)
  <2>1. CASE o <= la
    <3>1. o \in 1..Len(a) /\ a[o] = TagCell(8)
      BY <1>2, <1>3, <1>5, <2>1
    <3>2. PICK k \in Kinds : MessageAt(a, o, k)
      BY <3>1 DEF Framed
    <3>. QED
      BY <3>1, <3>2, MessageStays DEF w
  <2>2. CASE ~(o <= la)
    <3>1. o - la \in 1..Len(b) /\ b[o - la] = TagCell(8) /\ Len(a) + (o - la) = o
      BY <1>2, <1>3, <1>5, <2>2
    <3>2. PICK k \in Kinds : MessageAt(b, o - la, k)
      BY <3>1 DEF Framed
    <3>3. MessageAt(w, Len(a) + (o - la), k)
      BY <3>1, <3>2, MessageMoves DEF w
    <3>. QED
      BY <3>1, <3>3
  <2>. QED
    BY <2>1, <2>2
<1>6. w \in Framed
  BY <1>3, <1>4, <1>5 DEF Framed
<1>. QED
  BY <1>6 DEF w

\* One message is such a stream.
LEMMA FramedCells ==
  ASSUME NEW k \in Kinds
  PROVE  Cells(k) \in Framed
<1>. DEFINE w == Cells(k)
<1>1. PICK n \in Nat : n = 2 * k.fields
  BY Sizes
<1>2. /\ w \in Seq(WireCell) /\ Len(w) = n + 6 /\ MessageAt(w, 1, k)
      /\ Placed(w, n + 6, 1, n, k.type)
  BY <1>1, CellsType, CellsLayout DEF MessageAt
<1>. HIDE DEF w
<1>3. w # <<>> /\ w[1] = TagCell(8)
  BY <1>2, EmptySeq DEF Placed
<1>4. ASSUME NEW o \in 1..Len(w), w[o] = TagCell(8) PROVE o = 1
  <2>1. \A i \in 1 + 1..1 + n + 5 : w[i] # TagCell(8)
    BY <1>2 DEF Placed
  <2>. QED
    BY <1>2, <1>4, <2>1
<1>5. w \in Framed
  BY <1>2, <1>3, <1>4 DEF Framed
<1>. QED
  BY <1>5 DEF w

\* The stream is one message behind the other.
LEMMA FramedStream ==
  ASSUME NEW s \in Streams
  PROVE  FlattenSeq([i \in DOMAIN s |-> Cells(s[i])]) \in Framed
<1>1. PICK n \in 1..MaxMsgs : s \in [1..n -> Kinds]
  BY DEF Streams
<1>2. n \in Nat \ {0} /\ DOMAIN s = 1..n
  BY <1>1, Sizes
<1>. DEFINE c == [i \in DOMAIN s |-> Cells(s[i])]
<1>3. /\ c \in Seq(Seq(WireCell)) /\ Len(c) = n /\ c # <<>>
      /\ \A i \in 1..n : c[i] \in Framed
  <2>1. \A i \in 1..n : Cells(s[i]) \in Seq(WireCell) /\ Cells(s[i]) \in Framed
    BY <1>1, CellsType, FramedCells
  <2>2. c \in Seq(Seq(WireCell)) /\ Len(c) = n /\ \A i \in 1..n : c[i] \in Framed
    BY <1>2, <2>1
  <2>. QED
    BY <1>2, <2>2, EmptySeq
<1>. HIDE DEF c
<1>4. \A f \in Framed, i \in 1..Len(c) : f \o c[i] \in Framed
  BY <1>3, FramedConcat
<1>5. c[1] \in Framed
  BY <1>2, <1>3
<1>6. FlattenSeq(c) \in Framed
  BY <1>3, <1>4, <1>5, FlattenedIn
<1>. QED
  BY <1>6 DEF c

(***************************************************************************)
(* A call of the handler follows the stream.                               *)
(***************************************************************************)

\* The place in the stream where the read begins.
FirstPlace == pos - len + 1

\* The buffer holds the read, in its order.
Filled ==
  /\ buf + len <= 2 * BufCells + 1 /\ len <= pos
  /\ \A i \in 0..len - 1 : mem[buf + i] = FirstPlace + i

\* The messages that start in the read before place d.
Msgs(d) ==
  {[start |-> InMem(o), type |-> wire[o + 5].val] :
     o \in {o \in FirstPlace..d - 1 : wire[o] = TagCell(8)}}

Before(n) ==
  {[start |-> pushed[i].start, type |-> pushed[i].type] : i \in 1..n}

\* Up to place d, where a message starts or the stream ends, the read was parsed
\* to the first n messages that were pushed.
UpTo(d, n) ==
  /\ d \in FirstPlace..pos + 1 /\ Starts(d)
  /\ n \in 0..Len(pushed)
  /\ Before(n) = Msgs(d)
  /\ \A i \in 1..n : /\ pushed[i].start < InMem(d)
                     /\ pushed[i].final <=> (i = n /\ d = pos + 1)
  /\ \A i, j \in 1..n : i < j => pushed[i].start < pushed[j].start

\* The message that starts at d is not complete.
Cut(d) == d <= pos /\ \A e \in d + 1..pos + 1 : ~Starts(e)

\* What is pushed are the messages of the read in their order, as long as they are
\* complete; then the handler is done, or about to look at the next one, or at
\* one that is cut, of which it may make anything.
Progress ==
  len # 0 /\ Starts(FirstPlace) /\ pc # "first" =>
    \E d \in FirstPlace..pos + 1, n \in 0..Len(pushed) :
      /\ UpTo(d, n)
      /\ \/ Cut(d)
         \/ pc = "again" /\ n = Len(pushed) /\ d <= pos /\ ps.end = InMem(d)
         \/ pc = "kept" /\ n = Len(pushed) /\ d = pos + 1

\* What is read of the stream lies in memory where the handler looks for it.
LEMMA InBuffer ==
  ASSUME Memory, Filled, NEW o \in FirstPlace..pos
  PROVE  /\ InMem(o) \in 1..2 * BufCells /\ InMem(o) \in Nat
         /\ InMem(o) \in buf..Limit - 1
         /\ Cell(InMem(o)) = wire[o]
<1>1. /\ buf \in Nat \ {0} /\ len \in Nat /\ pos \in Nat /\ BufCells \in Nat
      /\ Limit = buf + len
  BY Data, Sizes
<1>2. o - FirstPlace \in 0..len - 1 /\ InMem(o) = buf + (o - FirstPlace) /\ o \in Nat \ {0}
  BY <1>1 DEF FirstPlace, InMem, Filled
<1>3. mem[InMem(o)] = o
  <2>1. mem[buf + (o - FirstPlace)] = FirstPlace + (o - FirstPlace)
    BY <1>2 DEF Filled
  <2>2. FirstPlace + (o - FirstPlace) = o
    BY <1>1, <1>2 DEF FirstPlace
  <2>. QED
    BY <1>2, <2>1, <2>2
<1>4. InMem(o) \in 1..2 * BufCells /\ InMem(o) \in buf..Limit - 1
  BY <1>1, <1>2 DEF Filled
<1>5. InMem(o) \in DOMAIN mem
  BY <1>4 DEF Memory
<1>6. Cell(InMem(o)) = wire[mem[InMem(o)]]
  BY <1>2, <1>3, <1>5 DEF Cell
<1>. QED
  BY <1>3, <1>4, <1>6

\* next() on a field that is whole.
LEMMA StepOver ==
  ASSUME Memory, NEW q \in Nat, Cell(q).kind = "tag", Cell(q + 1).kind = "val"
  PROVE  /\ BeginAfter(q) = q + 2
         /\ \A old : TagAfter(q, old) = Cell(q).tag
<1>1. q \in 1..2 * BufCells /\ Len(mem) = 2 * BufCells /\ BufCells \in Nat
  BY CellType, Sizes
<1>2. Stop(q) \in q + 1..2 * BufCells + 1
  BY StopAt
<1>. DEFINE Is(e) == Cell(e).kind # "tag" /\ \A i \in q..e - 1 : Cell(i).kind = "tag"
<1>3. Is(q + 1) /\ q + 1 \in q..Len(mem) + 1
  <2>1. \A i \in q..(q + 1) - 1 : i = q
    OBVIOUS
  <2>. QED
    BY <1>1, <2>1
<1>4. Stop(q) = CHOOSE e \in q..Len(mem) + 1 : Is(e)
  BY Zenon DEF Stop
<1>5. Is(Stop(q))
  <2>. HIDE DEF Is
  <2>. QED
    BY <1>3, <1>4
<1>6. Stop(q) = q + 1
  <2>1. CASE Stop(q) # q + 1
    <3>1. q + 1 \in q..Stop(q) - 1
      BY <1>1, <1>2, <2>1
    <3>2. Cell(q + 1).kind = "tag"
      BY <1>5, <3>1
    <3>. QED
      BY <3>2
  <2>. QED
    BY <2>1
<1>7. Parses(q)
  BY <1>6 DEF Parses
<1>. QED
  BY <1>1, <1>6, <1>7 DEF BeginAfter, TagAfter

\* init() on a message that is complete in memory finds its type and its end,
\* whatever the iterator held.
LEMMA InitFinds ==
  ASSUME Memory, NEW p \in Nat, NEW n \in Nat, n # 0, NEW t,
         Cell(p) = TagCell(8), Cell(p + 1).kind = "val",
         Cell(p + 2) = TagCell(9), Cell(p + 3) = ValCell(9, n),
         Cell(p + 4) = TagCell(35), Cell(p + 5) = ValCell(35, t),
         Cell(p + n + 4) = TagCell(10), Cell(p + n + 5).kind = "val",
         NEW m \in PsType, NEW r \in InitResults(p, m)
  PROVE  r.valid /\ r # Crash /\ r.end = p + n + 6 /\ r.type = t
<1>1. /\ BeginAfter(p) = p + 2 /\ \A old : TagAfter(p, old) = 8
      /\ BeginAfter(p + 2) = p + 4 /\ \A old : TagAfter(p + 2, old) = 9
      /\ BeginAfter(p + 4) = p + 6 /\ \A old : TagAfter(p + 4, old) = 35
      /\ BeginAfter(p + n + 4) = p + n + 6 /\ \A old : TagAfter(p + n + 4, old) = 10
  <2>1. \A q \in Nat : Cell(q).kind = "tag" /\ Cell(q + 1).kind = "val" =>
          BeginAfter(q) = q + 2 /\ \A old : TagAfter(q, old) = Cell(q).tag
    BY StepOver
  <2>2. /\ (p + 2) + 1 = p + 3 /\ (p + 4) + 1 = p + 5 /\ (p + n + 4) + 1 = p + n + 5
        /\ (p + 2) + 2 = p + 4 /\ (p + 4) + 2 = p + 6 /\ (p + n + 4) + 2 = p + n + 6
        /\ p + 2 \in Nat /\ p + 4 \in Nat /\ p + n + 4 \in Nat
    OBVIOUS
  <2>3. /\ Cell(p).kind = "tag" /\ Cell(p).tag = 8
        /\ Cell(p + 2).kind = "tag" /\ Cell(p + 2).tag = 9
        /\ Cell(p + 4).kind = "tag" /\ Cell(p + 4).tag = 35
        /\ Cell(p + n + 4).kind = "tag" /\ Cell(p + n + 4).tag = 10
        /\ Cell(p + 3).kind = "val" /\ Cell(p + 5).kind = "val"
    BY DEF TagCell, ValCell
  <2>4. /\ BeginAfter(p) = p + 2 /\ \A old : TagAfter(p, old) = 8
    BY <2>1, <2>3, Zenon
  <2>5. /\ BeginAfter(p + 2) = p + 4 /\ \A old : TagAfter(p + 2, old) = 9
    BY <2>1, <2>2, <2>3, Zenon
  <2>6. /\ BeginAfter(p + 4) = p + 6 /\ \A old : TagAfter(p + 4, old) = 35
    BY <2>1, <2>2, <2>3, Zenon
  <2>7. /\ BeginAfter(p + n + 4) = p + n + 6 /\ \A old : TagAfter(p + n + 4, old) = 10
    BY <2>1, <2>2, <2>3, Zenon
  <2>. QED
    BY <2>4, <2>5, <2>6, <2>7
<1>2. Ints(p + 2) = {n}
  <2>1. (p + 2) + 1 = p + 3
    OBVIOUS
  <2>2. Cell((p + 2) + 1) = [kind |-> "val", tag |-> 9, val |-> n]
    BY <2>1 DEF ValCell
  <2>. QED
    BY <2>2 DEF Ints
<1>3. Char(p + 4) = t
  <2>1. (p + 4) + 1 = p + 5
    OBVIOUS
  <2>. QED
    BY <2>1 DEF Char, ValCell
<1>4. (p + 4) + n = p + n + 4 /\ p + 2 # Null /\ Cell(p + n + 4).kind = "tag"
  BY DEF Null, TagCell
<1>. DEFINE m9  == [m EXCEPT !.btag = 9]
            m10 == [m9 EXCEPT !.etag = 10, !.end = p + n + 6]
            r4  == [m10 EXCEPT !.btag = TagAfter(p + 6, 35), !.type = t, !.valid = TRUE]
<1>5. r = InitTrailer(p + n + 4, p + 4, m9)
  <2>1. InitResults(p, m) =
          {IF x = 0 THEN m9 ELSE InitTrailer((p + 4) + x, p + 4, m9) : x \in {n}}
    BY <1>1, <1>2, <1>4 DEF InitResults
  <2>2. r = InitTrailer((p + 4) + n, p + 4, m9)
    <3>. HIDE DEF m9
    <3>. QED
      BY <2>1
  <2>. QED
    BY <1>4, <2>2
<1>6. InitTrailer(p + n + 4, p + 4, m9) = r4
  BY <1>1, <1>3, <1>4 DEF InitTrailer
<1>7. m10 \in [btag : Nat, etag : Nat, end : {p + n + 6}, type : Types, valid : BOOLEAN]
  BY DEF PsType
<1>. HIDE DEF m10
<1>8. r4.valid /\ r4.end = p + n + 6 /\ r4.type = t
  BY <1>7
<1>9. ~Crash.valid
  BY DEF Crash
<1>. HIDE DEF r4
<1>. QED
  BY <1>5, <1>6, <1>8, <1>9

\* The same for a message that is complete in the read.
LEMMA CompleteParses ==
  ASSUME Memory, Filled, NEW d \in FirstPlace..pos, NEW k \in Kinds,
         MessageAt(wire, d, k), Behind(d, k) <= pos + 1,
         NEW m \in PsType, NEW r \in InitResults(InMem(d), m)
  PROVE  r.valid /\ r # Crash /\ r.end = InMem(Behind(d, k)) /\ r.type = k.type
<1>1. PICK n \in Nat : n = 2 * k.fields /\ n # 0
  BY Sizes
<1>2. Placed(wire, Len(wire), d, n, k.type)
  BY <1>1 DEF MessageAt
<1>3. /\ buf \in Nat \ {0} /\ len \in Nat /\ pos \in Nat /\ FirstPlace \in Nat /\ d \in Nat
      /\ Behind(d, k) = d + n + 6 /\ d + n + 6 <= pos + 1
  <2>1. buf \in Nat \ {0} /\ len \in Nat /\ pos \in Nat
    BY Data
  <2>2. FirstPlace \in Nat
    BY <2>1 DEF Filled, FirstPlace
  <2>. QED
    BY <1>1, <2>1, <2>2 DEF Behind
<1>. DEFINE p == InMem(d)
            At(j) == Cell(p + j) = wire[d + j]
<1>4. p \in Nat /\ \A j \in 0..n + 5 : At(j)
  <2>1. p \in Nat
    BY InBuffer
  <2>2. ASSUME NEW j \in 0..n + 5 PROVE At(j)
    <3>1. d + j \in FirstPlace..pos /\ InMem(d + j) = p + j
      BY <1>3 DEF InMem
    <3>2. Cell(InMem(d + j)) = wire[d + j]
      BY <3>1, InBuffer
    <3>. QED
      BY <3>1, <3>2
  <2>. QED
    BY <2>1, <2>2
<1>5. /\ Cell(p) = wire[d] /\ Cell(p + 1) = wire[d + 1] /\ Cell(p + 2) = wire[d + 2]
      /\ Cell(p + 3) = wire[d + 3] /\ Cell(p + 4) = wire[d + 4]
      /\ Cell(p + 5) = wire[d + 5] /\ Cell(p + n + 4) = wire[d + n + 4]
      /\ Cell(p + n + 5) = wire[d + n + 5]
  <2>1. At(0) /\ At(1) /\ At(2) /\ At(3) /\ At(4) /\ At(5) /\ At(n + 4) /\ At(n + 5)
    <3>1. \A j \in {0, 1, 2, 3, 4, 5, n + 4, n + 5} : j \in 0..n + 5
      OBVIOUS
    <3>. HIDE DEF At
    <3>. QED
      BY <1>4, <3>1
  <2>2. /\ p + 0 = p /\ d + 0 = d /\ p + (n + 4) = p + n + 4 /\ p + (n + 5) = p + n + 5
        /\ d + (n + 4) = d + n + 4 /\ d + (n + 5) = d + n + 5
    BY <1>3, <1>4
  <2>. HIDE DEF p
  <2>. QED
    BY <2>1, <2>2, Zenon
<1>6. InMem(Behind(d, k)) = p + n + 6
  BY <1>3 DEF InMem
<1>7. r.valid /\ r # Crash /\ r.end = p + n + 6 /\ r.type = k.type
  <2>1. r \in InitResults(p, m)
    OBVIOUS
  <2>. HIDE DEF p
  <2>2. /\ Cell(p) = TagCell(8) /\ Cell(p + 1).kind = "val"
        /\ Cell(p + 2) = TagCell(9) /\ Cell(p + 3) = ValCell(9, n)
        /\ Cell(p + 4) = TagCell(35) /\ Cell(p + 5) = ValCell(35, k.type)
        /\ Cell(p + n + 4) = TagCell(10) /\ Cell(p + n + 5).kind = "val"
    BY <1>2, <1>5, Zenon DEF Placed
  <2>. QED
    BY <1>1, <1>4, <2>1, <2>2, InitFinds
<1>. QED
  BY <1>6, <1>7

\* What does not depend on what is pushed.
LEMMA SamePlaces ==
  ASSUME UNCHANGED <<wire, pos, buf, len>>
  PROVE  /\ FirstPlace' = FirstPlace /\ Limit' = Limit
         /\ \A x : /\ InMem(x)' = InMem(x) /\ (Starts(x)' <=> Starts(x))
                   /\ Msgs(x)' = Msgs(x) /\ (Cut(x)' <=> Cut(x))
<1>1. FirstPlace' = FirstPlace /\ Limit' = Limit
  BY DEF FirstPlace, Limit
<1>2. \A x : InMem(x)' = InMem(x) /\ (Starts(x)' <=> Starts(x))
  BY DEF InMem, Starts
<1>3. \A x : Msgs(x)' = Msgs(x)
  BY <1>1, <1>2 DEF Msgs
<1>4. \A x : Cut(x)' <=> Cut(x)
  BY <1>2 DEF Cut
<1>. QED
  BY <1>1, <1>2, <1>3, <1>4

\* What was pushed stays in front of what is pushed.
LEMMA PushedStays ==
  ASSUME HandlerInv, NEW start \in Nat, NEW R, Handle(start, R),
         \A m \in R : m.type \in Types
  PROVE  /\ UNCHANGED <<wire, pos, mem, buf, len>>
         /\ Len(pushed) \in Nat /\ Len(pushed') \in Nat
         /\ Len(pushed) <= Len(pushed')
         /\ \A i \in 1..Len(pushed) : pushed'[i] = pushed[i]
<1>1. UNCHANGED <<wire, pos, mem, buf, len>>
  BY DEF Handle
<1>2. pushed \in Seq(PushType) /\ Len(pushed) \in Nat
  BY DEF HandlerInv, Handling
<1>3. PICK m \in R : UNCHANGED pushed \/ Push(start, m)
  BY DEF Handle
<1>. DEFINE e == [start |-> start, type |-> m.type, final |-> m.end = Limit]
<1>4. e \in PushType
  BY DEF PushType
<1>5. pushed' = pushed \/ pushed' = Append(pushed, e)
  BY <1>3 DEF Push
<1>. HIDE DEF e
<1>6. CASE pushed' = pushed
  BY <1>1, <1>2, <1>6
<1>7. CASE pushed' = Append(pushed, e)
  <2>1. /\ Len(Append(pushed, e)) = Len(pushed) + 1
        /\ \A i \in 1..Len(pushed) : Append(pushed, e)[i] = pushed[i]
    BY <1>2, <1>4, PushBack
  <2>. QED
    BY <1>1, <1>2, <1>7, <2>1
<1>. QED
  BY <1>5, <1>6, <1>7

\* The handler makes what it likes of a message that is cut; those before it stay.
LEMMA CutStep ==
  ASSUME HandlerInv, NEW start \in Nat, NEW R, Handle(start, R),
         \A m \in R : m.type \in Types,
         NEW d \in FirstPlace..pos + 1, NEW n \in 0..Len(pushed), UpTo(d, n), Cut(d)
  PROVE  Progress'
<1>1. /\ UNCHANGED <<wire, pos, mem, buf, len>>
      /\ Len(pushed) \in Nat /\ Len(pushed') \in Nat /\ Len(pushed) <= Len(pushed')
      /\ \A i \in 1..Len(pushed) : pushed'[i] = pushed[i]
  BY PushedStays
<1>2. /\ FirstPlace' = FirstPlace /\ Limit' = Limit
      /\ \A x : /\ InMem(x)' = InMem(x) /\ (Starts(x)' <=> Starts(x))
                /\ Msgs(x)' = Msgs(x) /\ (Cut(x)' <=> Cut(x))
  BY <1>1, SamePlaces
<1>3. \A i \in 1..n : pushed'[i] = pushed[i]
  BY <1>1
<1>4. Before(n)' = Before(n)
  BY <1>3 DEF Before
<1>5. n \in 0..Len(pushed')
  BY <1>1
<1>6. /\ d \in FirstPlace'..pos' + 1 /\ Starts(d)' /\ n \in 0..Len(pushed')
      /\ Before(n)' = Msgs(d)'
  BY <1>1, <1>2, <1>4, <1>5 DEF UpTo
<1>7. /\ \A i \in 1..n : /\ pushed'[i].start < InMem(d)'
                         /\ pushed'[i].final <=> (i = n /\ d = pos' + 1)
      /\ \A i, j \in 1..n : i < j => pushed'[i].start < pushed'[j].start
  BY <1>1, <1>2, <1>3 DEF UpTo
<1>8. UpTo(d, n)'
  BY <1>6, <1>7 DEF UpTo
<1>. QED
  BY <1>2, <1>6, <1>8 DEF Progress

\* The message that starts at d is parsed as it was sent, or it is cut.
LEMMA ParseStep ==
  ASSUME HandlerInv, wire \in Framed, Filled, len # 0,
         NEW d \in FirstPlace..pos, UpTo(d, Len(pushed)),
         Handle(InMem(d), InitResults(InMem(d), ps))
  PROVE  Progress'
<1>1. /\ buf \in Nat \ {0} /\ len \in Nat \ {0} /\ pos \in Nat /\ Len(wire) \in Nat
      /\ Limit = buf + len /\ FirstPlace \in Nat /\ pos <= Len(wire)
      /\ FirstPlace = pos - len + 1 /\ d \in Nat \ {0}
      /\ Memory /\ ps \in PsType /\ pushed \in Seq(PushType)
  <2>1. Memory /\ ps \in PsType /\ pushed \in Seq(PushType) /\ pos \in 0..Len(wire)
    BY DEF HandlerInv, Handling, Memory
  <2>2. /\ buf \in Nat \ {0} /\ len \in Nat \ {0} /\ pos \in Nat /\ Len(wire) \in Nat
        /\ Limit = buf + len
    BY <2>1, Data
  <2>3. FirstPlace = pos - len + 1 /\ FirstPlace \in Nat \ {0}
    BY <2>2 DEF FirstPlace, Filled
  <2>. QED
    BY <2>1, <2>2, <2>3
<1>2. InMem(d) \in Nat /\ InMem(d) \in buf..Limit - 1
  BY <1>1, InBuffer
<1>3. \A m \in InitResults(InMem(d), ps) : m.type \in Types
  <2>1. \A m \in InitResults(InMem(d), ps) : m \in PsType
    BY <1>1, <1>2, InitResult DEF After
  <2>. QED
    BY <2>1 DEF PsType
<1>4. d \in 1..Len(wire) /\ wire[d] = TagCell(8)
  BY <1>1 DEF UpTo, Starts
<1>5. PICK k \in Kinds : MessageAt(wire, d, k)
  BY <1>4 DEF Framed
<1>6. PICK n \in Nat : n = 2 * k.fields /\ n # 0
  BY Sizes
<1>. DEFINE b == Behind(d, k)
<1>0. PICK N \in Nat : N = Len(pushed)
  BY <1>1
<1>7. /\ b = d + n + 6 /\ Placed(wire, Len(wire), d, n, k.type) /\ N \in Nat
      /\ b <= Len(wire) + 1 /\ (b # Len(wire) + 1 => wire[b] = TagCell(8))
      /\ \A i \in d + 1..b - 1 : wire[i] # TagCell(8)
      /\ wire[d + 5] = ValCell(35, k.type)
  <2>1. b = d + n + 6 /\ Placed(wire, Len(wire), d, n, k.type) /\ N \in Nat
    BY <1>0, <1>1, <1>5, <1>6 DEF Behind, MessageAt
  <2>2. b - 1 = d + n + 5
    BY <1>1, <2>1
  <2>. HIDE DEF b
  <2>. QED
    BY <2>1, <2>2 DEF Placed
<1>. HIDE DEF b
<1>8. CASE pos + 1 < b
  <2>1. ASSUME NEW e \in d + 1..pos + 1 PROVE ~Starts(e)
    <3>1. e \in d + 1..b - 1 /\ e # Len(wire) + 1
      BY <1>1, <1>7, <1>8
    <3>. QED
      BY <1>7, <3>1 DEF Starts
  <2>2. Cut(d)
    BY <1>1, <2>1 DEF Cut
  <2>3. d \in FirstPlace..pos + 1 /\ N \in 0..Len(pushed) /\ UpTo(d, N)
    BY <1>0, <1>1, <1>7
  <2>. QED
    BY <1>2, <1>3, <2>2, <2>3, CutStep
<1>9. CASE b <= pos + 1
  <2>1. PICK m \in InitResults(InMem(d), ps) :
          /\ ps' = m
          /\ \/ /\ m = Crash
                /\ pc' = "crashed" /\ UNCHANGED pushed
             \/ /\ m # Crash /\ ~m.valid
                /\ pc' = "released" /\ UNCHANGED pushed
             \/ /\ m.valid
                /\ Push(InMem(d), m) /\ pc' = Continue(m)
    BY DEF Handle
  <2>2. m.valid /\ m # Crash /\ m.end = InMem(b) /\ m.type = k.type
    BY <1>1, <1>5, <1>9, CompleteParses DEF b
  <2>3. Push(InMem(d), m) /\ pc' = Continue(m) /\ ps'.end = InMem(b)
    BY <2>1, <2>2
  <2>4. InMem(b) = buf + (b - FirstPlace) /\ InMem(d) < InMem(b)
        /\ (InMem(b) < Limit <=> b < pos + 1) /\ (InMem(b) = Limit <=> b = pos + 1)
    <3>1. \A x : InMem(x) = buf + x - FirstPlace
      BY DEF InMem, FirstPlace
    <3>2. PICK f \in Nat, q \in Nat, l \in Nat \ {0} :
            f = FirstPlace /\ q = pos /\ l = len /\ f = q - l + 1
      BY <1>1
    <3>3. InMem(d) = buf + d - f /\ InMem(b) = buf + b - f /\ Limit = buf + l
      BY <1>1, <3>1, <3>2
    <3>4. b = d + n + 6 /\ b <= q + 1 /\ b \in Nat /\ d \in Nat /\ buf \in Nat
      BY <1>1, <1>7, <1>9, <3>2
    <3>5. /\ buf + b - f = buf + (b - f) /\ buf + d - f < buf + b - f
          /\ (buf + b - f < buf + l <=> b < q + 1) /\ (buf + b - f = buf + l <=> b = q + 1)
      BY <3>2, <3>4
    <3>. QED
      BY <3>2, <3>3, <3>5
  <2>. DEFINE e == [start |-> InMem(d), type |-> m.type, final |-> m.end = Limit]
  <2>5. /\ e \in PushType /\ e.start = InMem(d) /\ e.type = k.type
        /\ (e.final <=> b = pos + 1)
    BY <1>2, <1>3, <2>2, <2>4 DEF PushType
  <2>6. ~(pushed # <<>> /\ Last(pushed).start = InMem(d))
    <3>. SUFFICES ASSUME pushed # <<>>, Last(pushed).start = InMem(d) PROVE FALSE
      OBVIOUS
    <3>1. N # 0 /\ N \in 1..N
      BY <1>0, <1>1, EmptySeq
    <3>2. pushed[N].start < InMem(d)
      BY <1>0, <3>1 DEF UpTo
    <3>3. pushed[N].start = InMem(d)
      BY <1>0 DEF Last
    <3>. QED
      BY <1>2, <3>2, <3>3
  <2>7. pushed' = Append(pushed, e)
    BY <2>3, <2>6 DEF Push
  <2>. HIDE DEF e
  <2>8. /\ Len(pushed') = N + 1 /\ pushed'[N + 1] = e
        /\ \A i \in 1..N : pushed'[i] = pushed[i]
    BY <1>0, <1>1, <2>5, <2>7, PushBack
  <2>9. UNCHANGED <<wire, pos, buf, len>>
    BY DEF Handle
  <2>10. /\ FirstPlace' = FirstPlace /\ Limit' = Limit
         /\ \A x : /\ InMem(x)' = InMem(x) /\ (Starts(x)' <=> Starts(x))
                   /\ Msgs(x)' = Msgs(x) /\ (Cut(x)' <=> Cut(x))
    BY <2>9, SamePlaces
  <2>11. b \in FirstPlace..pos + 1 /\ Starts(b) /\ b # d /\ d < b
    <3>1. b \in FirstPlace..pos + 1 /\ b # d /\ d < b
      BY <1>1, <1>7, <1>9
    <3>2. Starts(b)
      BY <1>7, Zenon DEF Starts
    <3>. QED
      BY <3>1, <3>2
  <2>12. Msgs(b) = Msgs(d) \cup {[start |-> InMem(d), type |-> k.type]}
    <3>. DEFINE S(x) == {o \in FirstPlace..x - 1 : wire[o] = TagCell(8)}
    <3>1. S(b) = S(d) \cup {d}
      <4>1. \A o \in FirstPlace..b - 1 : o \in FirstPlace..d - 1 \/ o = d \/ o \in d + 1..b - 1
        BY <1>1, <2>11
      <4>2. \A o \in FirstPlace..d - 1 : o \in FirstPlace..b - 1
        BY <1>1, <2>11
      <4>3. d \in FirstPlace..b - 1
        BY <1>1, <2>11
      <4>. QED
        BY <1>4, <1>7, <4>1, <4>2, <4>3
    <3>2. Msgs(b) = {[start |-> InMem(o), type |-> wire[o + 5].val] : o \in S(b)}
          /\ Msgs(d) = {[start |-> InMem(o), type |-> wire[o + 5].val] : o \in S(d)}
      BY DEF Msgs
    <3>3. wire[d + 5].val = k.type
      BY <1>7 DEF ValCell
    <3>. HIDE DEF S
    <3>. QED
      BY <3>1, <3>2, <3>3
  <2>13. Before(N + 1)' = Before(N) \cup {[start |-> InMem(d), type |-> k.type]}
    <3>1. \A i \in 1..N + 1 : i \in 1..N \/ i = N + 1
      BY <1>7
    <3>2. \A i \in 1..N : i \in 1..N + 1
      BY <1>7
    <3>3. N + 1 \in 1..N + 1
      BY <1>7
    <3>. DEFINE P(i) == [start |-> pushed'[i].start, type |-> pushed'[i].type]
    <3>4. \A i \in 1..N : P(i) = [start |-> pushed[i].start, type |-> pushed[i].type]
      BY <2>8
    <3>5. P(N + 1) = [start |-> InMem(d), type |-> k.type]
      <4>1. pushed'[N + 1].start = InMem(d) /\ pushed'[N + 1].type = k.type
        BY <2>5, <2>8, Zenon
      <4>. QED
        BY <4>1, Zenon
    <3>6. Before(N + 1)' = {P(i) : i \in 1..N + 1}
      BY DEF Before
    <3>7. Before(N) = {P(i) : i \in 1..N}
      BY <3>4 DEF Before
    <3>. HIDE DEF P
    <3>. QED
      BY <3>1, <3>2, <3>3, <3>5, <3>6, <3>7
  <2>14. /\ Before(N) = Msgs(d)
         /\ \A i \in 1..N : pushed[i].start < InMem(d) /\ ~pushed[i].final
         /\ \A i, j \in 1..N : i < j => pushed[i].start < pushed[j].start
    <3>1. UpTo(d, N) /\ d # pos + 1
      BY <1>0, <1>1
    <3>2. Before(N) = Msgs(d) /\ \A i, j \in 1..N : i < j => pushed[i].start < pushed[j].start
      BY <3>1 DEF UpTo
    <3>3. \A i \in 1..N : /\ pushed[i].start < InMem(d)
                          /\ pushed[i].final <=> (i = N /\ d = pos + 1)
      BY <3>1 DEF UpTo
    <3>. QED
      BY <3>1, <3>2, <3>3, Zenon
  <2>15. \A i \in 1..N + 1 : i = N + 1 \/ (i \in 1..N /\ i # N + 1 /\ i < N + 1)
    BY <1>7
  <2>16. \A i \in 1..N : pushed[i].start \in Nat
    <3>1. \A i \in 1..N : pushed[i] \in PushType
      BY <1>0, <1>1
    <3>. QED
      BY <3>1 DEF PushType
  <2>17. \A i \in 1..N + 1 : /\ pushed'[i].start < InMem(b)
                             /\ pushed'[i].final <=> (i = N + 1 /\ b = pos + 1)
    <3>. SUFFICES ASSUME NEW i \in 1..N + 1
                  PROVE  /\ pushed'[i].start < InMem(b)
                         /\ pushed'[i].final <=> (i = N + 1 /\ b = pos + 1)
      OBVIOUS
    <3>1. CASE i = N + 1
      BY <2>4, <2>5, <2>8, <3>1
    <3>2. CASE i \in 1..N /\ i # N + 1
      <4>1. pushed'[i] = pushed[i] /\ ~pushed[i].final
        BY <2>8, <2>14, <3>2
      <4>2. pushed[i].start < InMem(b)
        <5>1. pushed[i].start \in Nat /\ pushed[i].start < InMem(d)
          BY <2>14, <2>16, <3>2
        <5>2. InMem(b) \in Int
          BY <1>1, <2>4, <2>11
        <5>. QED
          BY <1>2, <2>4, <5>1, <5>2
      <4>. QED
        BY <3>2, <4>1, <4>2
    <3>. QED
      BY <2>15, <3>1, <3>2
  <2>18. \A i, j \in 1..N + 1 : i < j => pushed'[i].start < pushed'[j].start
    <3>. SUFFICES ASSUME NEW i \in 1..N + 1, NEW j \in 1..N + 1, i < j
                  PROVE  pushed'[i].start < pushed'[j].start
      OBVIOUS
    <3>1. i \in 1..N
      BY <1>7
    <3>2. pushed'[i] = pushed[i]
      BY <2>8, <3>1
    <3>3. CASE j = N + 1
      BY <2>5, <2>8, <2>14, <3>1, <3>2, <3>3
    <3>4. CASE j \in 1..N
      BY <2>8, <2>14, <3>1, <3>2, <3>4
    <3>. QED
      BY <2>15, <3>3, <3>4
  <2>19. UpTo(b, N + 1)'
    <3>1. b \in FirstPlace'..pos' + 1 /\ Starts(b)' /\ Before(N + 1)' = Msgs(b)'
      BY <2>9, <2>10, <2>11, <2>12, <2>13, <2>14
    <3>2. N + 1 \in 0..Len(pushed')
      BY <1>7, <2>8
    <3>3. \A i \in 1..N + 1 : /\ pushed'[i].start < InMem(b)'
                              /\ pushed'[i].final <=> (i = N + 1 /\ b = pos' + 1)
      <4>1. pos' = pos /\ InMem(b)' = InMem(b)
        BY <2>9, <2>10
      <4>. QED
        BY <2>17, <4>1, Zenon
    <3>. QED
      BY <2>18, <3>1, <3>2, <3>3, Zenon DEF UpTo
  <2>20. \/ pc' = "again" /\ N + 1 = Len(pushed') /\ b <= pos' /\ ps'.end = InMem(b)'
         \/ pc' = "kept" /\ N + 1 = Len(pushed') /\ b = pos' + 1
    <3>1. pc' = IF b < pos + 1 THEN "again" ELSE "kept"
      BY <2>2, <2>3, <2>4 DEF Continue
    <3>2. pos' = pos /\ N + 1 = Len(pushed') /\ ps'.end = InMem(b)'
      BY <2>3, <2>8, <2>9, <2>10
    <3>3. (b <= pos /\ b < pos + 1) \/ (b = pos + 1 /\ ~(b < pos + 1))
      BY <1>1, <2>11
    <3>. QED
      BY <3>1, <3>2, <3>3
  <2>21. b \in FirstPlace'..pos' + 1 /\ N + 1 \in 0..Len(pushed')
    BY <1>7, <2>8, <2>9, <2>10, <2>11
  <2>22. PICK y : y = N + 1
    OBVIOUS
  <2>23. /\ b \in FirstPlace'..pos' + 1 /\ y \in 0..Len(pushed') /\ UpTo(b, y)'
         /\ \/ pc' = "again" /\ y = Len(pushed') /\ b <= pos' /\ ps'.end = InMem(b)'
            \/ pc' = "kept" /\ y = Len(pushed') /\ b = pos' + 1
    BY <2>19, <2>20, <2>21, <2>22
  <2>. QED
    BY <2>23, Zenon DEF Progress
<1>. QED
  BY <1>1, <1>7, <1>8, <1>9

(***************************************************************************)
(* The invariant of the parser.                                            *)
(***************************************************************************)

ParseInv == HandlerInv /\ wire \in Framed /\ Filled /\ Progress

\* Before the first read there is nothing to follow.
LEMMA ParseInit == Init => ParseInv
<1>. SUFFICES ASSUME Init PROVE ParseInv
  OBVIOUS
<1>1. PICK s \in Streams : wire = FlattenSeq([i \in DOMAIN s |-> Cells(s[i])])
  BY DEF Init
<1>2. wire \in Framed
  BY <1>1, FramedStream
<1>3. Filled
  BY Sizes DEF Init, Filled
<1>4. Progress
  BY DEF Init, Progress
<1>. QED
  BY <1>2, <1>3, <1>4, InitHandler DEF ParseInv

\* A read fills the buffer and the handler begins at its first place.
LEMMA ParseReceive == ParseInv /\ Receive => ParseInv'
<1>. SUFFICES ASSUME ParseInv, Receive PROVE ParseInv'
  OBVIOUS
<1>1. PICK b \in {1, BufCells + 1}, n \in 1..BufCells :
        /\ pos + n <= Len(wire)
        /\ buf' = b /\ len' = n
        /\ mem' = [i \in DOMAIN mem |-> IF i \in b..b + n - 1 THEN pos + 1 + i - b
                                                              ELSE mem[i]]
        /\ pos' = pos + n
  BY DEF Receive
<1>2. /\ BufCells \in Nat /\ pos \in Nat /\ n \in Nat \ {0} /\ b \in Nat \ {0}
      /\ DOMAIN mem = 1..2 * BufCells /\ b + n - 1 <= 2 * BufCells
  <2>1. Memory
    BY DEF ParseInv, HandlerInv
  <2>2. BufCells \in Nat /\ pos \in Nat
    BY <2>1, Sizes, Data
  <2>. QED
    BY <2>1, <2>2 DEF Memory
<1>3. FirstPlace' = pos + 1
  BY <1>1, <1>2 DEF FirstPlace
<1>4. ASSUME NEW i \in 0..n - 1 PROVE mem'[b + i] = (pos + 1) + i
  <2>1. b + i \in b..b + n - 1 /\ b + i \in 1..2 * BufCells
    BY <1>2
  <2>2. mem'[b + i] = pos + 1 + (b + i) - b
    BY <1>1, <1>2, <2>1
  <2>. QED
    BY <1>2, <2>2
<1>5. Filled'
  BY <1>1, <1>2, <1>3, <1>4 DEF Filled
<1>6. Progress' /\ wire' = wire
  BY DEF Receive, Progress
<1>7. HandlerInv'
  BY ReceiveStep DEF ParseInv
<1>. QED
  BY <1>5, <1>6, <1>7 DEF ParseInv

\* Where a read begins does not change while it is parsed.
LEMMA SameStart ==
  ASSUME UNCHANGED <<wire, pos, len>>
  PROVE  Starts(FirstPlace)' <=> Starts(FirstPlace)
BY DEF Starts, FirstPlace

\* The first message of a read is found, or it is cut.
LEMMA ParseFirst == ParseInv /\ First => ParseInv'
<1>. SUFFICES ASSUME ParseInv, First PROVE ParseInv'
  OBVIOUS
<1>1. /\ HandlerInv /\ wire \in Framed /\ Filled /\ Memory
      /\ pc = "first" /\ Handle(buf, InitResults(buf, ps)) /\ pushed = <<>> /\ len # 0
  BY DEF ParseInv, HandlerInv, Handling, First
<1>2. UNCHANGED <<wire, pos, mem, buf, len>>
  BY <1>1 DEF Handle
<1>3. Filled' /\ wire' = wire
  BY <1>1, <1>2 DEF Filled, FirstPlace
<1>4. Progress'
  <2>. SUFFICES ASSUME Starts(FirstPlace) PROVE Progress'
    BY <1>2, SameStart DEF Progress
  <2>1. /\ buf \in Nat /\ pos \in Nat /\ len \in Nat \ {0}
        /\ FirstPlace = pos - len + 1 /\ FirstPlace \in 1..pos
    BY <1>1, Data DEF FirstPlace, Filled
  <2>2. PICK d \in FirstPlace..pos : d = FirstPlace
    BY <2>1
  <2>3. InMem(d) = buf
    BY <2>1, <2>2 DEF InMem
  <2>4. Len(pushed) = 0
    BY <1>1
  <2>5. UpTo(d, 0)
    <3>1. Before(0) = {} /\ Msgs(d) = {}
      BY <2>1, <2>2 DEF Before, Msgs
    <3>2. d \in FirstPlace..pos + 1
      BY <2>1, <2>2
    <3>. QED
      BY <2>2, <2>4, <3>1, <3>2 DEF UpTo
  <2>. QED
    BY <1>1, <2>3, <2>4, <2>5, ParseStep
<1>5. HandlerInv'
  BY <1>1, FirstStep
<1>. QED
  BY <1>1, <1>3, <1>4, <1>5 DEF ParseInv

\* So is each message behind one that was found.
LEMMA ParseAgain == ParseInv /\ Again => ParseInv'
<1>. SUFFICES ASSUME ParseInv, Again PROVE ParseInv'
  OBVIOUS
<1>. DEFINE R == IF ps.end = Null THEN {Crash} ELSE InitResults(ps.end, ps)
<1>1. /\ HandlerInv /\ wire \in Framed /\ Filled /\ Memory /\ Progress
      /\ pc = "again" /\ Handle(ps.end, R) /\ ps \in PsType
  BY DEF ParseInv, HandlerInv, Memory, Again
<1>2. UNCHANGED <<wire, pos, mem, buf, len>>
  BY <1>1 DEF Handle
<1>3. Filled' /\ wire' = wire
  BY <1>1, <1>2 DEF Filled, FirstPlace
<1>4. ps.end \in Nat /\ \A m \in R : m.type \in Types
  <2>1. ps.end \in Nat
    BY <1>1, Sizes DEF PsType
  <2>2. \A m \in InitResults(ps.end, ps) : m \in PsType
    BY <1>1, <2>1, InitResult DEF After
  <2>3. Crash.type \in Types
    BY DEF Crash, Types
  <2>. QED
    BY <2>1, <2>2, <2>3 DEF PsType
<1>5. Progress'
  <2>. SUFFICES ASSUME Starts(FirstPlace), len # 0 PROVE Progress'
    BY <1>2, SameStart DEF Progress
  <2>1. PICK d \in FirstPlace..pos + 1, n \in 0..Len(pushed) :
          /\ UpTo(d, n)
          /\ \/ Cut(d)
             \/ pc = "again" /\ n = Len(pushed) /\ d <= pos /\ ps.end = InMem(d)
             \/ pc = "kept" /\ n = Len(pushed) /\ d = pos + 1
    BY <1>1 DEF Progress
  <2>2. CASE Cut(d)
    <3>. HIDE DEF R
    <3>. QED
      BY <1>1, <1>4, <2>1, <2>2, CutStep
  <2>3. CASE n = Len(pushed) /\ d <= pos /\ ps.end = InMem(d)
    <3>1. d \in FirstPlace..pos
      <4>1. pos \in Nat /\ len \in Nat
        BY <1>1, Data
      <4>. QED
        BY <2>1, <2>3, <4>1 DEF FirstPlace
    <3>2. InMem(d) # Null
      BY <1>1, <3>1, InBuffer DEF Null
    <3>3. Handle(InMem(d), InitResults(InMem(d), ps))
      BY <1>1, <2>3, <3>2
    <3>. QED
      BY <1>1, <2>1, <2>3, <3>1, <3>3, ParseStep
  <2>. QED
    BY <1>1, <2>1, <2>2, <2>3
<1>6. HandlerInv'
  BY <1>1, AgainStep
<1>. QED
  BY <1>1, <1>3, <1>5, <1>6 DEF ParseInv

LEMMA ParseIdle == ParseInv /\ UNCHANGED vars => ParseInv'
<1>. SUFFICES ASSUME ParseInv, UNCHANGED vars PROVE ParseInv'
  OBVIOUS
<1>1. UNCHANGED <<wire, pos, mem, buf, len, ps, pc, pushed>>
  BY DEF vars
<1>2. HandlerInv' /\ wire' \in Framed
  BY <1>1, HandlerIdle DEF ParseInv
<1>3. Filled'
  BY <1>1 DEF ParseInv, Filled, FirstPlace
<1>4. Progress'
  <2>. SUFFICES ASSUME len # 0, Starts(FirstPlace), pc # "first" PROVE Progress'
    BY <1>1, SameStart DEF Progress
  <2>1. PICK d \in FirstPlace..pos + 1, n \in 0..Len(pushed) :
          /\ UpTo(d, n)
          /\ \/ Cut(d)
             \/ pc = "again" /\ n = Len(pushed) /\ d <= pos /\ ps.end = InMem(d)
             \/ pc = "kept" /\ n = Len(pushed) /\ d = pos + 1
    BY DEF ParseInv, Progress
  <2>2. /\ FirstPlace' = FirstPlace
        /\ \A x : /\ InMem(x)' = InMem(x) /\ (Starts(x)' <=> Starts(x))
                  /\ Msgs(x)' = Msgs(x) /\ (Cut(x)' <=> Cut(x))
    BY <1>1, SamePlaces
  <2>3. Before(n)' = Before(n)
    BY <1>1 DEF Before
  <2>4. UpTo(d, n)'
    BY <1>1, <2>1, <2>2, <2>3 DEF UpTo
  <2>. QED
    BY <1>1, <2>1, <2>2, <2>4 DEF Progress
<1>. QED
  BY <1>2, <1>3, <1>4 DEF ParseInv

\* The parser follows the stream at all times.
LEMMA ParseAlways == Spec => []ParseInv
<1>1. ParseInv /\ [Next]_vars => ParseInv'
  BY ParseReceive, ParseFirst, ParseAgain, ParseIdle DEF Next
<1>. QED
  BY <1>1, ParseInit, PTL DEF Spec

(***************************************************************************)
(* What the consumer gets.                                                 *)
(***************************************************************************)

\* A call that began with a message stops at a cut one or at the end.
LEMMA Returns ==
  ASSUME ParseInv, Returned, Starts(FirstPlace)
  PROVE  \E d \in FirstPlace..pos + 1, n \in 0..Len(pushed) :
           /\ UpTo(d, n)
           /\ \/ Cut(d)
              \/ pc = "kept" /\ n = Len(pushed) /\ d = pos + 1
<1>1. len # 0 /\ pc \in {"released", "kept", "crashed"}
  <2>1. len \in Nat
    BY Data DEF ParseInv, HandlerInv
  <2>. QED
    BY <2>1 DEF Returned, Called
<1>. QED
  BY <1>1 DEF ParseInv, Progress

\* In a read of whole messages none is cut: the call stops at the end.
LEMMA AllParsed == ParseInv => WholeReadsParsed
<1>. SUFFICES ASSUME ParseInv, Returned, Whole
              PROVE  /\ pc = "kept"
                     /\ {[start |-> pushed[i].start, type |-> pushed[i].type] :
                           i \in DOMAIN pushed} = Arrived
                     /\ \A i \in DOMAIN pushed :
                          /\ pushed[i].final <=> i = Len(pushed)
                          /\ i > 1 => pushed[i - 1].start < pushed[i].start
  BY DEF WholeReadsParsed
<1>1. Starts(FirstPlace) /\ Starts(pos + 1)
  BY DEF Whole, FirstPlace
<1>2. PICK d \in FirstPlace..pos + 1, n \in 0..Len(pushed) :
        /\ UpTo(d, n)
        /\ \/ Cut(d)
           \/ pc = "kept" /\ n = Len(pushed) /\ d = pos + 1
  BY <1>1, Returns
<1>3. pos \in Nat /\ len \in Nat /\ FirstPlace \in Int /\ pushed \in Seq(PushType)
  <2>1. pos \in Nat /\ len \in Nat
    BY Data DEF ParseInv, HandlerInv
  <2>. QED
    BY <2>1 DEF ParseInv, HandlerInv, Handling, FirstPlace
<1>4. ~Cut(d)
  <2>. SUFFICES ASSUME Cut(d) PROVE FALSE
    OBVIOUS
  <2>1. pos + 1 \in d + 1..pos + 1
    BY <1>3 DEF Cut
  <2>. QED
    BY <1>1, <2>1 DEF Cut
<1>5. pc = "kept" /\ n = Len(pushed) /\ d = pos + 1 /\ n \in Nat /\ DOMAIN pushed = 1..n
  BY <1>2, <1>3, <1>4
<1>6. /\ Before(n) = Msgs(d)
      /\ \A i \in 1..n : pushed[i].final <=> (i = n /\ d = pos + 1)
      /\ \A i, j \in 1..n : i < j => pushed[i].start < pushed[j].start
  BY <1>2 DEF UpTo
<1>7. Msgs(d) = Arrived
  <2>1. d - 1 = pos
    BY <1>3, <1>5
  <2>. QED
    BY <2>1 DEF Msgs, Arrived, ReadPlaces, FirstPlace
<1>8. ASSUME NEW i \in 1..n, i > 1 PROVE pushed[i - 1].start < pushed[i].start
  <2>1. i - 1 \in 1..n /\ i - 1 < i
    BY <1>5, <1>8
  <2>. QED
    BY <1>6, <2>1
<1>. QED
  BY <1>5, <1>6, <1>7, <1>8 DEF Before

\* Messages that start one behind the other are as many as there are.
LEMMA Counted ==
  ASSUME NEW n \in Nat, \A i \in 1..n : pushed[i].start \in Nat,
         \A i, j \in 1..n : i < j => pushed[i].start < pushed[j].start
  PROVE  Cardinality(Before(n)) = n
<1>. DEFINE f == [i \in 1..n |-> [start |-> pushed[i].start, type |-> pushed[i].type]]
<1>1. f \in [1..n -> Before(n)] /\ \A y \in Before(n) : \E i \in 1..n : f[i] = y
  BY DEF Before
<1>2. ASSUME NEW i \in 1..n, NEW j \in 1..n, f[i] = f[j] PROVE i = j
  <2>1. f[i].start = pushed[i].start /\ f[j].start = pushed[j].start
    OBVIOUS
  <2>2. pushed[i].start = pushed[j].start
    BY <1>2, <2>1
  <2>3. ~(i < j) /\ ~(j < i)
    BY <2>2
  <2>. QED
    BY <2>3
<1>. HIDE DEF f
<1>3. f \in Bijection(1..n, Before(n))
  <2>1. f \in Surjection(1..n, Before(n))
    BY <1>1 DEF Surjection
  <2>2. f \in Injection(1..n, Before(n))
    BY <1>1, <1>2 DEF Injection, IsInjective
  <2>. QED
    BY <2>1, <2>2 DEF Bijection
<1>4. IsFiniteSet(1..n) /\ Cardinality(1..n) = n
  <2>1. 1 \in Int /\ n \in Int
    OBVIOUS
  <2>2. /\ IsFiniteSet(1..n)
        /\ Cardinality(1..n) = IF 1 > n THEN 0 ELSE n - 1 + 1
    BY <2>1, FS_Interval
  <2>3. (IF 1 > n THEN 0 ELSE n - 1 + 1) = n
    OBVIOUS
  <2>. QED
    BY <2>2, <2>3
<1>5. ExistsBijection(1..n, Before(n))
  BY <1>3 DEF ExistsBijection
<1>. QED
  BY <1>4, <1>5, FS_Bijection

\* Before the place where the call stopped everything was pushed, and what is
\* complete lies before it.
LEMMA FirstParsed == ParseInv => CompleteComeFirst
<1>. SUFFICES ASSUME ParseInv, Returned, Starts(pos - len + 1)
              PROVE  /\ Len(pushed) >= Cardinality(Complete)
                     /\ {[start |-> pushed[i].start, type |-> pushed[i].type] :
                           i \in 1..Cardinality(Complete)} = Complete
  BY DEF CompleteComeFirst
<1>1. Starts(FirstPlace)
  BY DEF FirstPlace
<1>2. PICK d \in FirstPlace..pos + 1, n \in 0..Len(pushed) :
        /\ UpTo(d, n)
        /\ \/ Cut(d)
           \/ pc = "kept" /\ n = Len(pushed) /\ d = pos + 1
  BY <1>1, Returns
<1>3. /\ pos \in Nat /\ len \in Nat /\ FirstPlace \in Int /\ Len(wire) \in Nat
      /\ pos <= Len(wire) /\ pushed \in Seq(PushType)
  <2>1. pos \in Nat /\ len \in Nat /\ Len(wire) \in Nat /\ pos \in 0..Len(wire)
    BY Data DEF ParseInv, HandlerInv, Memory
  <2>. QED
    BY <2>1 DEF ParseInv, HandlerInv, Handling, FirstPlace
<1>4. /\ Before(n) = Msgs(d) /\ Starts(d)
      /\ \A i, j \in 1..n : i < j => pushed[i].start < pushed[j].start
  BY <1>2 DEF UpTo
<1>5. Cut(d) \/ d = pos + 1
  BY <1>2
<1>6. Complete = Msgs(d)
  <2>. DEFINE S == {o \in FirstPlace..d - 1 : wire[o] = TagCell(8)}
              C == {o \in ReadPlaces : /\ wire[o] = TagCell(8)
                                       /\ \E e \in o + 1..pos + 1 : Starts(e)}
  <2>1. ReadPlaces = FirstPlace..pos
    BY DEF ReadPlaces, FirstPlace
  <2>2. ASSUME NEW o \in S PROVE o \in C
    <3>1. o \in FirstPlace..pos /\ d \in o + 1..pos + 1
      BY <1>3
    <3>. QED
      BY <1>4, <2>1, <3>1
  <2>3. ASSUME NEW o \in C PROVE o \in S
    <3>1. PICK e \in o + 1..pos + 1 : Starts(e)
      OBVIOUS
    <3>2. o \in FirstPlace..pos /\ wire[o] = TagCell(8)
      BY <2>1
    <3>3. Starts(o)
      BY <3>2 DEF Starts
    <3>4. o < d
      <4>1. CASE d = pos + 1
        BY <1>3, <3>2, <4>1
      <4>2. CASE Cut(d)
        <5>1. \A x \in d + 1..pos + 1 : ~Starts(x)
          BY <4>2 DEF Cut
        <5>2. o \notin d + 1..pos + 1 /\ e \notin d + 1..pos + 1
          BY <3>1, <3>3, <5>1
        <5>. QED
          BY <1>3, <3>1, <3>2, <5>2
      <4>. QED
        BY <1>5, <4>1, <4>2
    <3>. QED
      BY <1>3, <3>2, <3>4
  <2>4. S = C
    BY <2>2, <2>3
  <2>5. /\ Complete = {[start |-> InMem(o), type |-> wire[o + 5].val] : o \in C}
        /\ Msgs(d) = {[start |-> InMem(o), type |-> wire[o + 5].val] : o \in S}
    BY DEF Complete, Msgs
  <2>. HIDE DEF S, C
  <2>. QED
    BY <2>4, <2>5
<1>7. n \in Nat /\ n <= Len(pushed) /\ Len(pushed) \in Nat
  BY <1>3
<1>8. \A i \in 1..n : pushed[i].start \in Nat
  <2>1. \A i \in 1..n : pushed[i] \in PushType
    BY <1>3
  <2>. QED
    BY <2>1 DEF PushType
<1>9. Cardinality(Complete) = n
  BY <1>4, <1>6, <1>7, <1>8, Counted
<1>. QED
  BY <1>4, <1>6, <1>7, <1>9 DEF Before

\* A read of whole messages reaches the consumer as these messages, in their order
\* and with the last one final, for messages of any types and lengths and whatever
\* an earlier read left in memory.
THEOREM WholeReadsReachConsumer == Spec => []WholeReadsParsed
BY ParseAlways, AllParsed, PTL

\* Wherever the end of a read cuts the last message, those before it reach the
\* consumer first and as they were sent.
THEOREM CompleteReachConsumer == Spec => []CompleteComeFirst
BY ParseAlways, FirstParsed, PTL
===============================================================================
