----------------------------- MODULE QueueLemmas -----------------------------
(***************************************************************************)
(* What the proofs of several modules need to know about the operators     *)
(* their models are built from: queues, the elements that are erased from  *)
(* a vector, the least member of a set, and how many buffers there are.    *)
(***************************************************************************)
EXTENDS Integers, Sequences, FiniteSets, SequencesExt, FiniteSetsExt,
        SequenceTheorems, FiniteSetTheorems, WellFoundedInduction, TLAPS

(***************************************************************************)
(* Lemmas about queues.                                                    *)
(***************************************************************************)

\* What a push to the back of a queue does to its positions.
LEMMA PushBack ==
  ASSUME NEW S, NEW q \in Seq(S), NEW e \in S
  PROVE  /\ Append(q, e) \in Seq(S)
         /\ DOMAIN Append(q, e) = 1..Len(q) + 1
         /\ DOMAIN q = 1..Len(q) /\ Len(q) \in Nat
         /\ Len(Append(q, e)) = Len(q) + 1
         /\ \A i \in 1..Len(q) : Append(q, e)[i] = q[i]
         /\ Append(q, e)[Len(q) + 1] = e
OBVIOUS

\* What a pop from the front of a queue does to its positions.
LEMMA PopFront ==
  ASSUME NEW S, NEW q \in Seq(S), q # <<>>
  PROVE  /\ Tail(q) \in Seq(S)
         /\ Head(q) = q[1] /\ Head(q) \in S
         /\ DOMAIN Tail(q) = 1..Len(q) - 1
         /\ DOMAIN q = 1..Len(q) /\ Len(q) \in Nat \ {0}
         /\ \A i \in 1..Len(q) - 1 : Tail(q)[i] = q[i + 1]
OBVIOUS

\* Behind the first of several messages there is another.
LEMMA MoreThanOne ==
  ASSUME NEW S, NEW q \in Seq(S), q # <<>>, Len(q) # 1
  PROVE  Tail(q) # <<>>
<1>1. Len(Tail(q)) = Len(q) - 1 /\ Len(q) \in Nat \ {0, 1}
  BY HeadTailProperties, EmptySeq
<1>2. Len(Tail(q)) # 0
  BY <1>1
<1>. QED
  BY <1>2, EmptySeq

\* One sequence behind another.
LEMMA Joined ==
  ASSUME NEW S, NEW s \in Seq(S), NEW t \in Seq(S)
  PROVE  s \o t \in Seq(S) /\ Len(s \o t) = Len(s) + Len(t)
OBVIOUS

\* A piece of a vector, with its positions counted from 1.
LEMMA Piece ==
  ASSUME NEW S, NEW q \in Seq(S), NEW m \in 1..Len(q) + 1, NEW n \in 0..Len(q),
         m <= n + 1
  PROVE  /\ SubSeq(q, m, n) \in Seq(S) /\ Len(SubSeq(q, m, n)) = n - m + 1
         /\ \A i \in 1..n - m + 1 : SubSeq(q, m, n)[i] = q[m + i - 1]
<1>1. Len(q) \in Nat
  BY LenProperties
<1>2. m \in Int /\ n \in Int /\ \A i \in m..n : i \in 1..Len(q)
  BY <1>1
<1>3. \A i \in m..n : q[i] \in S
  BY <1>2, ElementOfSeq
<1>4. /\ SubSeq(q, m, n) \in Seq(S)
      /\ Len(SubSeq(q, m, n)) = (IF m <= n THEN n - m + 1 ELSE 0)
      /\ \A i \in 1..n - m + 1 : SubSeq(q, m, n)[i] = q[m + i - 1]
  BY <1>2, <1>3, SubSeqProperties
<1>. QED
  BY <1>2, <1>4

\* The first n elements.
LEMMA FirstOnes ==
  ASSUME NEW S, NEW q \in Seq(S), NEW n \in 0..Len(q)
  PROVE  /\ SubSeq(q, 1, n) \in Seq(S) /\ Len(SubSeq(q, 1, n)) = n
         /\ \A i \in 1..n : SubSeq(q, 1, n)[i] = q[i]
<1>. DEFINE a == SubSeq(q, 1, n)
<1>1. /\ 1 \in 1..Len(q) + 1 /\ 1 <= n + 1 /\ n \in Int
      /\ n - 1 + 1 = n /\ \A i \in 1..n : 1 + i - 1 = i
  OBVIOUS
<1>. HIDE DEF a
<1>2. /\ a \in Seq(S) /\ Len(a) = n - 1 + 1
      /\ \A i \in 1..n - 1 + 1 : a[i] = q[1 + i - 1]
  BY <1>1, Piece DEF a
<1>3. /\ a \in Seq(S) /\ Len(a) = n /\ \A i \in 1..n : a[i] = q[i]
  BY <1>1, <1>2
<1>. QED
  BY <1>3 DEF a

\* What an erase does to the positions of a vector.
LEMMA Removed ==
  ASSUME NEW S, NEW q \in Seq(S), NEW k \in 1..Len(q)
  PROVE  /\ RemoveAt(q, k) \in Seq(S)
         /\ Len(RemoveAt(q, k)) = Len(q) - 1
         /\ \A i \in 1..Len(q) - 1 :
              RemoveAt(q, k)[i] = IF i < k THEN q[i] ELSE q[i + 1]
<1>. DEFINE a == SubSeq(q, 1, k - 1)
            b == SubSeq(q, k + 1, Len(q))
<1>1. Len(q) \in Nat \ {0}
  BY LenProperties
<1>2. /\ a \in Seq(S) /\ Len(a) = k - 1
      /\ \A i \in 1..k - 1 : a[i] = q[i]
  <2>1. \A i \in 1..k - 1 : 1 + i - 1 = i
    BY <1>1
  <2>2. /\ a \in Seq(S) /\ Len(a) = k - 1 - 1 + 1
        /\ \A i \in 1..k - 1 - 1 + 1 : a[i] = q[1 + i - 1]
    BY <1>1, Piece
  <2>3. k - 1 - 1 + 1 = k - 1
    BY <1>1
  <2>. QED
    BY <2>1, <2>2, <2>3, Zenon
<1>3. /\ b \in Seq(S) /\ Len(b) = Len(q) - k
      /\ \A i \in 1..Len(q) - k : b[i] = q[k + i]
  <2>1. \A i \in 1..Len(q) - k : k + 1 + i - 1 = k + i
    BY <1>1
  <2>2. /\ b \in Seq(S) /\ Len(b) = Len(q) - (k + 1) + 1
        /\ \A i \in 1..Len(q) - (k + 1) + 1 : b[i] = q[k + 1 + i - 1]
    BY <1>1, Piece
  <2>3. Len(q) - (k + 1) + 1 = Len(q) - k
    BY <1>1
  <2>. QED
    BY <2>1, <2>2, <2>3, Zenon
<1>4. /\ a \o b \in Seq(S) /\ Len(a \o b) = Len(a) + Len(b)
      /\ \A i \in 1..Len(a) + Len(b) :
           (a \o b)[i] = IF i <= Len(a) THEN a[i] ELSE b[i - Len(a)]
  <2>. HIDE DEF a, b
  <2>. QED
    BY <1>2, <1>3, ConcatProperties
<1>5. ASSUME NEW i \in 1..Len(q) - 1
      PROVE  (a \o b)[i] = IF i < k THEN q[i] ELSE q[i + 1]
  <2>. HIDE DEF a, b
  <2>1. CASE i < k
    BY <1>1, <1>2, <1>3, <1>4, <2>1
  <2>2. CASE ~(i < k)
    <3>1. i - (k - 1) \in 1..Len(q) - k /\ k + (i - (k - 1)) = i + 1
      BY <1>1, <2>2
    <3>2. b[i - (k - 1)] = q[i + 1]
      BY <1>3, <3>1
    <3>. QED
      BY <1>1, <1>2, <1>3, <1>4, <2>2, <3>2
  <2>. QED
    BY <2>1, <2>2
<1>6. Len(a) + Len(b) = Len(q) - 1
  <2>. HIDE DEF a, b
  <2>. QED
    BY <1>1, <1>2, <1>3
<1>7. RemoveAt(q, k) = a \o b
  BY DEF RemoveAt
<1>. HIDE DEF a, b
<1>. QED
  BY <1>4, <1>5, <1>6, <1>7, Zenon

\* What dropping the last element does.
LEMMA FrontOf ==
  ASSUME NEW S, NEW q \in Seq(S), q # <<>>
  PROVE  /\ Front(q) \in Seq(S) /\ Len(Front(q)) = Len(q) - 1
         /\ \A i \in 1..Len(q) - 1 : Front(q)[i] = q[i]
<1>1. Len(q) \in Nat \ {0}
  BY LenProperties, EmptySeq
<1>. DEFINE n == Len(q) - 1
            f == SubSeq(q, 1, n)
<1>2. n \in 0..Len(q) /\ 1 \in 1..Len(q) + 1 /\ 1 <= n + 1
  BY <1>1
<1>3. f \in Seq(S) /\ Len(f) = n - 1 + 1 /\ \A i \in 1..n - 1 + 1 : f[i] = q[1 + i - 1]
  <2>. HIDE DEF n
  <2>. QED
    BY <1>2, Piece
<1>4. n - 1 + 1 = n /\ \A i \in 1..n : 1 + i - 1 = i
  BY <1>1
<1>. QED
  BY <1>3, <1>4, Zenon DEF Front

\* A sequence turned round.
LEMMA Reversal ==
  ASSUME NEW S, NEW s \in Seq(S)
  PROVE  /\ Reverse(s) \in Seq(S) /\ Len(Reverse(s)) = Len(s)
         /\ \A i \in 1..Len(s) : Reverse(s)[i] = s[Len(s) - i + 1]
         /\ s = <<>> => Reverse(s) = <<>>
<1>. DEFINE n == Len(s)
<1>1. n \in Nat /\ \A i \in 1..n : n - i + 1 \in 1..n
  OBVIOUS
<1>2. Reverse(s) = [i \in 1..n |-> s[n - i + 1]]
  BY DEF Reverse
<1>3. \A i \in 1..n : s[n - i + 1] \in S
  BY <1>1, ElementOfSeq
<1>4. /\ Reverse(s) \in Seq(S) /\ Len(Reverse(s)) = n
      /\ \A i \in 1..n : Reverse(s)[i] = s[n - i + 1]
  <2>. HIDE DEF n
  <2>. QED
    BY <1>1, <1>2, <1>3
<1>5. s = <<>> => n = 0
  BY EmptySeq
<1>6. n = 0 => Reverse(s) = <<>>
  BY <1>4, EmptySeq
<1>. QED
  BY <1>4, <1>5, <1>6

\* Two sequences turned round together.
LEMMA ReversedConcat ==
  ASSUME NEW S, NEW s \in Seq(S), NEW t \in Seq(S)
  PROVE  Reverse(s \o t) = Reverse(t) \o Reverse(s)
<1>. DEFINE n == Len(s)
            m == Len(t)
            u == s \o t
            v == Reverse(t) \o Reverse(s)
<1>1. n \in Nat /\ m \in Nat
  OBVIOUS
<1>2. /\ u \in Seq(S) /\ Len(u) = n + m
      /\ \A i \in 1..n + m : u[i] = IF i <= n THEN s[i] ELSE t[i - n]
  BY ConcatProperties
<1>3. /\ Reverse(u) \in Seq(S) /\ Len(Reverse(u)) = n + m
      /\ \A i \in 1..n + m : Reverse(u)[i] = u[n + m - i + 1]
  <2>. HIDE DEF u, n, m
  <2>1. /\ Reverse(u) \in Seq(S) /\ Len(Reverse(u)) = Len(u)
        /\ \A i \in 1..Len(u) : Reverse(u)[i] = u[Len(u) - i + 1]
    BY <1>2, Reversal
  <2>2. Len(u) = n + m
    BY <1>2
  <2>. DEFINE w == Reverse(u)
  <2>. HIDE DEF w
  <2>3. ASSUME NEW i \in 1..n + m PROVE w[i] = u[n + m - i + 1]
    <3>1. i \in 1..Len(u) /\ Len(u) - i + 1 = n + m - i + 1
      BY <1>1, <2>2
    <3>2. w[i] = u[Len(u) - i + 1]
      BY <2>1, <3>1 DEF w
    <3>. QED
      BY <3>1, <3>2
  <2>. QED
    BY <2>1, <2>2, <2>3 DEF w
<1>4. /\ Reverse(s) \in Seq(S) /\ Len(Reverse(s)) = n
      /\ \A i \in 1..n : Reverse(s)[i] = s[n - i + 1]
  BY Reversal
<1>5. /\ Reverse(t) \in Seq(S) /\ Len(Reverse(t)) = m
      /\ \A i \in 1..m : Reverse(t)[i] = t[m - i + 1]
  BY Reversal
<1>6. /\ v \in Seq(S) /\ Len(v) = m + n
      /\ \A i \in 1..m + n : v[i] = IF i <= m THEN Reverse(t)[i] ELSE Reverse(s)[i - m]
  <2>. DEFINE a == Reverse(t)
              b == Reverse(s)
  <2>. HIDE DEF n, m
  <2>1. a \in Seq(S) /\ b \in Seq(S) /\ Len(a) = m /\ Len(b) = n
    BY <1>4, <1>5
  <2>. HIDE DEF a, b
  <2>2. /\ a \o b \in Seq(S) /\ Len(a \o b) = Len(a) + Len(b)
        /\ \A i \in 1..Len(a) + Len(b) :
             (a \o b)[i] = IF i <= Len(a) THEN a[i] ELSE b[i - Len(a)]
    BY <2>1, ConcatProperties
  <2>3. /\ a \o b \in Seq(S) /\ Len(a \o b) = m + n
        /\ \A i \in 1..m + n : (a \o b)[i] = IF i <= m THEN a[i] ELSE b[i - m]
    BY <2>1, <2>2, Zenon
  <2>. QED
    BY <2>3 DEF a, b
<1>. HIDE DEF n, m, u, v
<1>7. ASSUME NEW i \in 1..n + m PROVE Reverse(u)[i] = v[i]
  <2>1. CASE i <= m
    <3>. DEFINE j == n + m - i + 1
    <3>1. j \in 1..n + m /\ ~(j <= n) /\ j - n = m - i + 1 /\ i \in 1..m /\ i \in 1..m + n
      BY <1>1, <2>1
    <3>2. u[j] = t[m - i + 1]
      <4>. HIDE DEF j
      <4>. QED
        BY <1>2, <3>1
    <3>3. v[i] = t[m - i + 1]
      BY <1>5, <1>6, <2>1, <3>1
    <3>. QED
      BY <1>3, <3>2, <3>3
  <2>2. CASE ~(i <= m)
    <3>1. n + m - i + 1 \in 1..n + m /\ n + m - i + 1 <= n
          /\ n - (i - m) + 1 = n + m - i + 1 /\ i - m \in 1..n /\ i \in 1..m + n
      BY <1>1, <2>2
    <3>2. u[n + m - i + 1] = s[n + m - i + 1]
      BY <1>2, <3>1
    <3>3. Reverse(s)[i - m] = s[n + m - i + 1]
      BY <1>4, <3>1
    <3>4. v[i] = s[n + m - i + 1]
      BY <1>6, <2>2, <3>1, <3>3
    <3>. QED
      BY <1>3, <3>2, <3>4
  <2>. QED
    BY <2>1, <2>2
<1>8. Len(v) = n + m
  BY <1>1, <1>6
<1>9. Reverse(u) = v
  BY <1>3, <1>6, <1>7, <1>8, SeqEqual
<1>. QED
  BY <1>9 DEF u, v

\* Two sequences that were put behind each other are taken apart.
LEMMA TwoPieces ==
  ASSUME NEW S, NEW s \in Seq(S), NEW t \in Seq(S)
  PROVE  /\ SubSeq(s \o t, 1, Len(s)) = s
         /\ SubSeq(s \o t, Len(s) + 1, Len(s \o t)) = t
<1>. DEFINE n == Len(s)
            m == Len(t)
            u == s \o t
            a == SubSeq(u, 1, n)
            b == SubSeq(u, n + 1, n + m)
<1>1. /\ n \in Nat /\ m \in Nat /\ u \in Seq(S) /\ Len(u) = n + m
      /\ \A i \in 1..n + m : u[i] = IF i <= n THEN s[i] ELSE t[i - n]
  BY ConcatProperties
<1>. HIDE DEF n, m, u
<1>2. a \in Seq(S) /\ Len(a) = n /\ \A i \in 1..n : a[i] = s[i]
  <2>1. n \in 0..Len(u) /\ 1 \in 1..Len(u) + 1 /\ 1 <= n + 1
    BY <1>1
  <2>2. a \in Seq(S) /\ Len(a) = n - 1 + 1 /\ \A i \in 1..n - 1 + 1 : a[i] = u[1 + i - 1]
    BY <1>1, <2>1, Piece
  <2>3. n - 1 + 1 = n /\ \A i \in 1..n : 1 + i - 1 = i /\ i \in 1..n + m /\ i <= n
    BY <1>1
  <2>4. \A i \in 1..n : a[i] = u[i]
    BY <2>2, <2>3, Zenon
  <2>5. \A i \in 1..n : u[i] = s[i]
    BY <1>1, <2>3, Zenon
  <2>. HIDE DEF a
  <2>. QED
    BY <2>2, <2>3, <2>4, <2>5
<1>3. b \in Seq(S) /\ Len(b) = m /\ \A i \in 1..m : b[i] = t[i]
  <2>1. n + m \in 0..Len(u) /\ n + 1 \in 1..Len(u) + 1 /\ n + 1 <= n + m + 1
    BY <1>1
  <2>2. /\ b \in Seq(S) /\ Len(b) = n + m - (n + 1) + 1
        /\ \A i \in 1..n + m - (n + 1) + 1 : b[i] = u[n + 1 + i - 1]
    BY <1>1, <2>1, Piece
  <2>3. n + m - (n + 1) + 1 = m
    BY <1>1
  <2>4. ASSUME NEW i \in 1..m PROVE b[i] = t[i]
    <3>1. n + 1 + i - 1 = n + i /\ n + i \in 1..n + m /\ ~(n + i <= n) /\ (n + i) - n = i
      BY <1>1
    <3>2. u[n + i] = t[i]
      BY <1>1, <3>1
    <3>3. b[i] = u[n + i]
      BY <2>2, <2>3, <3>1, Zenon
    <3>. QED
      BY <3>2, <3>3
  <2>. HIDE DEF b
  <2>. QED
    BY <2>2, <2>3, <2>4
<1>. HIDE DEF a, b
<1>4. a = s
  BY <1>2, SeqEqual DEF n
<1>5. b = t
  BY <1>3, SeqEqual DEF m
<1>6. Len(s \o t) = n + m
  BY <1>1 DEF u
<1>. QED
  BY <1>4, <1>5, <1>6 DEF a, b, u, n

\* The rest of a sequence is a suffix of it.
LEMMA RestIsSuffix ==
  ASSUME NEW S, NEW s \in Seq(S), NEW t \in Seq(S)
  PROVE  IsSuffix(t, s \o t)
<1>. DEFINE a == Reverse(t)
            b == Reverse(s)
<1>1. a \in Seq(S) /\ b \in Seq(S)
  BY Reversal
<1>2. Reverse(s \o t) = a \o b
  BY ReversedConcat
<1>. HIDE DEF a, b
<1>3. Len(a) \in Nat /\ Len(b) \in Nat /\ Len(a \o b) = Len(a) + Len(b)
  BY <1>1, ConcatProperties
<1>4. SubSeq(a \o b, 1, Len(a)) = a /\ SubSeq(a, 1, Len(a)) = a
  BY <1>1, SubSeqFull, TwoPieces
<1>5. IsPrefix(a, a \o b)
  BY <1>3, <1>4 DEF IsPrefix
<1>. QED
  BY <1>2, <1>5 DEF IsSuffix, a

(***************************************************************************)
(* Sets.                                                                   *)
(***************************************************************************)

\* A set of naturals that has a member has a least one.
LEMMA HasMin ==
  ASSUME NEW S, S \subseteq Nat, S # {}
  PROVE  Min(S) \in S /\ \A y \in S : Min(S) <= y
<1>1. IsWellFoundedOn(OpToRel(<, Nat), Nat)
  BY NatLessThanWellFounded
<1>2. PICK x \in S : \A y \in S : ~(<<y, x>> \in OpToRel(<, Nat))
  <2>1. IsWellFoundedOn(OpToRel(<, Nat), S)
    BY <1>1, IsWellFoundedOnSubset
  <2>. QED
    BY <2>1, WFMin
<1>3. \A y \in S : x <= y
  <2>1. ASSUME NEW y \in S, y < x PROVE FALSE
    BY <1>2, <2>1 DEF OpToRel
  <2>. QED
    BY <2>1
<1>. QED
  BY <1>3 DEF Min

\* The messages of a queue are in at most as many buffers.
LEMMA BufsOfQueue ==
  ASSUME NEW S, NEW q \in Seq(S)
  PROVE  /\ IsFiniteSet({q[i].buf : i \in DOMAIN q})
         /\ Cardinality({q[i].buf : i \in DOMAIN q}) <= Len(q)
<1>. DEFINE n == Len(q)
            T == {q[i].buf : i \in 1..n}
            f == [i \in 1..n |-> q[i].buf]
<1>1. n \in Nat /\ DOMAIN q = 1..n
  OBVIOUS
<1>2. f \in Surjection(1..n, T)
  BY DEF Surjection
<1>3. IsFiniteSet(1..n) /\ Cardinality(1..n) = n
  BY <1>1, FS_Interval
<1>4. IsFiniteSet(T) /\ Cardinality(T) <= Cardinality(1..n)
  <2>. HIDE DEF T, f
  <2>. QED
    BY <1>2, <1>3, FS_Surjection
<1>. QED
  BY <1>1, <1>3, <1>4

\* One more element, and two sets with one more element.
LEMMA AddBound ==
  ASSUME NEW C, NEW x, IsFiniteSet(C)
  PROVE  /\ IsFiniteSet(C \cup {x})
         /\ Cardinality(C) \in Nat /\ Cardinality(C \cup {x}) \in Nat
         /\ Cardinality(C \cup {x}) <= Cardinality(C) + 1
<1>1. IsFiniteSet(C \cup {x})
  BY FS_AddElement
<1>2. Cardinality(C) \in Nat /\ Cardinality(C \cup {x}) \in Nat
  BY <1>1, FS_CardinalityType
<1>3. \/ Cardinality(C \cup {x}) = Cardinality(C)
      \/ Cardinality(C \cup {x}) = Cardinality(C) + 1
  BY FS_AddElement, Zenon
<1>. QED
  BY <1>1, <1>2, <1>3

\* Two bounded sets and one more element have a bounded union.
LEMMA UnionBound ==
  ASSUME NEW A, NEW B, NEW x, IsFiniteSet(A), IsFiniteSet(B),
         NEW a \in Nat, NEW b \in Nat, Cardinality(A) <= a, Cardinality(B) <= b
  PROVE  /\ IsFiniteSet(A \cup B) /\ Cardinality(A \cup B) <= a + b
         /\ IsFiniteSet(A \cup B \cup {x})
         /\ Cardinality(A \cup B \cup {x}) <= a + b + 1
<1>1. /\ IsFiniteSet(A \cup B)
      /\ Cardinality(A \cup B) = Cardinality(A) + Cardinality(B) - Cardinality(A \cap B)
  BY FS_Union
<1>2. /\ Cardinality(A) \in Nat /\ Cardinality(B) \in Nat
      /\ Cardinality(A \cap B) \in Nat /\ Cardinality(A \cup B) \in Nat
  BY <1>1, FS_Intersection, FS_CardinalityType
<1>3. Cardinality(A \cup B) <= a + b
  BY <1>1, <1>2
<1>4. /\ IsFiniteSet(A \cup B \cup {x})
      /\ Cardinality(A \cup B \cup {x}) <= Cardinality(A \cup B) + 1
  BY <1>1, AddBound
<1>5. Cardinality(A \cup B \cup {x}) \in Nat
  BY <1>4, FS_CardinalityType
<1>. QED
  BY <1>1, <1>2, <1>3, <1>4, <1>5

(***************************************************************************)
(* Recursion over the positions of a sequence.                             *)
(***************************************************************************)

\* Induction, for the numbers of a set.
LEMMA Inductive ==
  ASSUME NEW S, 0 \in S, \A k \in Nat : k \in S => k + 1 \in S
  PROVE  Nat \subseteq S
<1>. DEFINE Bad == Nat \ S
<1>. SUFFICES ASSUME Bad # {} PROVE FALSE
  OBVIOUS
<1>1. IsWellFoundedOn(OpToRel(<, Nat), Nat)
  BY NatLessThanWellFounded
<1>2. PICK x \in Bad : \A y \in Bad : ~(<<y, x>> \in OpToRel(<, Nat))
  BY <1>1, WFMin
<1>3. x \in Nat /\ x # 0
  OBVIOUS
<1>4. x - 1 \in Nat /\ x - 1 < x /\ (x - 1) + 1 = x
  BY <1>3
<1>5. x - 1 \notin Bad
  BY <1>2, <1>3, <1>4 DEF OpToRel
<1>. QED
  BY <1>4, <1>5

\* A function that is computed from 1 upwards, each value from the one before.
Computes(f, n, base, step) ==
  \A i \in 1..n : f[i] = IF i = 1 THEN base ELSE step[i][f[i - 1]]

\* A function computed from 1 upwards exists.
LEMMA Recursion ==
  ASSUME NEW n \in Nat, NEW T, NEW base \in T, NEW step \in [1..n -> [T -> T]]
  PROVE  \E f \in [1..n -> T] : Computes(f, n, base, step)
<1>. DEFINE Ok == {k \in Nat : k <= n =>
                    \E f \in [1..k -> T] : Computes(f, k, base, step)}
<1>1. 0 \in Ok
  <2>1. [i \in 1..0 |-> base] \in [1..0 -> T]
    OBVIOUS
  <2>2. Computes([i \in 1..0 |-> base], 0, base, step)
    BY DEF Computes
  <2>. QED
    BY <2>1, <2>2
<1>2. ASSUME NEW k \in Nat, k \in Ok PROVE k + 1 \in Ok
  <2>. SUFFICES ASSUME k + 1 <= n
                PROVE  \E f \in [1..k + 1 -> T] : Computes(f, k + 1, base, step)
    OBVIOUS
  <2>1. PICK f \in [1..k -> T] : Computes(f, k, base, step)
    BY <1>2
  <2>. DEFINE next == IF k = 0 THEN base ELSE step[k + 1][f[k]]
              g == [i \in 1..k + 1 |-> IF i = k + 1 THEN next ELSE f[i]]
  <2>2. next \in T
    <3>1. CASE k = 0
      BY <3>1
    <3>2. CASE k # 0
      <4>1. k \in 1..k /\ k + 1 \in 1..n
        BY <3>2
      <4>2. f[k] \in T /\ step[k + 1] \in [T -> T]
        BY <4>1
      <4>. QED
        BY <3>2, <4>2
    <3>. QED
      BY <3>1, <3>2
  <2>3. \A i \in 1..k + 1 : i = k + 1 \/ i \in 1..k
    OBVIOUS
  <2>. HIDE DEF next
  <2>4. g \in [1..k + 1 -> T]
    BY <2>2, <2>3
  <2>5. ASSUME NEW i \in 1..k + 1
        PROVE  g[i] = IF i = 1 THEN base ELSE step[i][g[i - 1]]
    <3>1. CASE i = k + 1
      <4>1. g[i] = next
        BY <3>1
      <4>2. CASE k = 0
        BY <3>1, <4>1, <4>2 DEF next
      <4>3. CASE k # 0
        <5>1. i # 1 /\ i - 1 = k /\ k \in 1..k + 1 /\ k # k + 1
          BY <3>1, <4>3
        <5>2. g[i - 1] = f[k]
          BY <5>1
        <5>. QED
          BY <3>1, <4>1, <4>3, <5>1, <5>2 DEF next
      <4>. QED
        BY <4>2, <4>3
    <3>2. CASE i \in 1..k
      <4>1. i # k + 1 /\ g[i] = f[i]
        BY <3>2
      <4>2. f[i] = IF i = 1 THEN base ELSE step[i][f[i - 1]]
        BY <2>1, <3>2 DEF Computes
      <4>3. CASE i = 1
        BY <4>1, <4>2, <4>3
      <4>4. CASE i # 1
        <5>1. i - 1 \in 1..k + 1 /\ i - 1 # k + 1
          BY <3>2, <4>4
        <5>2. g[i - 1] = f[i - 1]
          BY <5>1
        <5>. QED
          BY <4>1, <4>2, <4>4, <5>2
      <4>. QED
        BY <4>3, <4>4
    <3>. QED
      BY <2>3, <3>1, <3>2
  <2>. HIDE DEF g
  <2>. QED
    BY <2>4, <2>5 DEF Computes
<1>3. Nat \subseteq Ok
  <2>. HIDE DEF Ok
  <2>. QED
    BY <1>1, <1>2, Inductive
<1>4. n \in Ok
  BY <1>3
<1>. QED
  BY <1>4

\* A function that is so computed has its values where they belong.
LEMMA Computed ==
  ASSUME NEW n \in Nat, NEW T, NEW f,
         \A i \in 1..n : i = 1 \/ f[i - 1] \in T => f[i] \in T
  PROVE  \A i \in 1..n : f[i] \in T
<1>. DEFINE Ok == {k \in Nat : k \in 1..n => f[k] \in T}
<1>1. 0 \in Ok
  OBVIOUS
<1>2. ASSUME NEW k \in Nat, k \in Ok PROVE k + 1 \in Ok
  <2>. SUFFICES ASSUME k + 1 \in 1..n PROVE f[k + 1] \in T
    OBVIOUS
  <2>1. CASE k = 0
    BY <2>1
  <2>2. CASE k # 0
    <3>1. k \in 1..n /\ (k + 1) - 1 = k
      BY <2>2
    <3>2. f[(k + 1) - 1] \in T
      BY <1>2, <3>1
    <3>. QED
      BY <3>2
  <2>. QED
    BY <2>1, <2>2
<1>3. Nat \subseteq Ok
  <2>. HIDE DEF Ok
  <2>. QED
    BY <1>1, <1>2, Inductive
<1>. QED
  BY <1>3

\* Sequences are put behind each other one by one, from the first to the last.
LEMMA FlattenSteps ==
  ASSUME NEW S, NEW seqs \in Seq(Seq(S)), seqs # <<>>
  PROVE  \E f \in [1..Len(seqs) -> Seq(S)] :
           /\ FlattenSeq(seqs) = f[Len(seqs)]
           /\ f[1] = seqs[1]
           /\ \A i \in 1..Len(seqs) : i # 1 => f[i] = f[i - 1] \o seqs[i]
<1>. DEFINE n == Len(seqs)
            T == Seq(S)
            Eq(f) == f = [i \in 1..n |-> IF i = 1 THEN seqs[i] ELSE f[i - 1] \o seqs[i]]
            flatten == CHOOSE f : Eq(f)
            step == [i \in 1..n |-> [s \in T |-> s \o seqs[i]]]
            base == seqs[1]
<1>1. n \in Nat \ {0} /\ 1 \in 1..n /\ \A i \in 1..n : seqs[i] \in T
  <2>1. n \in Nat \ {0}
    BY EmptySeq
  <2>. QED
    BY <2>1
<1>2. step \in [1..n -> [T -> T]] /\ base \in T
  <2>1. \A i \in 1..n : \A s \in T : s \o seqs[i] \in T
    BY <1>1, ConcatProperties
  <2>. QED
    BY <1>1, <2>1
<1>3. PICK f \in [1..n -> T] : Computes(f, n, base, step)
  <2>. HIDE DEF n, T, base, step
  <2>. QED
    BY <1>1, <1>2, Recursion
<1>4. \A i \in 1..n : f[i] = IF i = 1 THEN seqs[i] ELSE f[i - 1] \o seqs[i]
  <2>. SUFFICES ASSUME NEW i \in 1..n
                PROVE  f[i] = IF i = 1 THEN seqs[i] ELSE f[i - 1] \o seqs[i]
    OBVIOUS
  <2>1. f[i] = IF i = 1 THEN base ELSE step[i][f[i - 1]]
    BY <1>3 DEF Computes
  <2>2. CASE i = 1
    BY <2>1, <2>2
  <2>3. CASE i # 1
    <3>1. i - 1 \in 1..n
      BY <1>1, <2>3
    <3>2. f[i - 1] \in T
      BY <3>1
    <3>3. step[i][f[i - 1]] = f[i - 1] \o seqs[i]
      BY <3>2
    <3>. QED
      BY <2>1, <2>3, <3>3
  <2>. QED
    BY <2>2, <2>3
<1>5. Eq(f)
  BY <1>4
<1>6. Eq(flatten)
  <2>. HIDE DEF Eq
  <2>. QED
    BY <1>5
<1>. HIDE DEF flatten
<1>7. /\ flatten = [i \in 1..n |-> flatten[i]]
      /\ \A i \in 1..n :
           flatten[i] = IF i = 1 THEN seqs[i] ELSE flatten[i - 1] \o seqs[i]
  BY <1>6
<1>8. \A i \in 1..n : flatten[i] \in T
  <2>1. ASSUME NEW i \in 1..n, i = 1 \/ flatten[i - 1] \in T
        PROVE  flatten[i] \in T
    <3>1. flatten[i] = IF i = 1 THEN seqs[i] ELSE flatten[i - 1] \o seqs[i]
      BY <1>7
    <3>2. seqs[i] \in T
      BY <1>1
    <3>3. i # 1 => flatten[i - 1] \o seqs[i] \in T
      BY <2>1, <3>2, ConcatProperties
    <3>. QED
      BY <3>1, <3>2, <3>3
  <2>. HIDE DEF n, T
  <2>. QED
    BY <1>1, <2>1, Computed
<1>9. FlattenSeq(seqs) = flatten[n]
  BY <1>1 DEF FlattenSeq, flatten
<1>. QED
  BY <1>1, <1>7, <1>8, <1>9

\* The elements of the sequences that are put behind each other are the elements
\* of what comes out.
LEMMA Flattened ==
  ASSUME NEW S, NEW seqs \in Seq(Seq(S))
  PROVE  FlattenSeq(seqs) \in Seq(S)
<1>1. CASE seqs = <<>>
  BY <1>1 DEF FlattenSeq
<1>2. CASE seqs # <<>>
  <2>1. Len(seqs) \in 1..Len(seqs)
    BY <1>2, EmptySeq
  <2>2. PICK f \in [1..Len(seqs) -> Seq(S)] : FlattenSeq(seqs) = f[Len(seqs)]
    BY <1>2, FlattenSteps
  <2>. QED
    BY <2>1, <2>2
<1>. QED
  BY <1>1, <1>2

\* Sequences of one length.
LEMMA FlattenedLen ==
  ASSUME NEW S, NEW seqs \in Seq(Seq(S)), NEW c \in Nat,
         \A i \in 1..Len(seqs) : Len(seqs[i]) = c
  PROVE  Len(FlattenSeq(seqs)) = c * Len(seqs)
<1>. DEFINE n == Len(seqs)
<1>1. CASE seqs = <<>>
  BY <1>1 DEF FlattenSeq
<1>2. CASE seqs # <<>>
  <2>1. n \in Nat \ {0} /\ 1 \in 1..n /\ n \in 1..n
    BY <1>2, EmptySeq
  <2>2. PICK f \in [1..n -> Seq(S)] :
          /\ FlattenSeq(seqs) = f[n]
          /\ f[1] = seqs[1]
          /\ \A i \in 1..n : i # 1 => f[i] = f[i - 1] \o seqs[i]
    BY <1>2, FlattenSteps
  <2>. DEFINE Ok == {k \in Nat : k \in 1..n => Len(f[k]) = c * k}
  <2>3. 0 \in Ok
    OBVIOUS
  <2>4. ASSUME NEW k \in Nat, k \in Ok PROVE k + 1 \in Ok
    <3>. SUFFICES ASSUME k + 1 \in 1..n PROVE Len(f[k + 1]) = c * (k + 1)
      OBVIOUS
    <3>1. CASE k = 0
      BY <2>1, <2>2, <3>1
    <3>2. CASE k # 0
      <4>1. k \in 1..n /\ k + 1 # 1 /\ (k + 1) - 1 = k
        BY <3>2
      <4>2. f[k + 1] = f[k] \o seqs[k + 1]
        BY <2>2, <4>1
      <4>3. f[k] \in Seq(S) /\ seqs[k + 1] \in Seq(S)
        <5>1. \A i \in 1..n : seqs[i] \in Seq(S) /\ f[i] \in Seq(S)
          OBVIOUS
        <5>. QED
          BY <4>1, <5>1, Zenon
      <4>4. Len(f[k + 1]) = Len(f[k]) + Len(seqs[k + 1])
        <5>. DEFINE a == f[k]
                    b == seqs[k + 1]
        <5>1. a \in Seq(S) /\ b \in Seq(S) /\ f[k + 1] = a \o b
          BY <4>2, <4>3
        <5>. HIDE DEF a, b
        <5>2. Len(f[k + 1]) = Len(a) + Len(b)
          BY <5>1, ConcatProperties
        <5>. QED
          BY <5>2 DEF a, b
      <4>5. Len(f[k]) = c * k /\ Len(seqs[k + 1]) = c
        BY <2>4, <4>1
      <4>6. c * (k + 1) = c * k + c
        OBVIOUS
      <4>. QED
        BY <4>4, <4>5, <4>6
    <3>. QED
      BY <3>1, <3>2
  <2>5. n \in Ok
    <3>. HIDE DEF Ok, n
    <3>. QED
      BY <2>1, <2>3, <2>4, Inductive
  <2>. QED
    BY <2>1, <2>2, <2>5
<1>. QED
  BY <1>1, <1>2

\* What the first sequence has and each one that is put behind keeps.
LEMMA FlattenedIn ==
  ASSUME NEW S, NEW seqs \in Seq(Seq(S)), seqs # <<>>,
         NEW T, seqs[1] \in T,
         \A s \in T, i \in 1..Len(seqs) : s \o seqs[i] \in T
  PROVE  FlattenSeq(seqs) \in T
<1>. DEFINE n == Len(seqs)
<1>1. n \in Nat \ {0} /\ n \in 1..n
  BY EmptySeq
<1>2. PICK f \in [1..n -> Seq(S)] :
        /\ FlattenSeq(seqs) = f[n]
        /\ f[1] = seqs[1]
        /\ \A i \in 1..n : i # 1 => f[i] = f[i - 1] \o seqs[i]
  BY FlattenSteps
<1>3. ASSUME NEW i \in 1..n, i = 1 \/ f[i - 1] \in T PROVE f[i] \in T
  BY <1>2, <1>3
<1>4. \A i \in 1..n : f[i] \in T
  <2>. HIDE DEF n
  <2>. QED
    BY <1>1, <1>3, Computed
<1>. QED
  BY <1>1, <1>2, <1>4

\* A function that is computed from its values at smaller arguments.
Descends(f, D, Stop, prev, base, step) ==
  \A x \in D : f[x] = IF x \in Stop THEN base[x] ELSE step[x][f[prev[x]]]

\* A function that is so computed exists.
LEMMA RecursionDown ==
  ASSUME NEW D, NEW T, NEW size \in [D -> Nat], NEW Stop, NEW prev \in [D -> D],
         NEW base \in [D -> T], NEW step \in [D -> [T -> T]],
         \A x \in D : x \notin Stop => size[prev[x]] < size[x]
  PROVE  \E f \in [D -> T] : Descends(f, D, Stop, prev, base, step)
<1>. DEFINE From(f, x) == IF x \in Stop THEN base[x] ELSE step[x][f[prev[x]]]
            Good(k) == {g \in [D -> T] : \A x \in D : size[x] < k => g[x] = From(g, x)}
<1>1. \A f \in [D -> T], x \in D : From(f, x) \in T
  OBVIOUS
<1>2. ASSUME NEW g \in [D -> T], NEW h \in [D -> T], NEW x \in D,
             x \notin Stop => g[prev[x]] = h[prev[x]]
      PROVE  From(g, x) = From(h, x)
  BY <1>2
<1>3. \A x \in D : size[x] \in Nat /\ prev[x] \in D /\ size[prev[x]] \in Nat
  OBVIOUS
<1>. HIDE DEF From
<1>4. \A k \in Nat : Good(k) # {}
  <2>. DEFINE Ok == {k \in Nat : Good(k) # {}}
  <2>1. 0 \in Ok
    BY <1>3
  <2>2. ASSUME NEW k \in Nat, k \in Ok PROVE k + 1 \in Ok
    <3>1. PICK g \in Good(k) : TRUE
      BY <2>2
    <3>. DEFINE h == [x \in D |-> From(g, x)]
    <3>2. h \in [D -> T]
      BY <1>1
    <3>3. ASSUME NEW x \in D, size[x] < k + 1 PROVE h[x] = From(h, x)
      <4>1. h[x] = From(g, x)
        OBVIOUS
      <4>2. x \notin Stop => g[prev[x]] = h[prev[x]]
        <5>. SUFFICES ASSUME x \notin Stop PROVE g[prev[x]] = h[prev[x]]
          OBVIOUS
        <5>1. prev[x] \in D /\ size[prev[x]] < k
          BY <1>3, <3>3
        <5>2. g[prev[x]] = From(g, prev[x])
          BY <5>1
        <5>. QED
          BY <5>1, <5>2
      <4>. HIDE DEF h
      <4>. QED
        BY <1>2, <3>2, <4>1, <4>2
    <3>. HIDE DEF h
    <3>4. h \in Good(k + 1)
      BY <3>2, <3>3
    <3>. QED
      BY <3>4
  <2>3. Nat \subseteq Ok
    <3>. HIDE DEF Ok
    <3>. QED
      BY <2>1, <2>2, Inductive
  <2>. QED
    BY <2>3
<1>5. ASSUME NEW k \in Nat, NEW g \in Good(k), NEW h \in Good(k)
      PROVE  \A x \in D : size[x] < k => g[x] = h[x]
  <2>. DEFINE Ok == {j \in Nat : \A x \in D : size[x] < k /\ size[x] < j => g[x] = h[x]}
  <2>1. 0 \in Ok
    BY <1>3
  <2>2. ASSUME NEW j \in Nat, j \in Ok PROVE j + 1 \in Ok
    <3>1. ASSUME NEW x \in D, size[x] < k, size[x] < j + 1 PROVE g[x] = h[x]
      <4>1. g[x] = From(g, x) /\ h[x] = From(h, x)
        BY <3>1
      <4>2. x \notin Stop => g[prev[x]] = h[prev[x]]
        <5>. SUFFICES ASSUME x \notin Stop PROVE g[prev[x]] = h[prev[x]]
          OBVIOUS
        <5>1. prev[x] \in D /\ size[prev[x]] < k /\ size[prev[x]] < j
          BY <1>3, <3>1
        <5>. QED
          BY <2>2, <5>1
      <4>. QED
        BY <1>2, <4>1, <4>2
    <3>. QED
      BY <3>1
  <2>3. Nat \subseteq Ok
    <3>. HIDE DEF Ok
    <3>. QED
      BY <2>1, <2>2, Inductive
  <2>4. k \in Ok
    BY <2>3
  <2>. QED
    BY <2>4
<1>6. ASSUME NEW j \in Nat, NEW k \in Nat, j <= k PROVE Good(k) \subseteq Good(j)
  BY <1>3, <1>6
<1>. DEFINE pick(x) == CHOOSE g : g \in Good(size[x] + 1)
            f == [x \in D |-> pick(x)[x]]
<1>7. ASSUME NEW x \in D PROVE pick(x) \in Good(size[x] + 1) /\ pick(x) \in [D -> T]
  <2>1. size[x] + 1 \in Nat
    BY <1>3
  <2>2. pick(x) \in Good(size[x] + 1)
    <3>. HIDE DEF Good
    <3>. QED
      BY <1>4, <2>1
  <2>. HIDE DEF pick
  <2>. QED
    BY <2>2
<1>. HIDE DEF pick
<1>8. f \in [D -> T]
  BY <1>7
<1>9. ASSUME NEW x \in D PROVE f[x] = From(f, x)
  <2>1. f[x] = From(pick(x), x)
    <3>1. pick(x)[x] = From(pick(x), x)
      BY <1>3, <1>7
    <3>. QED
      BY <3>1
  <2>2. x \notin Stop => pick(x)[prev[x]] = f[prev[x]]
    <3>. SUFFICES ASSUME x \notin Stop PROVE pick(x)[prev[x]] = f[prev[x]]
      OBVIOUS
    <3>1. /\ prev[x] \in D /\ size[prev[x]] + 1 \in Nat /\ size[x] + 1 \in Nat
          /\ size[prev[x]] + 1 <= size[x] + 1 /\ size[prev[x]] < size[prev[x]] + 1
      BY <1>3
    <3>2. pick(x) \in Good(size[prev[x]] + 1) /\ pick(prev[x]) \in Good(size[prev[x]] + 1)
      <4>. HIDE DEF Good
      <4>. QED
        BY <1>6, <1>7, <3>1
    <3>3. pick(x)[prev[x]] = pick(prev[x])[prev[x]]
      <4>. HIDE DEF Good
      <4>. QED
        BY <1>5, <3>1, <3>2
    <3>. QED
      BY <3>1, <3>3
  <2>. HIDE DEF f
  <2>. QED
    BY <1>2, <1>7, <1>8, <2>1, <2>2
<1>. HIDE DEF f
<1>. QED
  BY <1>8, <1>9 DEF From, Descends

\* Induction, for things that have a size.
LEMMA SmallerFirst ==
  ASSUME NEW D, NEW size \in [D -> Nat], NEW S,
         \A x \in D : (\A y \in D : size[y] < size[x] => y \in S) => x \in S
  PROVE  D \subseteq S
<1>. DEFINE Ok == {k \in Nat : \A x \in D : size[x] < k => x \in S}
<1>0. \A x \in D : size[x] \in Nat
  OBVIOUS
<1>1. 0 \in Ok
  BY <1>0
<1>2. ASSUME NEW k \in Nat, k \in Ok PROVE k + 1 \in Ok
  <2>1. ASSUME NEW x \in D, size[x] < k + 1 PROVE x \in S
    <3>1. \A y \in D : size[y] < size[x] => size[y] < k
      BY <1>0, <2>1
    <3>2. \A y \in D : size[y] < size[x] => y \in S
      BY <1>2, <3>1
    <3>. QED
      BY <3>2
  <2>. QED
    BY <2>1
<1>3. Nat \subseteq Ok
  <2>. HIDE DEF Ok
  <2>. QED
    BY <1>1, <1>2, Inductive
<1>4. ASSUME NEW x \in D PROVE x \in S
  <2>1. size[x] + 1 \in Ok /\ size[x] < size[x] + 1
    BY <1>0, <1>3
  <2>. QED
    BY <2>1
<1>. QED
  BY <1>4

\* A function that is computed from 0 upwards.
Ascends(f, n, base, step) ==
  \A i \in 0..n : f[i] = IF i = 0 THEN base ELSE step[i][f[i - 1]]

\* A function that is so computed exists, too.
LEMMA RecursionUp ==
  ASSUME NEW n \in Nat, NEW T, NEW base \in T, NEW step \in [1..n -> [T -> T]]
  PROVE  \E f \in [0..n -> T] : Ascends(f, n, base, step)
<1>. DEFINE D == 0..n
            size == [i \in D |-> i]
            prev == [i \in D |-> IF i = 0 THEN 0 ELSE i - 1]
            first == [i \in D |-> base]
            next == [i \in D |-> IF i = 0 THEN [t \in T |-> t] ELSE step[i]]
            Stop == {0}
<1>1. /\ size \in [D -> Nat] /\ prev \in [D -> D] /\ first \in [D -> T]
      /\ n \in Nat
  OBVIOUS
<1>2. next \in [D -> [T -> T]]
  <2>1. \A i \in D : i # 0 => step[i] \in [T -> T]
    OBVIOUS
  <2>2. [t \in T |-> t] \in [T -> T]
    OBVIOUS
  <2>. QED
    BY <2>1, <2>2
<1>3. \A x \in D : x \notin Stop => size[prev[x]] < size[x]
  OBVIOUS
<1>4. /\ \A i \in D : first[i] = base
      /\ \A i \in D : i # 0 => prev[i] = i - 1 /\ next[i] = step[i]
  OBVIOUS
<1>. HIDE DEF D, size, prev, first, next, Stop
<1>5. PICK f \in [D -> T] : Descends(f, D, Stop, prev, first, next)
  BY <1>1, <1>2, <1>3, RecursionDown
<1>6. \A x \in D : f[x] = IF x \in Stop THEN first[x] ELSE next[x][f[prev[x]]]
  BY <1>5 DEF Descends
<1>7. \A i \in D : f[i] = IF i = 0 THEN base ELSE step[i][f[i - 1]]
  BY <1>4, <1>6 DEF Stop
<1>. QED
  BY <1>7 DEF D, Ascends

\* Induction over the positions up to n.
LEMMA UpToTop ==
  ASSUME NEW n \in Nat, NEW S, 0 \in S, \A i \in 1..n : i - 1 \in S => i \in S
  PROVE  \A i \in 0..n : i \in S
<1>. DEFINE Ok == {k \in Nat : k <= n => k \in S}
<1>1. 0 \in Ok
  OBVIOUS
<1>2. ASSUME NEW k \in Nat, k \in Ok PROVE k + 1 \in Ok
  <2>. SUFFICES ASSUME k + 1 <= n PROVE k + 1 \in S
    OBVIOUS
  <2>1. k + 1 \in 1..n /\ (k + 1) - 1 = k /\ k \in S
    BY <1>2
  <2>. QED
    BY <2>1
<1>3. Nat \subseteq Ok
  <2>. HIDE DEF Ok
  <2>. QED
    BY <1>1, <1>2, Inductive
<1>. QED
  BY <1>3
=============================================================================
