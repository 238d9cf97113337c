--------------------------- MODULE FixWriterProofs ---------------------------
(***************************************************************************)
(* Theorems about FixWriter and Conversions for every width of a number    *)
(* and every set of ids and sequence numbers.                              *)
(***************************************************************************)
EXTENDS FixWriter, QueueLemmas

(***************************************************************************)
(* Numbers of W bits.                                                      *)
(***************************************************************************)

\* What Power computes.
LEMMA Powers ==
  ASSUME NEW b \in Int
  PROVE  /\ Power(b) \in [Nat -> Int]
         /\ Power(b)[0] = 1
         /\ \A k \in Nat : Power(b)[k + 1] = b * Power(b)[k]
<1>. DEFINE Eq(f) == f = [k \in Nat |-> IF k = 0 THEN 1 ELSE b * f[k - 1]]
            power == CHOOSE f : Eq(f)
            size == [k \in Nat |-> k]
            prev == [k \in Nat |-> IF k = 0 THEN 0 ELSE k - 1]
            base == [k \in Nat |-> 1]
            step == [k \in Nat |-> [x \in Int |-> b * x]]
            Stop == {0}
<1>1. /\ size \in [Nat -> Nat] /\ prev \in [Nat -> Nat] /\ base \in [Nat -> Int]
      /\ step \in [Nat -> [Int -> Int]]
  <2>1. \A x \in Int : b * x \in Int
    OBVIOUS
  <2>. QED
    BY <2>1
<1>2. \A k \in Nat : k \notin Stop => size[prev[k]] < size[k]
  OBVIOUS
<1>3. /\ \A k \in Nat : base[k] = 1 /\ \A x \in Int : step[k][x] = b * x
      /\ \A k \in Nat : k # 0 => prev[k] = k - 1
  OBVIOUS
<1>4. PICK f \in [Nat -> Int] : Descends(f, Nat, Stop, prev, base, step)
  <2>. HIDE DEF size, prev, base, step, Stop
  <2>. QED
    BY <1>1, <1>2, RecursionDown
<1>5. \A k \in Nat : f[k] = IF k \in Stop THEN base[k] ELSE step[k][f[prev[k]]]
  BY <1>4 DEF Descends
<1>. HIDE DEF prev, base, step
<1>6. \A k \in Nat : f[k] = IF k = 0 THEN 1 ELSE b * f[k - 1]
  <2>1. ASSUME NEW k \in Nat, k # 0 PROVE step[k][f[prev[k]]] = b * f[k - 1]
    <3>1. f[k - 1] \in Int /\ prev[k] = k - 1
      BY <1>3, <2>1
    <3>. QED
      BY <1>3, <3>1
  <2>. QED
    BY <1>3, <1>5, <2>1
<1>7. Eq(f)
  BY <1>6
<1>8. Eq(power)
  <2>. HIDE DEF Eq
  <2>. QED
    BY <1>7
<1>. HIDE DEF power
<1>9. /\ power = [k \in Nat |-> power[k]]
      /\ \A k \in Nat : power[k] = IF k = 0 THEN 1 ELSE b * power[k - 1]
  BY <1>8
<1>10. power[0] = 1
  BY <1>9
<1>11. \A k \in Nat : power[k + 1] = b * power[k]
  <2>1. ASSUME NEW k \in Nat PROVE power[k + 1] = b * power[k]
    <3>1. k + 1 \in Nat /\ k + 1 # 0 /\ (k + 1) - 1 = k
      OBVIOUS
    <3>2. power[k + 1] = b * power[(k + 1) - 1]
      BY <1>9, <3>1, Zenon
    <3>. QED
      BY <3>1, <3>2, Zenon
  <2>. QED
    BY <2>1
<1>12. \A k \in Nat : power[k] \in Int
  <2>. DEFINE Ok == {k \in Nat : power[k] \in Int}
  <2>1. 0 \in Ok /\ \A k \in Nat : k \in Ok => k + 1 \in Ok
    BY <1>10, <1>11
  <2>. HIDE DEF Ok
  <2>2. Nat \subseteq Ok
    BY <2>1, Inductive
  <2>. QED
    BY <2>2 DEF Ok
<1>13. Power(b) = power
  BY DEF Power, power
<1>. QED
  BY <1>9, <1>10, <1>11, <1>12, <1>13

\* Powers grow.
LEMMA PowersGrow ==
  ASSUME NEW b \in Nat \ {0, 1}
  PROVE  /\ \A k \in Nat : Power(b)[k] \in Nat /\ Power(b)[k] > k
         /\ \A j, k \in Nat : j <= k => Power(b)[j] <= Power(b)[k]
<1>. DEFINE p == Power(b)
<1>1. /\ p \in [Nat -> Int] /\ p[0] = 1
      /\ \A k \in Nat : p[k] \in Int /\ p[k + 1] = b * p[k]
  BY Powers
<1>. HIDE DEF p
<1>2. ASSUME NEW k \in Nat, p[k] \in Nat \ {0}
      PROVE  p[k + 1] \in Nat \ {0} /\ p[k + 1] > p[k]
  <2>. DEFINE x == p[k]
  <2>1. x \in Nat \ {0} /\ p[k + 1] = b * x
    BY <1>1, <1>2
  <2>. HIDE DEF x
  <2>2. b * x >= 2 * x
    BY <2>1
  <2>3. b * x \in Int
    BY <2>1
  <2>4. b * x > x
    BY <2>1, <2>2, <2>3
  <2>. QED
    BY <2>1, <2>3, <2>4 DEF x
<1>3. \A k \in Nat : p[k] \in Nat \ {0} /\ p[k] > k
  <2>. DEFINE Ok == {k \in Nat : p[k] \in Nat \ {0} /\ p[k] > k}
  <2>1. 0 \in Ok
    BY <1>1
  <2>2. ASSUME NEW k \in Nat, k \in Ok PROVE k + 1 \in Ok
    BY <1>2, <2>2
  <2>. HIDE DEF Ok
  <2>3. Nat \subseteq Ok
    BY <2>1, <2>2, Inductive
  <2>. QED
    BY <2>3 DEF Ok
<1>4. ASSUME NEW j \in Nat PROVE \A k \in Nat : j <= k => p[j] <= p[k]
  <2>. DEFINE Ok == {k \in Nat : j <= k => p[j] <= p[k]}
  <2>1. 0 \in Ok
    BY <1>3
  <2>2. ASSUME NEW k \in Nat, k \in Ok PROVE k + 1 \in Ok
    <3>1. CASE j <= k
      BY <1>2, <1>3, <2>2, <3>1
    <3>2. CASE ~(j <= k)
      <4>1. j <= k + 1 => j = k + 1
        BY <3>2
      <4>. QED
        BY <1>3, <4>1
    <3>. QED
      BY <3>1, <3>2
  <2>. HIDE DEF Ok
  <2>3. Nat \subseteq Ok
    BY <2>1, <2>2, Inductive
  <2>. QED
    BY <2>3 DEF Ok
<1>. QED
  BY <1>3, <1>4 DEF p

\* The powers of ten that lengths are compared with.
LEMMA PowersOfTen ==
  /\ Power(10)[0] = 1 /\ Power(10)[1] = 10 /\ Power(10)[2] = 100
  /\ Power(10)[3] = 1000 /\ Power(10)[4] = 10000
<1>1. /\ Power(10)[0] = 1
      /\ \A k \in Nat : Power(10)[k + 1] = 10 * Power(10)[k]
  BY Powers
<1>2. /\ Power(10)[0 + 1] = 10 * Power(10)[0] /\ Power(10)[1 + 1] = 10 * Power(10)[1]
      /\ Power(10)[2 + 1] = 10 * Power(10)[2] /\ Power(10)[3 + 1] = 10 * Power(10)[3]
  BY <1>1
<1>. QED
  BY <1>1, <1>2

\* A number of 32 bits has ten digits at most.
LEMMA TenDigits == \A n \in Nat : n <= 2147483647 => n < Power(10)[10]
<1>1. /\ Power(10)[0] = 1
      /\ \A k \in Nat : Power(10)[k + 1] = 10 * Power(10)[k]
  BY Powers
<1>2. /\ Power(10)[0 + 1] = 10 * Power(10)[0] /\ Power(10)[1 + 1] = 10 * Power(10)[1]
      /\ Power(10)[2 + 1] = 10 * Power(10)[2] /\ Power(10)[3 + 1] = 10 * Power(10)[3]
      /\ Power(10)[4 + 1] = 10 * Power(10)[4] /\ Power(10)[5 + 1] = 10 * Power(10)[5]
      /\ Power(10)[6 + 1] = 10 * Power(10)[6] /\ Power(10)[7 + 1] = 10 * Power(10)[7]
      /\ Power(10)[8 + 1] = 10 * Power(10)[8] /\ Power(10)[9 + 1] = 10 * Power(10)[9]
  BY <1>1
<1>. QED
  BY <1>1, <1>2

\* Half of the numbers are negative, and there are at least 256.
LEMMA HalfType == Half \in Nat /\ Half >= 128
<1>1. W - 1 \in Nat /\ 7 \in Nat /\ 7 <= W - 1
  BY WidthAssumption DEF WidthAssumption
<1>2. Power(2)[7] = 128
  <2>1. /\ Power(2)[0] = 1
        /\ \A k \in Nat : Power(2)[k + 1] = 2 * Power(2)[k]
    BY Powers
  <2>2. /\ Power(2)[0 + 1] = 2 * Power(2)[0] /\ Power(2)[1 + 1] = 2 * Power(2)[1]
        /\ Power(2)[2 + 1] = 2 * Power(2)[2] /\ Power(2)[3 + 1] = 2 * Power(2)[3]
        /\ Power(2)[4 + 1] = 2 * Power(2)[4] /\ Power(2)[5 + 1] = 2 * Power(2)[5]
        /\ Power(2)[6 + 1] = 2 * Power(2)[6]
    BY <2>1
  <2>. QED
    BY <2>1, <2>2
<1>3. Power(2)[W - 1] \in Nat /\ Power(2)[7] <= Power(2)[W - 1]
  BY <1>1, PowersGrow
<1>. QED
  BY <1>2, <1>3 DEF Half

\* A remainder that is one already.
LEMMA SmallRemainder ==
  ASSUME NEW m \in Nat \ {0}, NEW x \in 0..m - 1
  PROVE  x % m = x
OBVIOUS

\* Overflow leaves what fits as it is, and leaves nothing that does not fit.
LEMMA Wraps ==
  /\ \A n \in Int : Wrap(n) \in Ints
  /\ \A n \in Ints : n \in Int /\ Wrap(n) = n
  /\ Wrap(Half) = -Half
<1>. DEFINE h == Half
<1>1. h \in Nat /\ h >= 128
  BY HalfType
<1>. HIDE DEF h
<1>2. ASSUME NEW n \in Int PROVE (n + h) % (2 * h) \in 0..2 * h - 1
  BY <1>1
<1>3. ASSUME NEW n \in -h..h - 1 PROVE n \in Int /\ (n + h) % (2 * h) = n + h
  <2>1. 2 * h \in Nat \ {0} /\ n + h \in 0..2 * h - 1 /\ n \in Int
    BY <1>1
  <2>. QED
    BY <2>1, SmallRemainder
<1>4. (h + h) % (2 * h) = 0
  BY <1>1
<1>5. \A n \in Int : ((n + h) % (2 * h)) - h \in -h..h - 1
  <2>1. ASSUME NEW n \in Int PROVE ((n + h) % (2 * h)) - h \in -h..h - 1
    <3>. DEFINE r == (n + h) % (2 * h)
    <3>1. r \in 0..2 * h - 1
      BY <1>2
    <3>. HIDE DEF r
    <3>2. r - h \in -h..h - 1
      BY <1>1, <3>1
    <3>. QED
      BY <3>2 DEF r
  <2>. QED
    BY <2>1
<1>6. \A n \in -h..h - 1 : n \in Int /\ ((n + h) % (2 * h)) - h = n
  <2>1. ASSUME NEW n \in -h..h - 1 PROVE n \in Int /\ ((n + h) % (2 * h)) - h = n
    BY <1>1, <1>3
  <2>. QED
    BY <2>1
<1>7. ((h + h) % (2 * h)) - h = -h
  BY <1>1, <1>4
<1>. QED
  BY <1>5, <1>6, <1>7 DEF Wrap, Ints, h

\* What the rest needs to know of the largest int.
LEMMA IntMaxType == INT_MAX \in Nat /\ INT_MAX >= 1000 /\ INT_MAX + 1 = 2147483648
BY SMT DEF INT_MAX

\* Overflow of an int does the same.
LEMMA IntWraps ==
  /\ \A n \in Int : WrapInt(n) \in Int32
  /\ \A n \in Int32 : n \in Int /\ WrapInt(n) = n
  /\ WrapInt(INT_MAX + 1) = -INT_MAX - 1
<1>. DEFINE h == INT_MAX + 1
            m == 2 * INT_MAX + 2
<1>1. INT_MAX \in Nat
  BY IntMaxType
<1>2. h \in Nat /\ h >= 1 /\ m = 2 * h
  BY <1>1
<1>3. Int32 = -h..h - 1
  <2>1. -INT_MAX - 1 = -h /\ INT_MAX = h - 1
    BY <1>1
  <2>. QED
    BY <2>1, Zenon DEF Int32
<1>4. \A n \in Int : n + INT_MAX + 1 = n + h /\ WrapInt(n) =
        IF n \in Int32 THEN n ELSE ((n + h) % (2 * h)) - h
  <2>. SUFFICES ASSUME NEW n \in Int
                PROVE  n + INT_MAX + 1 = n + h /\ WrapInt(n) =
                         IF n \in Int32 THEN n ELSE ((n + h) % (2 * h)) - h
    OBVIOUS
  <2>1. n + INT_MAX + 1 = n + h
    BY <1>1
  <2>. DEFINE r == (n + h) % (2 * h)
  <2>2. r \in Int
    BY <1>2
  <2>3. (n + INT_MAX + 1) % (2 * INT_MAX + 2) = r
    BY <1>2, <2>1
  <2>. HIDE DEF r
  <2>4. r - INT_MAX - 1 = r - h
    BY <1>1, <2>2
  <2>5. WrapInt(n) = IF n \in Int32 THEN n ELSE r - INT_MAX - 1
    BY <2>3, Zenon DEF WrapInt
  <2>. HIDE DEF h
  <2>. QED
    BY <2>1, <2>4, <2>5, Zenon DEF r
<1>. HIDE DEF h, m
<1>5. ASSUME NEW n \in Int PROVE WrapInt(n) \in Int32
  <2>. DEFINE r == (n + h) % (2 * h)
  <2>1. r \in 0..2 * h - 1
    BY <1>2
  <2>. HIDE DEF r
  <2>2. r - h \in -h..h - 1
    BY <1>2, <2>1
  <2>3. WrapInt(n) = IF n \in Int32 THEN n ELSE r - h
    BY <1>4 DEF r
  <2>. QED
    BY <1>3, <2>2, <2>3
<1>6. \A n \in Int32 : n \in Int /\ WrapInt(n) = n
  BY <1>2, <1>3, <1>4
<1>7. WrapInt(h) = -h
  <2>1. h \notin -h..h - 1 /\ (h + h) % (2 * h) = 0 /\ h \in Int
    BY <1>2
  <2>2. WrapInt(h) = ((h + h) % (2 * h)) - h
    BY <1>3, <1>4, <2>1
  <2>. QED
    BY <1>2, <2>1, <2>2
<1>8. INT_MAX + 1 = h /\ -INT_MAX - 1 = -h
  BY <1>1 DEF h
<1>. QED
  BY <1>5, <1>6, <1>7, <1>8, Zenon

\* A number of less than 32 bits is an int, and so is what it is with the sign
\* turned; one of 32 bits is just an int.
LEMMA NarrowHalf ==
  /\ W < 32 => Half <= INT_MAX
  /\ W = 32 => Half = INT_MAX + 1
  /\ W > 32 => Half > INT_MAX + 1
<1>1. Power(2)[31] = INT_MAX + 1
  <2>1. /\ Power(2)[0] = 1
        /\ \A k \in Nat : Power(2)[k + 1] = 2 * Power(2)[k]
    BY Powers
  <2>2. /\ Power(2)[0 + 1] = 2 * Power(2)[0] /\ Power(2)[1 + 1] = 2 * Power(2)[1]
        /\ Power(2)[2 + 1] = 2 * Power(2)[2] /\ Power(2)[3 + 1] = 2 * Power(2)[3]
        /\ Power(2)[4 + 1] = 2 * Power(2)[4] /\ Power(2)[5 + 1] = 2 * Power(2)[5]
        /\ Power(2)[6 + 1] = 2 * Power(2)[6] /\ Power(2)[7 + 1] = 2 * Power(2)[7]
    BY <2>1
  <2>3. Power(2)[8] = 256
    BY <2>1, <2>2
  <2>4. /\ Power(2)[8 + 1] = 2 * Power(2)[8] /\ Power(2)[9 + 1] = 2 * Power(2)[9]
        /\ Power(2)[10 + 1] = 2 * Power(2)[10] /\ Power(2)[11 + 1] = 2 * Power(2)[11]
        /\ Power(2)[12 + 1] = 2 * Power(2)[12] /\ Power(2)[13 + 1] = 2 * Power(2)[13]
        /\ Power(2)[14 + 1] = 2 * Power(2)[14] /\ Power(2)[15 + 1] = 2 * Power(2)[15]
    BY <2>1
  <2>5. Power(2)[16] = 65536
    BY <2>3, <2>4
  <2>6. /\ Power(2)[16 + 1] = 2 * Power(2)[16] /\ Power(2)[17 + 1] = 2 * Power(2)[17]
        /\ Power(2)[18 + 1] = 2 * Power(2)[18] /\ Power(2)[19 + 1] = 2 * Power(2)[19]
        /\ Power(2)[20 + 1] = 2 * Power(2)[20] /\ Power(2)[21 + 1] = 2 * Power(2)[21]
        /\ Power(2)[22 + 1] = 2 * Power(2)[22] /\ Power(2)[23 + 1] = 2 * Power(2)[23]
    BY <2>1
  <2>7. Power(2)[24] = 16777216
    BY <2>5, <2>6
  <2>8. /\ Power(2)[24 + 1] = 2 * Power(2)[24] /\ Power(2)[25 + 1] = 2 * Power(2)[25]
        /\ Power(2)[26 + 1] = 2 * Power(2)[26] /\ Power(2)[27 + 1] = 2 * Power(2)[27]
        /\ Power(2)[28 + 1] = 2 * Power(2)[28] /\ Power(2)[29 + 1] = 2 * Power(2)[29]
        /\ Power(2)[30 + 1] = 2 * Power(2)[30]
    BY <2>1
  <2>9. Power(2)[31] = 2147483648
    BY <2>7, <2>8
  <2>. QED
    BY <2>9, IntMaxType, SMT
<1>2. Power(2)[32] = 2 * Power(2)[31]
  <2>1. Power(2)[31 + 1] = 2 * Power(2)[31]
    BY Powers
  <2>. QED
    BY <2>1
<1>3. W = 64 => Half >= Power(2)[32]
  <2>1. 63 \in Nat /\ 32 \in Nat /\ 32 <= 63
    OBVIOUS
  <2>2. Power(2)[63] \in Nat /\ Power(2)[32] \in Nat /\ Power(2)[32] <= Power(2)[63]
    BY <2>1, PowersGrow
  <2>3. W = 64 => Half = Power(2)[63]
    BY DEF Half
  <2>. QED
    BY <2>2, <2>3
<1>4. W = 32 => Half = Power(2)[31]
  BY DEF Half
<1>5. W < 32 => Half <= INT_MAX
  <2>1. W < 32 => W - 1 \in Nat /\ 30 \in Nat /\ W - 1 <= 30
    BY WidthAssumption DEF WidthAssumption
  <2>2. W < 32 => Half \in Nat /\ Half <= Power(2)[30]
    BY <2>1, PowersGrow, HalfType DEF Half
  <2>3. Power(2)[30 + 1] = 2 * Power(2)[30] /\ Power(2)[30] \in Int
    BY Powers
  <2>. QED
    BY <1>1, <2>2, <2>3, IntMaxType, SMT
<1>6. W = 64 => Half > INT_MAX + 1
  BY <1>1, <1>2, <1>3, HalfType, IntMaxType, SMT
<1>7. W = 32 => Half = INT_MAX + 1
  BY <1>1, <1>4, Zenon
<1>8. /\ W < 32 \/ W = 32 \/ W = 64
      /\ (W = 64 => ~(W < 32) /\ W # 32) /\ (W = 32 => ~(W < 32) /\ ~(W > 32))
      /\ (W > 32 => W = 64)
  BY WidthAssumption DEF WidthAssumption
<1>. QED
  BY <1>5, <1>6, <1>7, <1>8, Zenon

(***************************************************************************)
(* Decimals.                                                               *)
(***************************************************************************)

\* What Digits computes.
LEMMA DigitsOf ==
  \A n \in Nat :
    /\ Digits[n] = IF n < 10 THEN <<n>> ELSE Append(Digits[n \div 10], n % 10)
    /\ Digits[n] \in Seq(0..9)
<1>. DEFINE T == Seq(0..9)
            Eq(f) == f = [n \in Nat |->
                            IF n < 10 THEN <<n>> ELSE Append(f[n \div 10], n % 10)]
            digits == CHOOSE f : Eq(f)
            size == [n \in Nat |-> n]
            prev == [n \in Nat |-> n \div 10]
            base == [n \in Nat |-> IF n < 10 THEN <<n>> ELSE <<>>]
            step == [n \in Nat |-> [s \in T |-> Append(s, n % 10)]]
            Stop == 0..9
<1>1. /\ \A n \in Nat : n \div 10 \in Nat /\ n % 10 \in 0..9
      /\ \A n \in Nat : n < 10 <=> n \in 0..9
      /\ \A n \in Nat : ~(n < 10) => n \div 10 < n
  OBVIOUS
<1>2. size \in [Nat -> Nat] /\ prev \in [Nat -> Nat]
  BY <1>1
<1>3. base \in [Nat -> T]
  <2>1. \A n \in Nat : n < 10 => <<n>> \in T
    BY <1>1
  <2>2. <<>> \in T
    OBVIOUS
  <2>. HIDE DEF T
  <2>. QED
    BY <2>1, <2>2
<1>0. /\ \A n \in Nat : n < 10 => <<n>> \in T
      /\ \A n \in Nat, s \in T : Append(s, n % 10) \in T
  BY <1>1
<1>4. step \in [Nat -> [T -> T]]
  <2>1. \A n \in Nat, s \in T : Append(s, n % 10) \in T
    BY <1>0
  <2>. HIDE DEF T
  <2>. QED
    BY <2>1
<1>5. \A n \in Nat : n \notin Stop => size[prev[n]] < size[n]
  BY <1>1
<1>6. PICK f \in [Nat -> T] : Descends(f, Nat, Stop, prev, base, step)
  <2>. HIDE DEF T, size, prev, base, step, Stop
  <2>. QED
    BY <1>2, <1>3, <1>4, <1>5, RecursionDown
<1>7. \A n \in Nat : f[n] = IF n \in Stop THEN base[n] ELSE step[n][f[prev[n]]]
  BY <1>6 DEF Descends
<1>8. ASSUME NEW n \in Nat
      PROVE  f[n] = IF n < 10 THEN <<n>> ELSE Append(f[n \div 10], n % 10)
  <2>1. CASE n < 10
    <3>1. n \in Stop /\ base[n] = <<n>>
      BY <1>1, <2>1
    <3>. QED
      BY <1>7, <2>1, <3>1
  <2>2. CASE ~(n < 10)
    <3>1. n \notin Stop /\ prev[n] = n \div 10 /\ n \div 10 \in Nat
      BY <1>1, <2>2
    <3>2. f[n \div 10] \in T
      BY <3>1
    <3>3. step[n][f[n \div 10]] = Append(f[n \div 10], n % 10)
      BY <3>2
    <3>. HIDE DEF prev, base, step, Stop
    <3>. QED
      BY <1>7, <2>2, <3>1, <3>3
  <2>. QED
    BY <2>1, <2>2
<1>9. Eq(f)
  BY <1>8
<1>10. Eq(digits)
  <2>. HIDE DEF Eq
  <2>. QED
    BY <1>9
<1>11. digits = Digits
  BY DEF Digits
<1>. HIDE DEF digits
<1>12. \A n \in Nat :
         digits[n] = IF n < 10 THEN <<n>> ELSE Append(digits[n \div 10], n % 10)
  <2>. SUFFICES ASSUME NEW n \in Nat
                PROVE  digits[n] = IF n < 10 THEN <<n>> ELSE Append(digits[n \div 10], n % 10)
    OBVIOUS
  <2>. QED
    BY <1>10, Zenon
<1>13. \A n \in Nat : digits[n] \in T
  <2>. DEFINE Ok == {n \in Nat : digits[n] \in T}
  <2>1. ASSUME NEW n \in Nat, \A m \in Nat : size[m] < size[n] => m \in Ok
        PROVE  n \in Ok
    <3>1. CASE n < 10
      <4>1. digits[n] = <<n>>
        BY <1>12, <3>1
      <4>. HIDE DEF T
      <4>. QED
        BY <1>0, <3>1, <4>1
    <3>2. CASE ~(n < 10)
      <4>1. n \div 10 \in Ok
        BY <1>1, <2>1, <3>2
      <4>2. digits[n] = Append(digits[n \div 10], n % 10)
        BY <1>12, <3>2
      <4>. HIDE DEF T
      <4>. QED
        BY <1>0, <4>1, <4>2
    <3>. QED
      BY <3>1, <3>2
  <2>. HIDE DEF Ok, size
  <2>2. Nat \subseteq Ok
    BY <1>2, <2>1, SmallerFirst
  <2>. QED
    BY <2>2 DEF Ok
<1>. QED
  BY <1>11, <1>12, <1>13

\* The last digit leaves the others, which are nearer to 0.
LEMMA Shorter ==
  \A n \in Int :
    /\ Quot(n, 10) \in Int /\ Rem(n, 10) \in -9..9
    /\ 10 * Quot(n, 10) + Rem(n, 10) = n
    /\ n >= 0 => /\ Quot(n, 10) = n \div 10 /\ Rem(n, 10) = n % 10
                 /\ Quot(n, 10) >= 0 /\ Rem(n, 10) >= 0
    /\ n > 0 => Quot(n, 10) < n
    /\ n < 0 => Quot(n, 10) > n /\ Quot(n, 10) <= 0
<1>. SUFFICES ASSUME NEW n \in Int
              PROVE  /\ Quot(n, 10) \in Int /\ Rem(n, 10) \in -9..9
                     /\ 10 * Quot(n, 10) + Rem(n, 10) = n
                     /\ n >= 0 => /\ Quot(n, 10) = n \div 10 /\ Rem(n, 10) = n % 10
                                  /\ Quot(n, 10) >= 0 /\ Rem(n, 10) >= 0
                     /\ n > 0 => Quot(n, 10) < n
                     /\ n < 0 => Quot(n, 10) > n /\ Quot(n, 10) <= 0
  OBVIOUS
<1>1. CASE n >= 0
  <2>1. Quot(n, 10) = n \div 10
    BY <1>1 DEF Quot
  <2>. QED
    BY <1>1, <2>1 DEF Rem
<1>2. CASE n < 0
  <2>1. Quot(n, 10) = -((-n) \div 10)
    BY <1>2 DEF Quot
  <2>. QED
    BY <1>2, <2>1 DEF Rem
<1>. QED
  BY <1>1, <1>2

\* What the loop of itoa computes.
LEMMA ReversedOf ==
  \A n \in Int :
    /\ Reversed[n] = IF n = 0 THEN <<>> ELSE <<48 + Rem(n, 10)>> \o Reversed[Quot(n, 10)]
    /\ Reversed[n] \in Seq(Int)
<1>. DEFINE T == Seq(Int)
            Eq(f) == f = [n \in Int |->
                            IF n = 0 THEN <<>> ELSE <<48 + Rem(n, 10)>> \o f[Quot(n, 10)]]
            reversed == CHOOSE f : Eq(f)
            size == [n \in Int |-> IF n < 0 THEN -n ELSE n]
            prev == [n \in Int |-> Quot(n, 10)]
            base == [n \in Int |-> <<>>]
            step == [n \in Int |-> [s \in T |-> <<48 + Rem(n, 10)>> \o s]]
            Stop == {0}
<1>1. size \in [Int -> Nat] /\ prev \in [Int -> Int]
  BY Shorter
<1>2. base \in [Int -> T]
  OBVIOUS
<1>3. \A n \in Int, s \in T : <<48 + Rem(n, 10)>> \o s \in T
  <2>. SUFFICES ASSUME NEW n \in Int, NEW s \in T
                PROVE  <<48 + Rem(n, 10)>> \o s \in T
    OBVIOUS
  <2>1. 48 + Rem(n, 10) \in Int
    <3>1. Rem(n, 10) \in -9..9
      BY Shorter
    <3>. DEFINE r == Rem(n, 10)
    <3>. HIDE DEF r
    <3>2. r \in -9..9
      BY <3>1 DEF r
    <3>3. 48 + r \in Int
      BY <3>2
    <3>. QED
      BY <3>3 DEF r
  <2>2. <<48 + Rem(n, 10)>> \in T
    BY <2>1
  <2>. QED
    BY <2>2, ConcatProperties
<1>4. step \in [Int -> [T -> T]]
  <2>. HIDE DEF T
  <2>. QED
    BY <1>3
<1>5. \A n \in Int : n \notin Stop => Quot(n, 10) \in Int /\ size[Quot(n, 10)] < size[n]
  <2>1. ASSUME NEW n \in Int, n \notin Stop
        PROVE  Quot(n, 10) \in Int /\ size[Quot(n, 10)] < size[n]
    <3>. DEFINE q == Quot(n, 10)
    <3>1. /\ q \in Int /\ n # 0
          /\ n >= 0 => q >= 0
          /\ n > 0 => q < n
          /\ n < 0 => q > n /\ q <= 0
      BY <2>1, Shorter
    <3>. HIDE DEF q
    <3>2. size[q] < size[n]
      BY <3>1
    <3>. QED
      BY <3>1, <3>2 DEF q
  <2>. QED
    BY <2>1
<1>6. \A n \in Int : n \notin Stop => size[prev[n]] < size[n]
  <2>. HIDE DEF size
  <2>. QED
    BY <1>5
<1>7. PICK f \in [Int -> T] : Descends(f, Int, Stop, prev, base, step)
  <2>. HIDE DEF T, size, prev, base, step, Stop
  <2>. QED
    BY <1>1, <1>2, <1>4, <1>6, RecursionDown
<1>8. \A n \in Int : f[n] = IF n \in Stop THEN base[n] ELSE step[n][f[prev[n]]]
  BY <1>7 DEF Descends
<1>9. ASSUME NEW n \in Int
      PROVE  f[n] = IF n = 0 THEN <<>> ELSE <<48 + Rem(n, 10)>> \o f[Quot(n, 10)]
  <2>1. prev[n] = Quot(n, 10) /\ f[Quot(n, 10)] \in T /\ base[n] = <<>>
    BY Shorter
  <2>2. step[n][f[Quot(n, 10)]] = <<48 + Rem(n, 10)>> \o f[Quot(n, 10)]
    BY <2>1
  <2>3. n \in Stop <=> n = 0
    OBVIOUS
  <2>. HIDE DEF prev, base, step, Stop
  <2>. QED
    BY <1>8, <2>1, <2>2, <2>3
<1>10. Eq(f)
  BY <1>9
<1>11. Eq(reversed)
  <2>. HIDE DEF Eq
  <2>. QED
    BY <1>10
<1>12. reversed = Reversed
  BY DEF Reversed
<1>. HIDE DEF reversed
<1>13. \A n \in Int :
         reversed[n] = IF n = 0 THEN <<>> ELSE <<48 + Rem(n, 10)>> \o reversed[Quot(n, 10)]
  <2>. SUFFICES ASSUME NEW n \in Int
                PROVE  reversed[n] = IF n = 0 THEN <<>>
                                     ELSE <<48 + Rem(n, 10)>> \o reversed[Quot(n, 10)]
    OBVIOUS
  <2>. QED
    BY <1>11, Zenon
<1>14. \A n \in Int : reversed[n] \in T
  <2>. DEFINE Ok == {n \in Int : reversed[n] \in T}
  <2>1. ASSUME NEW n \in Int, \A m \in Int : size[m] < size[n] => m \in Ok
        PROVE  n \in Ok
    <3>1. CASE n = 0
      <4>1. reversed[n] = <<>>
        BY <1>13, <3>1, Zenon
      <4>2. <<>> \in T
        OBVIOUS
      <4>. QED
        BY <4>1, <4>2, Zenon
    <3>2. CASE n # 0
      <4>1. Quot(n, 10) \in Ok
        <5>1. n \notin Stop
          BY <3>2
        <5>. HIDE DEF size, Stop, Ok
        <5>. QED
          BY <1>5, <2>1, <5>1
      <4>2. reversed[n] = <<48 + Rem(n, 10)>> \o reversed[Quot(n, 10)]
        BY <1>13, <3>2
      <4>. QED
        BY <1>3, <4>1, <4>2
    <3>. QED
      BY <3>1, <3>2
  <2>2. size \in [Int -> Nat]
    BY <1>1
  <2>. HIDE DEF Ok, size
  <2>3. Int \subseteq Ok
    BY <2>1, <2>2, SmallerFirst
  <2>. QED
    BY <2>3 DEF Ok
<1>. QED
  BY <1>12, <1>13, <1>14

\* What the loop of atoi computes.
LEMMA ValueSteps ==
  ASSUME NEW s \in Seq(Int)
  PROVE  \E f \in [0..Len(s) -> Int] :
           /\ Value(s) = f[Len(s)]
           /\ f[0] = 0
           /\ \A i \in 1..Len(s) : f[i] = WrapInt(10 * f[i - 1] + s[i] - 48)
<1>. DEFINE n == Len(s)
            Eq(f) == f = [i \in 0..n |-> IF i = 0 THEN 0 ELSE WrapInt(10 * f[i - 1] + s[i] - 48)]
            ret == CHOOSE f : Eq(f)
            step == [i \in 1..n |-> [x \in Int |-> WrapInt(10 * x + s[i] - 48)]]
            base == 0
<1>1. n \in Nat /\ \A i \in 1..n : s[i] \in Int
  OBVIOUS
<1>2. \A i \in 1..n, x \in Int : WrapInt(10 * x + s[i] - 48) \in Int
  <2>. SUFFICES ASSUME NEW i \in 1..n, NEW x \in Int
                PROVE  WrapInt(10 * x + s[i] - 48) \in Int
    OBVIOUS
  <2>1. 10 * x + s[i] - 48 \in Int
    BY <1>1
  <2>. QED
    BY <2>1, IntWraps
<1>3. step \in [1..n -> [Int -> Int]] /\ base \in Int
  BY <1>2
<1>4. \A i \in 1..n, x \in Int : step[i][x] = WrapInt(10 * x + s[i] - 48)
  OBVIOUS
<1>5. PICK f \in [0..n -> Int] : Ascends(f, n, base, step)
  <2>. HIDE DEF n, base, step
  <2>. QED
    BY <1>1, <1>3, RecursionUp
<1>6. \A i \in 0..n : f[i] = IF i = 0 THEN base ELSE step[i][f[i - 1]]
  BY <1>5 DEF Ascends
<1>. HIDE DEF n, step
<1>7. ASSUME NEW i \in 0..n
      PROVE  f[i] = IF i = 0 THEN 0 ELSE WrapInt(10 * f[i - 1] + s[i] - 48)
  <2>1. CASE i = 0
    BY <1>6, <2>1
  <2>2. CASE i # 0
    <3>1. i \in 1..n /\ f[i - 1] \in Int
      BY <1>1, <2>2
    <3>2. f[i] = step[i][f[i - 1]]
      BY <1>6, <2>2
    <3>. QED
      BY <1>4, <2>2, <3>1, <3>2
  <2>. QED
    BY <2>1, <2>2
<1>8. Eq(f)
  BY <1>7
<1>9. Eq(ret)
  <2>. HIDE DEF Eq
  <2>. QED
    BY <1>8
<1>10. Value(s) = ret[n]
  BY DEF Value, ret, n
<1>. HIDE DEF ret
<1>11. ret = [i \in 0..n |-> ret[i]]
  BY <1>9
<1>12. /\ ret[0] = 0
       /\ \A i \in 1..n : ret[i] = WrapInt(10 * ret[i - 1] + s[i] - 48)
  <2>1. 0 \in 0..n /\ \A i \in 1..n : i \in 0..n /\ i # 0
    BY <1>1
  <2>. QED
    BY <1>9, <2>1, Zenon
<1>13. \A i \in 0..n : ret[i] \in Int
  <2>. DEFINE Ok == {i \in 0..n : ret[i] \in Int}
  <2>1. 0 \in Ok
    BY <1>1, <1>12
  <2>2. \A i \in 1..n : i - 1 \in Ok => i \in Ok
    BY <1>1, <1>2, <1>12
  <2>. HIDE DEF Ok
  <2>3. \A i \in 0..n : i \in Ok
    BY <1>1, <2>1, <2>2, UpToTop
  <2>. QED
    BY <2>3 DEF Ok
<1>14. ret \in [0..n -> Int]
  BY <1>11, <1>13
<1>. QED
  BY <1>10, <1>12, <1>14 DEF n

\* One character more.
LEMMA ValueOf ==
  ASSUME NEW s \in Seq(Int)
  PROVE  /\ Value(s) \in Int
         /\ s = <<>> => Value(s) = 0
         /\ \A c \in Int : Value(Append(s, c)) = WrapInt(10 * Value(s) + c - 48)
<1>. DEFINE n == Len(s)
<1>1. n \in Nat
  OBVIOUS
<1>2. PICK f \in [0..n -> Int] :
        /\ Value(s) = f[n] /\ f[0] = 0
        /\ \A i \in 1..n : f[i] = WrapInt(10 * f[i - 1] + s[i] - 48)
  BY ValueSteps
<1>3. ASSUME NEW c \in Int PROVE Value(Append(s, c)) = WrapInt(10 * Value(s) + c - 48)
  <2>. DEFINE t == Append(s, c)
  <2>1. /\ t \in Seq(Int) /\ Len(t) = n + 1 /\ t[n + 1] = c
        /\ \A i \in 1..n : t[i] = s[i]
    OBVIOUS
  <2>2. PICK g \in [0..Len(t) -> Int] :
          /\ Value(t) = g[Len(t)] /\ g[0] = 0
          /\ \A i \in 1..Len(t) : g[i] = WrapInt(10 * g[i - 1] + t[i] - 48)
    <3>. HIDE DEF t
    <3>. QED
      BY <2>1, ValueSteps
  <2>. HIDE DEF t, n
  <2>3. \A i \in 1..n : i \in 1..Len(t) /\ i - 1 \in 0..n
    BY <1>1, <2>1
  <2>4. \A i \in 1..n : g[i] = WrapInt(10 * g[i - 1] + s[i] - 48)
    BY <2>1, <2>2, <2>3
  <2>. DEFINE Ok == {i \in 0..n : g[i] = f[i]}
  <2>5. 0 \in Ok
    BY <1>1, <1>2, <2>2
  <2>6. \A i \in 1..n : i - 1 \in Ok => i \in Ok
    BY <1>1, <1>2, <2>4
  <2>7. \A i \in 0..n : i \in Ok
    <3>. HIDE DEF Ok
    <3>. QED
      BY <1>1, <2>5, <2>6, UpToTop
  <2>8. g[n] = f[n]
    BY <1>1, <2>7
  <2>9. n + 1 \in 1..Len(t) /\ (n + 1) - 1 = n
    BY <1>1, <2>1
  <2>10. g[n + 1] = WrapInt(10 * g[n] + t[n + 1] - 48)
    BY <2>2, <2>9
  <2>. QED
    BY <1>2, <2>1, <2>2, <2>8, <2>10 DEF t
<1>4. Value(s) \in Int
  BY <1>1, <1>2
<1>5. s = <<>> => n = 0
  BY EmptySeq
<1>. QED
  BY <1>2, <1>3, <1>4, <1>5

(***************************************************************************)
(* Sums.                                                                   *)
(***************************************************************************)

\* What Total computes.
LEMMA TotalSteps ==
  ASSUME NEW s \in Seq(Int)
  PROVE  \E f \in [0..Len(s) -> Int] :
           /\ Total(s) = f[Len(s)]
           /\ f[0] = 0
           /\ \A i \in 1..Len(s) : f[i] = f[i - 1] + s[i]
<1>. DEFINE n == Len(s)
            Eq(f) == f = [i \in 0..n |-> IF i = 0 THEN 0 ELSE f[i - 1] + s[i]]
            sum == CHOOSE f : Eq(f)
            step == [i \in 1..n |-> [x \in Int |-> x + s[i]]]
            base == 0
<1>1. n \in Nat /\ \A i \in 1..n : s[i] \in Int
  OBVIOUS
<1>2. \A i \in 1..n, x \in Int : x + s[i] \in Int
  BY <1>1
<1>3. step \in [1..n -> [Int -> Int]] /\ base \in Int
  BY <1>2
<1>4. \A i \in 1..n, x \in Int : step[i][x] = x + s[i]
  OBVIOUS
<1>5. PICK f \in [0..n -> Int] : Ascends(f, n, base, step)
  <2>. HIDE DEF n, base, step
  <2>. QED
    BY <1>1, <1>3, RecursionUp
<1>6. \A i \in 0..n : f[i] = IF i = 0 THEN base ELSE step[i][f[i - 1]]
  BY <1>5 DEF Ascends
<1>. HIDE DEF n, step
<1>7. ASSUME NEW i \in 0..n PROVE f[i] = IF i = 0 THEN 0 ELSE f[i - 1] + s[i]
  <2>1. CASE i = 0
    BY <1>6, <2>1
  <2>2. CASE i # 0
    <3>1. i \in 1..n /\ f[i - 1] \in Int
      BY <1>1, <2>2
    <3>2. f[i] = step[i][f[i - 1]]
      BY <1>6, <2>2
    <3>. QED
      BY <1>4, <2>2, <3>1, <3>2
  <2>. QED
    BY <2>1, <2>2
<1>8. Eq(f)
  BY <1>7
<1>9. Eq(sum)
  <2>. HIDE DEF Eq
  <2>. QED
    BY <1>8
<1>10. Total(s) = sum[n]
  BY DEF Total, sum, n
<1>. HIDE DEF sum
<1>11. sum = [i \in 0..n |-> sum[i]]
  BY <1>9
<1>12. sum[0] = 0 /\ \A i \in 1..n : sum[i] = sum[i - 1] + s[i]
  <2>1. 0 \in 0..n /\ \A i \in 1..n : i \in 0..n /\ i # 0
    BY <1>1
  <2>. QED
    BY <1>9, <2>1, Zenon
<1>13. \A i \in 0..n : sum[i] \in Int
  <2>. DEFINE Ok == {i \in 0..n : sum[i] \in Int}
  <2>1. 0 \in Ok
    BY <1>1, <1>12
  <2>2. ASSUME NEW i \in 1..n, i - 1 \in Ok PROVE i \in Ok
    <3>1. i \in 0..n /\ sum[i - 1] \in Int
      BY <1>1, <2>2
    <3>2. sum[i - 1] + s[i] \in Int
      BY <1>1, <3>1
    <3>. QED
      BY <1>12, <3>1, <3>2
  <2>. HIDE DEF Ok
  <2>3. \A i \in 0..n : i \in Ok
    BY <1>1, <2>1, <2>2, UpToTop
  <2>. QED
    BY <2>3 DEF Ok
<1>14. sum \in [0..n -> Int]
  BY <1>11, <1>13
<1>. QED
  BY <1>10, <1>12, <1>14 DEF n

\* The sum of nothing, of two stretches, and of nothing that is negative.
LEMMA TotalOf ==
  ASSUME NEW s \in Seq(Int)
  PROVE  /\ Total(s) \in Int
         /\ s = <<>> => Total(s) = 0
         /\ \A t \in Seq(Int) : Total(s \o t) = Total(s) + Total(t)
         /\ (\A i \in 1..Len(s) : s[i] >= 0) => Total(s) >= 0
<1>. DEFINE n == Len(s)
<1>1. n \in Nat /\ \A i \in 1..n : s[i] \in Int
  OBVIOUS
<1>2. PICK f \in [0..n -> Int] :
        /\ Total(s) = f[n] /\ f[0] = 0
        /\ \A i \in 1..n : f[i] = f[i - 1] + s[i]
  BY TotalSteps
<1>3. ASSUME NEW t \in Seq(Int) PROVE Total(s \o t) = Total(s) + Total(t)
  <2>. DEFINE m == Len(t)
              u == s \o t
  <2>1. m \in Nat /\ \A i \in 1..m : t[i] \in Int
    OBVIOUS
  <2>2. /\ u \in Seq(Int) /\ Len(u) = n + m
        /\ \A i \in 1..n : u[i] = s[i]
        /\ \A i \in 1..m : u[n + i] = t[i]
    <3>1. /\ u \in Seq(Int) /\ Len(u) = Len(s) + Len(t)
          /\ \A i \in 1..Len(s) + Len(t) :
               u[i] = IF i <= Len(s) THEN s[i] ELSE t[i - Len(s)]
      BY ConcatProperties
    <3>. HIDE DEF u, n, m
    <3>2. n = Len(s) /\ m = Len(t)
      BY DEF n, m
    <3>3. \A i \in 1..n : u[i] = s[i]
      BY <1>1, <2>1, <3>1, <3>2
    <3>4. ASSUME NEW i \in 1..m PROVE u[n + i] = t[i]
      <4>1. n + i \in 1..n + m /\ ~(n + i <= n) /\ (n + i) - n = i
        BY <1>1, <2>1
      <4>. QED
        BY <3>1, <3>2, <4>1
    <3>. QED
      BY <3>1, <3>2, <3>3, <3>4
  <2>3. PICK g \in [0..m -> Int] :
          /\ Total(t) = g[m] /\ g[0] = 0
          /\ \A i \in 1..m : g[i] = g[i - 1] + t[i]
    BY TotalSteps
  <2>4. PICK h \in [0..Len(u) -> Int] :
          /\ Total(u) = h[Len(u)] /\ h[0] = 0
          /\ \A i \in 1..Len(u) : h[i] = h[i - 1] + u[i]
    <3>. HIDE DEF u
    <3>. QED
      BY <2>2, TotalSteps
  <2>. HIDE DEF u, n, m
  <2>5. h[n] = f[n]
    <3>. DEFINE Ok == {i \in 0..n : h[i] = f[i]}
    <3>1. 0 \in Ok
      BY <1>1, <1>2, <2>4
    <3>2. \A i \in 1..n : i - 1 \in Ok => i \in Ok
      <4>1. \A i \in 1..n : i \in 1..Len(u)
        BY <1>1, <2>1, <2>2
      <4>2. \A i \in 1..n : h[i] = h[i - 1] + s[i]
        BY <2>2, <2>4, <4>1
      <4>. QED
        BY <1>1, <1>2, <4>2
    <3>. HIDE DEF Ok
    <3>3. \A i \in 0..n : i \in Ok
      BY <1>1, <3>1, <3>2, UpToTop
    <3>4. n \in Ok
      BY <1>1, <3>3
    <3>. QED
      BY <3>4 DEF Ok
  <2>6. h[n + m] = f[n] + g[m]
    <3>. DEFINE Ok == {i \in 0..m : h[n + i] = f[n] + g[i]}
    <3>1. 0 \in Ok
      BY <1>1, <1>2, <2>1, <2>3, <2>5
    <3>2. \A i \in 1..m : i - 1 \in Ok => i \in Ok
      <4>. SUFFICES ASSUME NEW i \in 1..m, i - 1 \in Ok PROVE h[n + i] = f[n] + g[i]
        OBVIOUS
      <4>1. n + i \in 1..Len(u) /\ (n + i) - 1 = n + (i - 1) /\ i - 1 \in 0..m
        BY <1>1, <2>1, <2>2
      <4>2. h[n + i] = h[n + (i - 1)] + t[i]
        BY <2>2, <2>4, <4>1
      <4>3. h[n + (i - 1)] = f[n] + g[i - 1] /\ g[i] = g[i - 1] + t[i]
        BY <2>3
      <4>4. f[n] \in Int /\ g[i - 1] \in Int /\ t[i] \in Int
        BY <1>1, <2>1, <4>1
      <4>. QED
        BY <4>2, <4>3, <4>4
    <3>. HIDE DEF Ok
    <3>3. \A i \in 0..m : i \in Ok
      BY <2>1, <3>1, <3>2, UpToTop
    <3>4. m \in Ok
      BY <2>1, <3>3
    <3>. QED
      BY <3>4 DEF Ok
  <2>. QED
    BY <1>2, <2>2, <2>3, <2>4, <2>6 DEF u
<1>4. (\A i \in 1..n : s[i] >= 0) => f[n] >= 0
  <2>. SUFFICES ASSUME \A i \in 1..n : s[i] >= 0 PROVE f[n] >= 0
    OBVIOUS
  <2>. DEFINE Ok == {i \in 0..n : f[i] >= 0}
  <2>1. 0 \in Ok
    BY <1>1, <1>2
  <2>2. ASSUME NEW i \in 1..n, i - 1 \in Ok PROVE i \in Ok
    <3>1. i \in 0..n /\ f[i - 1] >= 0 /\ f[i - 1] \in Int /\ s[i] \in Int
      BY <1>1, <2>2
    <3>2. f[i] = f[i - 1] + s[i] /\ s[i] >= 0
      BY <1>2
    <3>. QED
      BY <3>1, <3>2
  <2>. HIDE DEF Ok, n
  <2>3. \A i \in 0..n : i \in Ok
    BY <1>1, <2>1, <2>2, UpToTop
  <2>4. n \in Ok
    BY <1>1, <2>3
  <2>. QED
    BY <2>4 DEF Ok
<1>5. s = <<>> => n = 0
  BY EmptySeq
<1>. QED
  BY <1>1, <1>2, <1>3, <1>4, <1>5

(***************************************************************************)
(* itoa and atoi.                                                          *)
(***************************************************************************)

\* The characters of a natural number.
Numeral(n) == [i \in DOMAIN Digits[n] |-> 48 + Digits[n][i]]

\* A numeral starts with a digit, and grows at its end.
LEMMA NumeralOf ==
  ASSUME NEW n \in Nat
  PROVE  /\ Numeral(n) \in Seq(48..57) /\ Numeral(n) \in Seq(Int)
         /\ Len(Numeral(n)) = Len(Digits[n])
         /\ n < 10 => Numeral(n) = <<48 + n>>
         /\ n >= 10 => Numeral(n) = Append(Numeral(n \div 10), 48 + (n % 10))
<1>1. /\ \A k \in Nat : Digits[k] \in Seq(0..9)
      /\ \A k \in Nat : k < 10 => Digits[k] = <<k>>
      /\ \A k \in Nat : k >= 10 => Digits[k] = Append(Digits[k \div 10], k % 10)
  <2>1. \A k \in Nat : k >= 10 => ~(k < 10)
    OBVIOUS
  <2>. QED
    BY <2>1, DigitsOf, Zenon
<1>. HIDE DEF Digits
<1>2. ASSUME NEW k \in Nat
      PROVE  /\ Numeral(k) \in Seq(48..57) /\ Numeral(k) \in Seq(Int)
             /\ Len(Numeral(k)) = Len(Digits[k])
             /\ \A i \in 1..Len(Digits[k]) : Numeral(k)[i] = 48 + Digits[k][i]
  <2>. DEFINE d == Digits[k]
              m == Len(d)
              c == [i \in 1..m |-> 48 + d[i]]
  <2>1. m \in Nat /\ DOMAIN d = 1..m /\ \A i \in 1..m : d[i] \in 0..9
    <3>1. d \in Seq(0..9)
      BY <1>1
    <3>. HIDE DEF d
    <3>. QED
      BY <3>1
  <2>2. c \in [1..m -> 48..57] /\ c \in [1..m -> Int]
    <3>1. ASSUME NEW i \in 1..m PROVE 48 + d[i] \in 48..57 /\ 48 + d[i] \in Int
      <4>1. d[i] \in 0..9
        BY <2>1
      <4>. QED
        BY <4>1
    <3>. HIDE DEF d, m
    <3>. QED
      BY <3>1
  <2>3. c \in Seq(48..57) /\ c \in Seq(Int) /\ Len(c) = m
    <3>. HIDE DEF c, m
    <3>. QED
      BY <2>1, <2>2
  <2>4. Numeral(k) = c
    BY <2>1 DEF Numeral
  <2>5. \A i \in 1..m : c[i] = 48 + d[i]
    OBVIOUS
  <2>. HIDE DEF c
  <2>. QED
    BY <2>3, <2>4, <2>5
<1>3. n < 10 => Numeral(n) = <<48 + n>>
  <2>. SUFFICES ASSUME n < 10 PROVE Numeral(n) = <<48 + n>>
    OBVIOUS
  <2>1. Digits[n] = <<n>>
    BY <1>1
  <2>2. Len(<<n>>) = 1 /\ <<n>>[1] = n /\ 1 \in 1..1
    OBVIOUS
  <2>3. /\ Numeral(n) \in Seq(Int) /\ Len(Numeral(n)) = Len(<<n>>)
        /\ \A i \in 1..Len(<<n>>) : Numeral(n)[i] = 48 + <<n>>[i]
    BY <1>2, <2>1, Zenon
  <2>4. Len(Numeral(n)) = 1 /\ Numeral(n)[1] = 48 + n /\ Numeral(n) \in Seq(Int)
    BY <2>2, <2>3
  <2>. QED
    BY <2>4
<1>4. n >= 10 => Numeral(n) = Append(Numeral(n \div 10), 48 + (n % 10))
  <2>. SUFFICES ASSUME n >= 10 PROVE Numeral(n) = Append(Numeral(n \div 10), 48 + (n % 10))
    OBVIOUS
  <2>. DEFINE q == n \div 10
              r == n % 10
              d == Digits[q]
              s == Numeral(q)
              t == Append(s, 48 + r)
  <2>1. q \in Nat /\ r \in 0..9
    OBVIOUS
  <2>. HIDE DEF q, r
  <2>2. d \in Seq(0..9) /\ Digits[n] = Append(d, r)
    BY <1>1, <2>1 DEF q, r
  <2>3. /\ s \in Seq(Int) /\ Len(s) = Len(d)
        /\ \A i \in 1..Len(d) : s[i] = 48 + d[i]
    BY <1>2, <2>1
  <2>. HIDE DEF d, s
  <2>4. /\ Len(d) \in Nat /\ Len(Digits[n]) = Len(d) + 1
        /\ \A i \in 1..Len(d) : Digits[n][i] = d[i]
        /\ Digits[n][Len(d) + 1] = r
    BY <2>1, <2>2
  <2>5. /\ t \in Seq(Int) /\ Len(t) = Len(d) + 1
        /\ \A i \in 1..Len(d) : t[i] = s[i]
        /\ t[Len(d) + 1] = 48 + r
    BY <2>1, <2>3
  <2>6. /\ Numeral(n) \in Seq(Int) /\ Len(Numeral(n)) = Len(d) + 1
        /\ \A i \in 1..Len(d) + 1 : Numeral(n)[i] = 48 + Digits[n][i]
    BY <1>2, <2>4
  <2>7. ASSUME NEW i \in 1..Len(d) + 1 PROVE Numeral(n)[i] = t[i]
    <3>1. CASE i = Len(d) + 1
      BY <2>4, <2>5, <2>6, <3>1
    <3>2. CASE i # Len(d) + 1
      <4>1. i \in 1..Len(d)
        BY <2>4, <3>2
      <4>2. Numeral(n)[i] = 48 + d[i]
        BY <2>4, <2>6, <4>1, Zenon
      <4>3. t[i] = 48 + d[i]
        BY <2>3, <2>5, <4>1, Zenon
      <4>. QED
        BY <4>2, <4>3
    <3>. QED
      BY <3>1, <3>2
  <2>. HIDE DEF t
  <2>8. Numeral(n) = t
    BY <2>5, <2>6, <2>7, SeqEqual
  <2>. QED
    BY <2>8 DEF t, s, q, r
<1>. QED
  BY <1>2, <1>3, <1>4

\* The characters that itoa collects from the last to the first, turned round.
Turned(n) == Reverse(Reversed[n])

\* They end with the last digit.
LEMMA TurnedOf ==
  ASSUME NEW n \in Int
  PROVE  /\ Turned(n) \in Seq(Int) /\ Len(Turned(n)) = Len(Reversed[n])
         /\ n = 0 => Turned(n) = <<>>
         /\ n # 0 => Turned(n) = Append(Turned(Quot(n, 10)), 48 + Rem(n, 10))
<1>1. /\ Reversed[n] \in Seq(Int)
      /\ n = 0 => Reversed[n] = <<>>
      /\ n # 0 => Reversed[n] = <<48 + Rem(n, 10)>> \o Reversed[Quot(n, 10)]
  <2>1. Reversed[n] = IF n = 0 THEN <<>> ELSE <<48 + Rem(n, 10)>> \o Reversed[Quot(n, 10)]
    BY ReversedOf, Zenon
  <2>. QED
    BY <2>1, ReversedOf, Zenon
<1>2. Reversed[Quot(n, 10)] \in Seq(Int) /\ 48 + Rem(n, 10) \in Int
  <2>1. Quot(n, 10) \in Int /\ Rem(n, 10) \in -9..9
    BY Shorter
  <2>2. Reversed[Quot(n, 10)] \in Seq(Int)
    BY <2>1, ReversedOf, Zenon
  <2>3. 48 + Rem(n, 10) \in Int
    <3>. DEFINE d == Rem(n, 10)
    <3>1. d \in -9..9
      BY <2>1
    <3>. HIDE DEF d
    <3>2. 48 + d \in Int
      BY <3>1
    <3>. QED
      BY <3>2 DEF d
  <2>. QED
    BY <2>2, <2>3
<1>. HIDE DEF Reversed
<1>. DEFINE c == 48 + Rem(n, 10)
            s == Reversed[Quot(n, 10)]
<1>. HIDE DEF c, s
<1>3. Reverse(<<c>> \o s) = Append(Reverse(s), c)
  <2>1. c \in Int /\ s \in Seq(Int) /\ <<c>> \in Seq(Int)
    BY <1>2 DEF c, s
  <2>2. Reverse(<<c>> \o s) = Reverse(s) \o Reverse(<<c>>)
    BY <2>1, ReversedConcat
  <2>3. Reverse(<<c>>) = <<c>>
    <3>. DEFINE w == Reverse(<<c>>)
    <3>1. w \in Seq(Int) /\ Len(w) = 1 /\ w[1] = c
      <4>1. Len(<<c>>) = 1 /\ <<c>>[1] = c
        OBVIOUS
      <4>2. /\ w \in Seq(Int) /\ Len(w) = Len(<<c>>)
            /\ \A i \in 1..Len(<<c>>) : w[i] = <<c>>[Len(<<c>>) - i + 1]
        BY <2>1, Reversal
      <4>. HIDE DEF w
      <4>. QED
        BY <4>1, <4>2
    <3>. HIDE DEF w
    <3>2. w = <<c>>
      BY <3>1
    <3>. QED
      BY <3>2 DEF w
  <2>4. Reverse(s) \in Seq(Int)
    BY <2>1, Reversal
  <2>. QED
    BY <2>1, <2>2, <2>3, <2>4, AppendIsConcat
<1>. QED
  BY <1>1, <1>3, Reversal DEF Turned, c, s

\* For a positive number these are the characters of its decimal.
LEMMA TurnedIsNumeral == \A n \in Nat \ {0} : Turned(n) = Numeral(n)
<1>. DEFINE size == [n \in Nat |-> n]
            Ok == {n \in Nat : n # 0 => Turned(n) = Numeral(n)}
<1>1. size \in [Nat -> Nat]
  OBVIOUS
<1>2. ASSUME NEW n \in Nat, \A m \in Nat : size[m] < size[n] => m \in Ok
      PROVE  n \in Ok
  <2>. SUFFICES ASSUME n # 0 PROVE Turned(n) = Numeral(n)
    OBVIOUS
  <2>. DEFINE q == n \div 10
              r == n % 10
  <2>1. q \in Nat /\ r \in Int /\ Quot(n, 10) = q /\ Rem(n, 10) = r
    <3>1. n \in Int /\ n >= 0 /\ q \in Nat /\ r \in Int
      OBVIOUS
    <3>2. Quot(n, 10) = q /\ Rem(n, 10) = r
      BY <3>1, Shorter, Zenon
    <3>. QED
      BY <3>1, <3>2
  <2>2. Turned(n) = Append(Turned(q), 48 + r)
    <3>1. n \in Int
      OBVIOUS
    <3>2. Turned(n) = Append(Turned(Quot(n, 10)), 48 + Rem(n, 10))
      BY <3>1, TurnedOf
    <3>. HIDE DEF q, r
    <3>. QED
      BY <2>1, <3>2, Zenon
  <2>3. CASE n < 10
    <3>1. q = 0 /\ r = n
      BY <2>3
    <3>2. Turned(q) = <<>>
      BY <3>1, TurnedOf
    <3>3. Numeral(n) = <<48 + n>>
      BY <2>3, NumeralOf
    <3>4. Append(<<>>, 48 + n) = <<48 + n>>
      OBVIOUS
    <3>. QED
      BY <2>2, <3>1, <3>2, <3>3, <3>4, Zenon
  <2>4. CASE ~(n < 10)
    <3>1. n >= 10 /\ q # 0 /\ size[q] < size[n]
      BY <2>4
    <3>2. q \in Ok
      <4>. HIDE DEF Ok, size, q
      <4>. QED
        BY <1>2, <2>1, <3>1
    <3>3. Turned(q) = Numeral(q)
      <4>. HIDE DEF q
      <4>. QED
        BY <3>1, <3>2
    <3>4. Numeral(n) = Append(Numeral(q), 48 + r)
      BY <3>1, NumeralOf
    <3>. HIDE DEF q, r
    <3>. QED
      BY <2>2, <3>3, <3>4
  <2>. QED
    BY <2>3, <2>4
<1>. HIDE DEF Ok, size
<1>3. Nat \subseteq Ok
  BY <1>1, <1>2, SmallerFirst
<1>. QED
  BY <1>3 DEF Ok

\* The loop of atoi takes back each step of the loop of itoa, for a negative
\* number and its negative digits too, if the number is an int.
LEMMA ReadsBack == \A n \in Int32 : Value(Turned(n)) = n
<1>. DEFINE size == [n \in Int |-> IF n < 0 THEN -n ELSE n]
            Ok == {n \in Int : n \in Int32 => Value(Turned(n)) = n}
<1>1. size \in [Int -> Nat]
  OBVIOUS
<1>2. ASSUME NEW n \in Int, \A m \in Int : size[m] < size[n] => m \in Ok
      PROVE  n \in Ok
  <2>. SUFFICES ASSUME n \in Int32 PROVE Value(Turned(n)) = n
    OBVIOUS
  <2>1. CASE n = 0
    <3>1. Turned(n) = <<>> /\ Turned(n) \in Seq(Int)
      BY <2>1, TurnedOf
    <3>. QED
      BY <2>1, <3>1, ValueOf
  <2>2. CASE n # 0
    <3>. DEFINE q == Quot(n, 10)
                r == Rem(n, 10)
    <3>1. /\ q \in Int /\ r \in -9..9 /\ 10 * q + r = n
          /\ n > 0 => q >= 0 /\ q < n
          /\ n < 0 => q > n /\ q <= 0
      <4>1. n > 0 => n >= 0
        OBVIOUS
      <4>. QED
        BY <4>1, Shorter
    <3>2. Turned(n) = Append(Turned(q), 48 + r)
      BY <2>2, TurnedOf
    <3>. HIDE DEF q, r
    <3>3. q \in Int32
      BY <3>1, IntMaxType, SMT DEF Int32
    <3>4. size[q] < size[n]
      BY <2>2, <3>1
    <3>5. q \in Ok
      <4>. HIDE DEF size, Ok
      <4>. QED
        BY <1>2, <3>1, <3>4
    <3>6. Value(Turned(q)) = q
      BY <3>3, <3>5
    <3>7. Turned(q) \in Seq(Int) /\ 48 + r \in Int
      BY <3>1, TurnedOf
    <3>8. Value(Turned(n)) = WrapInt(10 * q + (48 + r) - 48)
      BY <3>2, <3>6, <3>7, ValueOf
    <3>9. 10 * q + (48 + r) - 48 = n
      BY <3>1
    <3>. QED
      BY <3>8, <3>9, IntWraps, Zenon
  <2>. QED
    BY <2>1, <2>2
<1>. HIDE DEF Ok, size
<1>3. Int \subseteq Ok
  BY <1>1, <1>2, SmallerFirst
<1>. QED
  BY <1>3, IntWraps DEF Ok

\* One more than an int holds wraps at the last digit.
LEMMA ReadsBackOver == Value(Turned(INT_MAX + 1)) = -INT_MAX - 1
<1>. DEFINE n == INT_MAX + 1
            q == 214748364
<1>1. n # 0 /\ n \in Int /\ n >= 0 /\ Quot(n, 10) = q /\ Rem(n, 10) = 8
  <2>1. n \in Int /\ n >= 0 /\ n = 10 * q + 8
    BY IntMaxType, SMT
  <2>2. Quot(n, 10) = q
    <3>. HIDE DEF n
    <3>. QED
      BY <2>1, SMT DEF Quot
  <2>3. Rem(n, 10) = n - 10 * q
    BY <2>2, SMT DEF Rem
  <2>. QED
    BY <2>1, <2>2, <2>3, SMT
<1>2. Turned(n) = Append(Turned(q), 48 + 8)
  <2>. HIDE DEF n, q
  <2>. QED
    BY <1>1, TurnedOf
<1>3. q \in Int32 /\ q \in Int /\ 48 + 8 \in Int
  BY IntMaxType, SMT DEF Int32
<1>4. Value(Turned(q)) = q /\ Turned(q) \in Seq(Int)
  <2>. HIDE DEF q
  <2>. QED
    BY <1>3, ReadsBack, TurnedOf
<1>5. Value(Turned(n)) = WrapInt(10 * q + (48 + 8) - 48)
  <2>. HIDE DEF n, q
  <2>. QED
    BY <1>2, <1>3, <1>4, ValueOf
<1>6. 10 * q + (48 + 8) - 48 = INT_MAX + 1
  BY IntMaxType, SMT
<1>. HIDE DEF q
<1>. QED
  BY <1>5, <1>6, IntWraps, Zenon DEF n

\* The minus is put behind the others and gets to the front when they are turned.
LEMMA CharsOf ==
  ASSUME NEW n \in Ints
  PROVE  /\ Len(Reverse(Chars(n))) = Len(Chars(n))
         /\ n >= 0 => Reverse(Chars(n)) = Turned(n)
         /\ n < 0 => Reverse(Chars(n)) = <<Minus>> \o Turned(Wrap(-n))
<1>1. n \in Int /\ -n \in Int
  BY Wraps
<1>2. Wrap(-n) \in Int
  BY <1>1, Wraps
<1>3. Reversed[n] \in Seq(Int) /\ Reversed[Wrap(-n)] \in Seq(Int)
  BY <1>1, <1>2, ReversedOf, Zenon
<1>4. CASE n >= 0
  <2>1. Chars(n) = Reversed[n]
    BY <1>1, <1>4 DEF Chars
  <2>2. ~(n < 0)
    BY <1>1, <1>4
  <2>. QED
    BY <1>3, <2>1, <2>2, Reversal DEF Turned
<1>5. CASE n < 0
  <2>. DEFINE s == Reversed[Wrap(-n)]
              t == <<Minus>>
  <2>1. Chars(n) = Append(s, Minus)
    BY <1>5 DEF Chars
  <2>2. s \in Seq(Int) /\ t \in Seq(Int) /\ Minus \in Int
    BY <1>3 DEF Minus
  <2>3. Append(s, Minus) = s \o t /\ s \o t \in Seq(Int)
    BY <2>2, AppendIsConcat, ConcatProperties
  <2>4. Reverse(s \o t) = Reverse(t) \o Reverse(s) /\ Len(Reverse(s \o t)) = Len(s \o t)
    <3>. HIDE DEF s, t
    <3>. QED
      BY <2>2, <2>3, ReversedConcat, Reversal
  <2>5. Reverse(t) = t
    <3>. DEFINE w == Reverse(t)
    <3>1. Len(t) = 1 /\ t[1] = Minus
      OBVIOUS
    <3>2. /\ w \in Seq(Int) /\ Len(w) = Len(t)
          /\ \A i \in 1..Len(t) : w[i] = t[Len(t) - i + 1]
      <4>. HIDE DEF t
      <4>. QED
        BY <2>2, Reversal
    <3>. HIDE DEF w, t
    <3>3. w = t
      <4>1. w[1] = t[1]
        BY <3>1, <3>2
      <4>2. \A i \in 1..Len(w) : w[i] = t[i]
        BY <3>1, <3>2, <4>1
      <4>. QED
        BY <2>2, <3>2, <4>2, SeqEqual
    <3>. QED
      BY <3>3 DEF w
  <2>6. ~(n >= 0)
    BY <1>1, <1>5
  <2>. QED
    BY <2>1, <2>3, <2>4, <2>5, <2>6, Zenon DEF Turned
<1>. QED
  BY <1>1, <1>4, <1>5

\* A numeral starts with a digit, which is no minus.
LEMMA NoMinus ==
  ASSUME NEW n \in Nat
  PROVE  Numeral(n) # <<>> /\ Numeral(n)[1] # Minus
<1>. DEFINE Ok == {k \in Nat : Numeral(k) # <<>>}
            size == [k \in Nat |-> k]
<1>1. size \in [Nat -> Nat]
  OBVIOUS
<1>2. ASSUME NEW k \in Nat PROVE Numeral(k) # <<>>
  <2>1. CASE k < 10
    <3>1. Numeral(k) = <<48 + k>>
      BY <2>1, NumeralOf
    <3>. QED
      BY <3>1
  <2>2. CASE ~(k < 10)
    <3>1. k >= 10 /\ k \div 10 \in Nat /\ 48 + (k % 10) \in Int
      BY <2>2
    <3>2. Numeral(k) = Append(Numeral(k \div 10), 48 + (k % 10))
      BY <3>1, NumeralOf
    <3>3. Numeral(k \div 10) \in Seq(Int)
      BY <3>1, NumeralOf
    <3>. QED
      BY <3>1, <3>2, <3>3, AppendProperties
  <2>. QED
    BY <2>1, <2>2
<1>3. Numeral(n) \in Seq(48..57) /\ Numeral(n) # <<>>
  BY <1>2, NumeralOf
<1>4. Numeral(n)[1] \in 48..57
  <2>. DEFINE s == Numeral(n)
  <2>1. s \in Seq(48..57) /\ s # <<>>
    BY <1>3
  <2>. HIDE DEF s
  <2>2. 1 \in 1..Len(s)
    BY <2>1, EmptySeq
  <2>3. s[1] \in 48..57
    BY <2>1, <2>2, ElementOfSeq
  <2>. QED
    BY <2>3 DEF s
<1>. QED
  BY <1>3, <1>4 DEF Minus

\* atoi takes back what itoa has written, 0 included; only the smallest number
\* of a type that is narrower than int comes back without its sign.
LEMMA AtoiTakesBack ==
  \A n \in Ints \cap Int32 :
    atoi(Reverse(Chars(n))) = IF n = -Half /\ W < 32 THEN Half ELSE n
<1>. SUFFICES ASSUME NEW n \in Ints \cap Int32
              PROVE  atoi(Reverse(Chars(n))) = IF n = -Half /\ W < 32 THEN Half ELSE n
  OBVIOUS
<1>1. n \in Int /\ -n \in Int /\ -Half < 0
  BY Wraps, HalfType
<1>2. CASE n = 0
  <2>1. Reverse(Chars(n)) = <<>>
    BY <1>1, <1>2, CharsOf, TurnedOf
  <2>2. Value(<<>>) = 0
    <3>. DEFINE s == <<>>
    <3>1. s \in Seq(Int) /\ s = <<>>
      OBVIOUS
    <3>. HIDE DEF s
    <3>2. Value(s) = 0
      BY <3>1, ValueOf
    <3>. QED
      BY <3>1, <3>2
  <2>3. atoi(<<>>) = Value(<<>>)
    BY DEF atoi
  <2>. QED
    BY <1>1, <1>2, <2>1, <2>2, <2>3
<1>3. CASE n > 0
  <2>1. Reverse(Chars(n)) = Turned(n) /\ Turned(n) = Numeral(n)
    BY <1>1, <1>3, CharsOf, TurnedIsNumeral
  <2>2. Numeral(n)[1] # Minus
    BY <1>1, <1>3, NoMinus
  <2>3. atoi(Turned(n)) = Value(Turned(n))
    BY <2>1, <2>2 DEF atoi
  <2>. QED
    BY <1>1, <1>3, <2>1, <2>3, ReadsBack
<1>4. CASE n < 0
  <2>. DEFINE m == Wrap(-n)
              t == Turned(m)
              s == <<Minus>> \o t
  <2>1. m \in Int
    BY <1>1, Wraps
  <2>2. t \in Seq(Int) /\ Minus \in Int
    BY <2>1, TurnedOf DEF Minus
  <2>3. s # <<>> /\ s[1] = Minus /\ Tail(s) = t
    <3>. HIDE DEF t
    <3>. QED
      BY <2>2
  <2>4. Reverse(Chars(n)) = s
    BY <1>4, CharsOf
  <2>5. atoi(s) = WrapInt(-Value(t))
    BY <2>3 DEF atoi
  <2>6. WrapInt(-Value(t)) = IF n = -Half /\ W < 32 THEN Half ELSE n
    <3>1. CASE n = -Half
      <4>1. -n = Half
        BY <3>1, HalfType
      <4>2. m = n /\ -m = Half
        BY <3>1, <4>1, HalfType, Wraps
      <4>3. Value(t) = m
        BY <4>2, ReadsBack
      <4>4. CASE W < 32
        <5>1. Half \in Int32
          BY <4>4, HalfType, NarrowHalf, IntMaxType, SMT DEF Int32
        <5>2. WrapInt(Half) = Half
          BY <5>1, IntWraps
        <5>. QED
          BY <3>1, <4>2, <4>3, <4>4, <5>2
      <4>5. CASE W = 32
        BY <3>1, <4>2, <4>3, <4>5, NarrowHalf, IntWraps, IntMaxType, SMT
      <4>6. ~(W > 32)
        BY <3>1, NarrowHalf, HalfType, IntMaxType, SMT DEF Int32
      <4>7. W < 32 \/ W = 32
        BY <4>6, WidthAssumption DEF WidthAssumption
      <4>. QED
        BY <4>4, <4>5, <4>7
    <3>2. CASE n # -Half
      <4>1. -n \in Ints
        BY <1>1, <1>4, <3>2, HalfType DEF Ints
      <4>2. m = -n
        BY <4>1, Wraps
      <4>3. CASE n = -INT_MAX - 1
        <5>1. m = INT_MAX + 1
          BY <4>2, <4>3, IntMaxType, SMT
        <5>2. Value(t) = n
          BY <4>3, <5>1, ReadsBackOver
        <5>3. WrapInt(-Value(t)) = n
          BY <4>3, <5>2, IntWraps, IntMaxType, SMT
        <5>. QED
          BY <3>2, <5>3
      <4>4. CASE n # -INT_MAX - 1
        <5>1. m \in Int32
          BY <1>4, <4>2, <4>4, IntMaxType, SMT DEF Int32
        <5>2. Value(t) = m
          BY <5>1, ReadsBack
        <5>3. WrapInt(-Value(t)) = n
          BY <1>1, <4>2, <5>2, IntWraps
        <5>. QED
          BY <3>2, <5>3
      <4>. QED
        BY <4>3, <4>4
    <3>. QED
      BY <3>1, <3>2
  <2>. HIDE DEF s, t, m
  <2>. QED
    BY <2>4, <2>5, <2>6
<1>. QED
  BY <1>1, <1>2, <1>3, <1>4

\* itoa writes decimals, for each number of each width and for each room; atoi
\* reads back what it writes for each number that an int holds, but for the sign
\* of the smallest number of a type that is narrower than int.
THEOREM ConversionsAgreeAlways ==
  num \in Ints /\ len \in Nat => ConversionsAgree
<1>. SUFFICES ASSUME num \in Ints, len \in Nat PROVE ConversionsAgree
  OBVIOUS
<1>. DEFINE room == W \div 8 + 1
            chars == Chars(num)
<1>1. num \in Int /\ -num \in Int /\ W \div 8 \in Nat
  BY Wraps, WidthAssumption DEF WidthAssumption
<1>2. itoa(num, len) # Failed => itoa(num, len).buf = Reverse(chars)
  <2>1. CASE len < room \/ len < Len(chars)
    <3>1. itoa(num, len) = Failed
      BY <2>1 DEF itoa
    <3>. QED
      BY <3>1
  <2>2. CASE ~(len < room \/ len < Len(chars))
    <3>1. itoa(num, len) = [ret |-> Len(chars), buf |-> Reverse(chars)]
      BY <2>2 DEF itoa
    <3>. HIDE DEF chars
    <3>. QED
      BY <3>1
  <2>. QED
    BY <2>1, <2>2
<1>3. num \in Int32 => atoi(Reverse(chars)) = IF num = -Half /\ W < 32 THEN Half ELSE num
  BY AtoiTakesBack
<1>4. ASSUME num \notin {0, -Half}
      PROVE  Reverse(chars) = Decimal(num) /\ Len(chars) = Len(Decimal(num))
  <2>1. Len(Reverse(chars)) = Len(chars)
    BY CharsOf
  <2>2. CASE num > 0
    <3>1. Reverse(chars) = Turned(num) /\ Turned(num) = Numeral(num)
      BY <1>1, <2>2, CharsOf, TurnedIsNumeral
    <3>2. Decimal(num) = Numeral(num)
      BY <1>1, <2>2 DEF Decimal, Numeral
    <3>. QED
      BY <2>1, <3>1, <3>2
  <2>3. CASE num < 0
    <3>1. -num \in Ints /\ -num \in Nat \ {0}
      BY <1>1, <1>4, <2>3, HalfType DEF Ints
    <3>2. Wrap(-num) = -num
      BY <3>1, Wraps
    <3>3. Reverse(chars) = <<Minus>> \o Turned(Wrap(-num))
      BY <2>3, CharsOf
    <3>4. Turned(-num) = Numeral(-num)
      BY <3>1, TurnedIsNumeral
    <3>5. Decimal(num) = <<Minus>> \o Numeral(-num)
      BY <2>3 DEF Decimal, Numeral
    <3>6. Reverse(chars) = Decimal(num)
      BY <3>2, <3>3, <3>4, <3>5, Zenon
    <3>. QED
      BY <2>1, <3>6, Zenon
  <2>. QED
    BY <1>1, <1>4, <2>2, <2>3
<1>5. ASSUME num \notin {0, -Half}
      PROVE  itoa(num, len) =
               IF len > W \div 8 /\ len >= Len(Decimal(num))
               THEN [ret |-> Len(Decimal(num)), buf |-> Decimal(num)] ELSE Failed
  <2>1. Reverse(chars) = Decimal(num) /\ Len(chars) = Len(Decimal(num))
    BY <1>4, <1>5
  <2>2. Len(Decimal(num)) \in Nat
    <3>1. Reverse(chars) = (IF num >= 0 THEN Turned(num) ELSE <<Minus>> \o Turned(Wrap(-num)))
      BY <1>1, CharsOf
    <3>2. Turned(num) \in Seq(Int) /\ Turned(Wrap(-num)) \in Seq(Int) /\ <<Minus>> \in Seq(Int)
      <4>1. Wrap(-num) \in Int
        BY <1>1, Wraps
      <4>. QED
        BY <1>1, <4>1, TurnedOf DEF Minus
    <3>3. Reverse(chars) \in Seq(Int)
      BY <3>1, <3>2, ConcatProperties
    <3>. QED
      BY <2>1, <3>3
  <2>3. (len > W \div 8 /\ len >= Len(chars)) <=> ~(len < room \/ len < Len(chars))
    BY <1>1, <2>1, <2>2
  <2>. HIDE DEF room
  <2>4. itoa(num, len) = IF len < room \/ len < Len(chars) THEN Failed
                         ELSE [ret |-> Len(chars), buf |-> Reverse(chars)]
    BY Zenon DEF itoa, room
  <2>. HIDE DEF chars
  <2>. QED
    BY <2>1, <2>3, <2>4, Zenon
<1>. HIDE DEF chars
<1>. QED
  BY <1>2, <1>3, <1>5, Zenon DEF ConversionsAgree

(***************************************************************************)
(* How many digits there are.                                              *)
(***************************************************************************)

\* A number is between the powers of ten that its digits count.
LEMMA DigitCount ==
  \A n \in Nat :
    /\ Len(Digits[n]) \in Nat \ {0}
    /\ n < Power(10)[Len(Digits[n])]
    /\ n # 0 => Power(10)[Len(Digits[n]) - 1] <= n
<1>. DEFINE p == Power(10)
            c == [n \in Nat |-> Len(Digits[n])]
            size == [n \in Nat |-> n]
            Ok == {n \in Nat : /\ c[n] \in Nat \ {0} /\ n < p[c[n]]
                               /\ n # 0 => p[c[n] - 1] <= n}
<1>1. /\ \A k \in Nat : p[k] \in Nat /\ p[k + 1] = 10 * p[k]
      /\ p[0] = 1 /\ p[1] = 10
  <2>1. \A k \in Nat : Power(10)[k] \in Nat
    BY PowersGrow
  <2>2. \A k \in Nat : Power(10)[k + 1] = 10 * Power(10)[k]
    BY Powers
  <2>. QED
    BY <2>1, <2>2, PowersOfTen
<1>2. size \in [Nat -> Nat]
  OBVIOUS
<1>3. \A n \in Nat : n < 10 => c[n] = 1
  <2>. SUFFICES ASSUME NEW n \in Nat, n < 10 PROVE c[n] = 1
    OBVIOUS
  <2>1. Digits[n] = <<n>>
    BY DigitsOf, Zenon
  <2>2. Len(<<n>>) = 1
    OBVIOUS
  <2>. QED
    BY <2>1, <2>2
<1>4. \A n \in Nat : ~(n < 10) => c[n \div 10] \in Nat /\ c[n] = c[n \div 10] + 1
  <2>. SUFFICES ASSUME NEW n \in Nat, ~(n < 10)
                PROVE  c[n \div 10] \in Nat /\ c[n] = c[n \div 10] + 1
    OBVIOUS
  <2>. DEFINE q == n \div 10
              s == Digits[q]
  <2>1. Digits[n] = Append(s, n % 10)
    BY DigitsOf, Zenon
  <2>2. q \in Nat /\ n % 10 \in 0..9
    OBVIOUS
  <2>3. s \in Seq(0..9) /\ c[q] = Len(s)
    BY <2>2, DigitsOf
  <2>. HIDE DEF s
  <2>4. Len(Append(s, n % 10)) = Len(s) + 1 /\ Len(s) \in Nat
    BY <2>2, <2>3
  <2>5. c[n] = Len(Digits[n])
    OBVIOUS
  <2>. HIDE DEF q, c
  <2>6. c[q] \in Nat /\ c[n] = c[q] + 1
    BY <2>1, <2>3, <2>4, <2>5
  <2>. QED
    BY <2>6 DEF q
<1>. HIDE DEF p, c
<1>5. ASSUME NEW n \in Nat, \A m \in Nat : size[m] < size[n] => m \in Ok
      PROVE  n \in Ok
  <2>1. CASE n < 10
    <3>1. c[n] = 1
      BY <1>3, <2>1
    <3>. QED
      BY <1>1, <2>1, <3>1
  <2>2. CASE ~(n < 10)
    <3>. DEFINE q == n \div 10
                k == c[q]
    <3>1. q \in Nat \ {0} /\ size[q] < size[n] /\ 10 * q <= n /\ n < 10 * q + 10
      BY <2>2
    <3>2. c[n] = k + 1
      BY <1>4, <2>2
    <3>. HIDE DEF q
    <3>3. q \in Ok
      <4>. HIDE DEF Ok, size
      <4>. QED
        BY <1>5, <3>1
    <3>4. k \in Nat \ {0} /\ q < p[k] /\ p[k - 1] <= q
      BY <3>1, <3>3
    <3>. HIDE DEF k
    <3>5. p[k] \in Nat /\ p[k - 1] \in Nat /\ p[k + 1] = 10 * p[k] /\ p[k] = 10 * p[k - 1]
      <4>1. k - 1 \in Nat /\ (k - 1) + 1 = k /\ k \in Nat
        BY <3>4
      <4>2. p[(k - 1) + 1] = 10 * p[k - 1]
        BY <1>1, <4>1
      <4>. QED
        BY <1>1, <4>1, <4>2
    <3>6. q + 1 <= p[k]
      BY <3>1, <3>4, <3>5
    <3>7. n < p[k + 1] /\ p[k] <= n
      BY <3>1, <3>4, <3>5, <3>6
    <3>8. c[n] = k + 1 /\ k + 1 \in Nat \ {0} /\ (k + 1) - 1 = k
      BY <3>2, <3>4
    <3>. QED
      BY <3>7, <3>8
  <2>. QED
    BY <2>1, <2>2
<1>. HIDE DEF Ok, size
<1>6. Nat \subseteq Ok
  BY <1>2, <1>5, SmallerFirst
<1>7. \A n \in Nat : c[n] = Len(Digits[n])
  BY DEF c
<1>. HIDE DEF Digits
<1>8. \A n \in Nat : /\ c[n] \in Nat \ {0} /\ n < p[c[n]]
                     /\ n # 0 => p[c[n] - 1] <= n
  BY <1>6 DEF Ok
<1>9. ASSUME NEW n \in Nat
      PROVE  /\ Len(Digits[n]) \in Nat \ {0}
             /\ n < p[Len(Digits[n])]
             /\ n # 0 => p[Len(Digits[n]) - 1] <= n
  <2>. DEFINE k == Len(Digits[n])
  <2>1. c[n] = k
    BY <1>7
  <2>. HIDE DEF k
  <2>2. k \in Nat \ {0} /\ n < p[k] /\ (n # 0 => p[k - 1] <= n)
    BY <1>8, <2>1
  <2>. QED
    BY <2>2 DEF k
<1>. QED
  BY <1>9, Zenon DEF p

\* Nothing else is between such powers: what log10 gives is what is written.
LEMMA NumDigitsOf ==
  /\ \A n \in Nat \ {0}, k \in Nat \ {0} :
       Power(10)[k - 1] <= n /\ n < Power(10)[k] => Len(Digits[n]) = k
  /\ \A n \in Nat, k \in Nat \ {0} : n < Power(10)[k] => Len(Digits[n]) <= k
  /\ \A n \in Nat \ {0} : NumDigits(n) = Len(Digits[n])
<1>. DEFINE p == Power(10)
            d(n) == Len(Digits[n])
<1>1. /\ \A k \in Nat : p[k] \in Nat /\ p[k] > k
      /\ \A j, k \in Nat : j <= k => p[j] <= p[k]
  BY PowersGrow
<1>2. \A n \in Nat : /\ d(n) \in Nat \ {0} /\ n < p[d(n)]
                     /\ n # 0 => p[d(n) - 1] <= n
  BY DigitCount, Zenon
<1>. HIDE DEF p, d
<1>3. ASSUME NEW n \in Nat \ {0}, NEW j \in Nat \ {0}, NEW k \in Nat \ {0},
             p[j - 1] <= n, n < p[k]
      PROVE  j <= k
  <2>. SUFFICES ASSUME ~(j <= k) PROVE FALSE
    OBVIOUS
  <2>1. k \in Nat /\ j - 1 \in Nat /\ k <= j - 1
    OBVIOUS
  <2>2. p[k] <= p[j - 1] /\ p[k] \in Nat /\ p[j - 1] \in Nat
    BY <1>1, <2>1
  <2>. QED
    BY <1>3, <2>2
<1>4. ASSUME NEW n \in Nat \ {0}, NEW k \in Nat \ {0}, p[k - 1] <= n, n < p[k]
      PROVE  d(n) = k
  <2>1. d(n) \in Nat \ {0} /\ n < p[d(n)] /\ p[d(n) - 1] <= n
    BY <1>2
  <2>2. d(n) <= k /\ k <= d(n)
    BY <1>3, <1>4, <2>1
  <2>. QED
    BY <2>1, <2>2
<1>5. ASSUME NEW n \in Nat, NEW k \in Nat \ {0}, n < p[k] PROVE d(n) <= k
  <2>1. CASE n = 0
    <3>1. n < 10 /\ n \in Nat
      BY <2>1
    <3>2. Digits[n] = <<n>>
      BY <3>1, DigitsOf, Zenon
    <3>3. Len(<<n>>) = 1
      OBVIOUS
    <3>. QED
      BY <3>2, <3>3 DEF d
  <2>2. CASE n # 0
    <3>1. d(n) \in Nat \ {0} /\ p[d(n) - 1] <= n
      BY <1>2, <2>2
    <3>. QED
      BY <1>3, <1>5, <2>2, <3>1
  <2>. QED
    BY <2>1, <2>2
<1>6. ASSUME NEW n \in Nat \ {0} PROVE NumDigits(n) = d(n)
  <2>. DEFINE Is(k) == p[k - 1] <= n /\ n < p[k]
  <2>1. d(n) \in Nat \ {0} /\ Is(d(n))
    BY <1>2
  <2>2. d(n) \in 1..n
    <3>1. d(n) - 1 \in Nat
      BY <2>1
    <3>2. p[d(n) - 1] \in Nat /\ p[d(n) - 1] > d(n) - 1
      BY <1>1, <3>1
    <3>. QED
      BY <2>1, <3>2
  <2>3. \A k \in 1..n : Is(k) => k = d(n)
    BY <1>4
  <2>4. NumDigits(n) = CHOOSE k \in 1..n : Is(k)
    BY DEF NumDigits, p
  <2>. HIDE DEF Is
  <2>. QED
    BY <2>1, <2>2, <2>3, <2>4
<1>. QED
  BY <1>4, <1>5, <1>6, Zenon DEF p, d

\* The numbers that are written everywhere.
LEMMA FewDigits ==
  ASSUME NEW n \in Nat
  PROVE  /\ n < 10 => Len(Digits[n]) = 1
         /\ n >= 10 /\ n < 100 => Len(Digits[n]) = 2
         /\ n >= 100 /\ n < 1000 => Len(Digits[n]) = 3
         /\ n >= 1000 /\ n < 10000 => Len(Digits[n]) = 4
<1>. DEFINE p == Power(10)
            d == Len(Digits[n])
<1>1. n # 0 => \A k \in Nat \ {0} : p[k - 1] <= n /\ n < p[k] => d = k
  BY NumDigitsOf, Zenon
<1>2. p[1] = 10 /\ p[2] = 100 /\ p[3] = 1000 /\ p[4] = 10000
  BY PowersOfTen
<1>3. n < 10 => d = 1
  <2>. SUFFICES ASSUME n < 10 PROVE d = 1
    OBVIOUS
  <2>1. Digits[n] = <<n>>
    BY DigitsOf, Zenon
  <2>2. Len(<<n>>) = 1
    OBVIOUS
  <2>. QED
    BY <2>1, <2>2
<1>. HIDE DEF d, p
<1>4. n # 0 => /\ p[2 - 1] <= n /\ n < p[2] => d = 2
               /\ p[3 - 1] <= n /\ n < p[3] => d = 3
               /\ p[4 - 1] <= n /\ n < p[4] => d = 4
  <2>1. 2 \in Nat \ {0} /\ 3 \in Nat \ {0} /\ 4 \in Nat \ {0}
    OBVIOUS
  <2>. QED
    BY <1>1, <2>1, Zenon
<1>. QED
  BY <1>2, <1>3, <1>4 DEF d

(***************************************************************************)
(* Text and fields.                                                        *)
(***************************************************************************)

Texts  == [len : Nat, sum : Int, num : Int]
Fields == [tag : Nat, val : Texts, len : Nat \ {0}, sum : Int]

\* Characters as text.
LEMMA TextOf ==
  ASSUME NEW chars \in Seq(Int), NEW n \in Int
  PROVE  /\ Text(chars, n) \in Texts
         /\ Text(chars, n).len = Len(chars) /\ Text(chars, n).num = n
<1>1. Total(chars) \in Int /\ Len(chars) \in Nat
  BY TotalOf, LenProperties
<1>. QED
  BY <1>1 DEF Text, Texts

\* A number as text.
LEMMA NumberOf ==
  ASSUME NEW n \in Nat
  PROVE  /\ Decimal(n) = Numeral(n)
         /\ Number(n) \in Texts
         /\ Number(n).len = Len(Digits[n]) /\ Number(n).num = n
<1>1. Decimal(n) = Numeral(n)
  <2>1. ~(n < 0)
    OBVIOUS
  <2>. QED
    BY <2>1 DEF Decimal, Numeral
<1>2. Numeral(n) \in Seq(Int) /\ Len(Numeral(n)) = Len(Digits[n])
  BY NumeralOf
<1>3. Number(n) = Text(Numeral(n), n)
  BY <1>1 DEF Number
<1>4. /\ Text(Numeral(n), n) \in Texts
      /\ Text(Numeral(n), n).len = Len(Numeral(n)) /\ Text(Numeral(n), n).num = n
  BY <1>2, TextOf
<1>. QED
  BY <1>1, <1>2, <1>3, <1>4, Zenon

\* A character as text.
LEMMA CharOf ==
  ASSUME NEW c \in Int
  PROVE  Char(c) \in Texts /\ Char(c).len = 1 /\ Char(c).num = c
<1>1. <<c>> \in Seq(Int) /\ Len(<<c>>) = 1
  OBVIOUS
<1>. QED
  BY <1>1, TextOf DEF Char

\* An id as text.
LEMMA IdOf ==
  ASSUME NEW n \in Nat, NEW c \in Int
  PROVE  Id(n, c) \in Texts /\ Id(n, c).len = n
<1>1. n * c \in Int
  OBVIOUS
<1>. QED
  BY <1>1 DEF Id, Texts

\* A tag and its value as a field.
LEMMA FieldOf ==
  ASSUME NEW tag \in Nat, NEW val \in Texts
  PROVE  /\ Field(tag, val) \in Fields
         /\ Field(tag, val).tag = tag /\ Field(tag, val).val = val
         /\ Field(tag, val).len = Len(Digits[tag]) + val.len + 2
<1>1. /\ Number(tag).len \in Nat /\ Number(tag).sum \in Int
      /\ Number(tag).len = Len(Digits[tag])
  BY NumberOf DEF Texts
<1>2. val.len \in Nat /\ val.sum \in Int
  BY DEF Texts
<1>3. /\ Number(tag).len + val.len + 2 \in Nat \ {0}
      /\ Number(tag).sum + 61 + val.sum + 1 \in Int
  <2>1. \A x, y \in Nat : x + y + 2 \in Nat \ {0}
    OBVIOUS
  <2>2. \A x, y \in Int : x + 61 + y + 1 \in Int
    OBVIOUS
  <2>. QED
    BY <1>1, <1>2, <2>1, <2>2, Zenon
<1>4. Field(tag, val) = [tag |-> tag, val |-> val, len |-> Number(tag).len + val.len + 2,
                         sum |-> Number(tag).sum + 61 + val.sum + 1]
  BY DEF Field
<1>. HIDE DEF Number
<1>5. /\ Field(tag, val) \in Fields
      /\ Field(tag, val).tag = tag /\ Field(tag, val).val = val
      /\ Field(tag, val).len = Number(tag).len + val.len + 2
  BY <1>3, <1>4 DEF Fields
<1>. QED
  BY <1>1, <1>5, Zenon

\* A checksum takes three characters, or four with a minus.
LEMMA ThreeDigitsOf ==
  ASSUME NEW n \in Int, -255 <= n, n <= 255
  PROVE  ThreeDigits(n) \in Texts /\ ThreeDigits(n).num = n /\ 3 <= ThreeDigits(n).len /\ ThreeDigits(n).len <= 4
<1>. DEFINE d == Decimal(n)
            k == IF n < 0 THEN 1 ELSE 0
            a == SubSeq(d, 1, k)
            z == [i \in 1..3 - Len(d) |-> 48]
            b == SubSeq(d, k + 1, Len(d))
<1>1. n \in Int /\ k \in Nat
  OBVIOUS
<1>2. \A m \in Nat : m <= 255 => 1 <= Len(Numeral(m)) /\ Len(Numeral(m)) <= 3 /\ Numeral(m) \in Seq(Int)
  <2>1. ASSUME NEW m \in Nat, m <= 255
        PROVE  1 <= Len(Numeral(m)) /\ Len(Numeral(m)) <= 3 /\ Numeral(m) \in Seq(Int)
    <3>1. m < Power(10)[3] /\ 3 \in Nat \ {0}
      BY <2>1, PowersOfTen
    <3>2. Len(Digits[m]) \in Nat \ {0} /\ Len(Digits[m]) <= 3
      BY <3>1, DigitCount, NumDigitsOf, Zenon
    <3>3. Len(Numeral(m)) = Len(Digits[m]) /\ Numeral(m) \in Seq(Int)
      BY NumeralOf
    <3>4. 1 <= Len(Digits[m])
      <4>1. \A l \in Nat \ {0} : 1 <= l
        OBVIOUS
      <4>. QED
        BY <3>2, <4>1, Zenon
    <3>. QED
      BY <3>2, <3>3, <3>4, Zenon
  <2>. QED
    BY <2>1
<1>3. d \in Seq(Int) /\ k + 1 <= Len(d) /\ Len(d) <= k + 3
  <2>1. CASE n < 0
    <3>. DEFINE s == Numeral(-n)
                t == <<Minus>>
    <3>1. -n \in Nat /\ -n <= 255
      BY <2>1
    <3>2. s \in Seq(Int) /\ 1 <= Len(s) /\ Len(s) <= 3 /\ t \in Seq(Int) /\ Len(t) = 1
      BY <1>2, <3>1 DEF Minus
    <3>3. d = t \o s
      BY <2>1 DEF Decimal, Numeral
    <3>4. k = 1
      BY <2>1
    <3>. HIDE DEF s, t, d, k
    <3>5. t \o s \in Seq(Int) /\ Len(t \o s) = Len(t) + Len(s)
      BY <3>2, Joined
    <3>6. d \in Seq(Int) /\ Len(d) = Len(t) + Len(s)
      BY <3>3, <3>5, Zenon
    <3>. QED
      BY <3>2, <3>4, <3>6
  <2>2. CASE ~(n < 0)
    <3>1. n \in Nat /\ n <= 255
      BY <2>2
    <3>2. d = Numeral(n)
      BY <3>1, NumberOf
    <3>3. k = 0
      BY <2>2
    <3>4. 1 <= Len(Numeral(n)) /\ Len(Numeral(n)) <= 3 /\ Numeral(n) \in Seq(Int)
      BY <1>2, <3>1
    <3>. HIDE DEF d, k
    <3>. QED
      BY <3>2, <3>3, <3>4
  <2>. QED
    BY <2>1, <2>2
<1>4. ThreeDigits(n) = Text(a \o z \o b, n)
  BY DEF ThreeDigits
<1>. HIDE DEF d
<1>5. k \in 0..1
  OBVIOUS
<1>. HIDE DEF k
<1>6. a \in Seq(Int) /\ Len(a) = k
  <2>1. 1 \in 1..Len(d) + 1 /\ k \in 0..Len(d) /\ 1 <= k + 1 /\ k - 1 + 1 = k
    BY <1>3, <1>5
  <2>. QED
    BY <1>3, <2>1, Piece
<1>7. b \in Seq(Int) /\ Len(b) = Len(d) - k
  <2>1. /\ k + 1 \in 1..Len(d) + 1 /\ Len(d) \in 0..Len(d) /\ k + 1 <= Len(d) + 1
        /\ Len(d) - (k + 1) + 1 = Len(d) - k
    BY <1>3, <1>5
  <2>. QED
    BY <1>3, <2>1, Piece
<1>8. z \in Seq(Int) /\ (Len(d) <= 3 => Len(z) = 3 - Len(d)) /\ (Len(d) > 3 => Len(z) = 0)
  <2>. DEFINE m == 3 - Len(d)
  <2>1. m \in Int /\ m <= 2
    BY <1>3, <1>5
  <2>2. CASE m >= 0
    <3>1. m \in Nat
      BY <2>1, <2>2
    <3>2. z = [i \in 1..m |-> 48]
      OBVIOUS
    <3>. HIDE DEF z
    <3>3. z \in Seq(Int) /\ Len(z) = m
      <4>. HIDE DEF m
      <4>. QED
        BY <3>1, <3>2
    <3>4. Len(d) \in Nat /\ ~(Len(d) > 3)
      <4>1. Len(d) \in Nat
        BY <1>3
      <4>. QED
        BY <2>2, <4>1
    <3>. QED
      BY <3>3, <3>4, Zenon
  <2>3. CASE ~(m >= 0)
    <3>1. 1..m = 1..0
      BY <2>1, <2>3
    <3>2. z = [i \in 1..0 |-> 48]
      BY <3>1
    <3>3. [i \in 1..0 |-> 48] \in Seq(Int) /\ Len([i \in 1..0 |-> 48]) = 0
      OBVIOUS
    <3>4. ~(Len(d) <= 3)
      <4>1. Len(d) \in Nat
        BY <1>3
      <4>. QED
        BY <2>3, <4>1
    <3>. HIDE DEF z
    <3>. QED
      BY <3>2, <3>3, <3>4
  <2>. QED
    BY <2>2, <2>3
<1>. HIDE DEF a, z, b
<1>9. a \o z \o b \in Seq(Int) /\ Len(a \o z \o b) = Len(a) + Len(z) + Len(b)
  <2>1. a \o z \in Seq(Int) /\ Len(a \o z) = Len(a) + Len(z)
    BY <1>6, <1>8, Joined
  <2>. DEFINE w == a \o z
  <2>. HIDE DEF w
  <2>2. w \in Seq(Int) /\ Len(w) = Len(a) + Len(z)
    BY <2>1 DEF w
  <2>3. w \o b \in Seq(Int) /\ Len(w \o b) = Len(w) + Len(b)
    BY <1>7, <2>2, Joined
  <2>4. Len(w \o b) = Len(a) + Len(z) + Len(b)
    BY <2>2, <2>3, Zenon
  <2>. QED
    BY <2>3, <2>4 DEF w
<1>10. 3 <= Len(a \o z \o b) /\ Len(a \o z \o b) <= 4
  <2>1. Len(d) \in Nat
    BY <1>3
  <2>2. ASSUME NEW l \in Nat, NEW h \in {0, 1}, h + 1 <= l, l <= h + 3, NEW y \in Int,
               l <= 3 => y = 3 - l, l > 3 => y = 0
        PROVE  3 <= h + y + (l - h) /\ h + y + (l - h) <= 4
    BY <2>2
  <2>3. k \in {0, 1} /\ Len(z) \in Int
    BY <1>5, <1>8
  <2>4. 3 <= k + Len(z) + (Len(d) - k) /\ k + Len(z) + (Len(d) - k) <= 4
    BY <1>3, <1>8, <2>1, <2>2, <2>3, Zenon
  <2>. QED
    BY <1>6, <1>7, <1>9, <2>4, Zenon
<1>. DEFINE w == a \o z \o b
<1>. HIDE DEF w
<1>11. Text(w, n) \in Texts /\ Text(w, n).len = Len(w) /\ Text(w, n).num = n
  BY <1>1, <1>9, TextOf DEF w
<1>. QED
  BY <1>4, <1>10, <1>11 DEF w

(***************************************************************************)
(* Sizes.                                                                  *)
(***************************************************************************)

\* The lengths of fields.
Lens(s) == [i \in DOMAIN s |-> s[i].len]

\* The lengths of the fields, and what Size is of them.
LEMMA LensOf ==
  ASSUME NEW s \in Seq(Fields)
  PROVE  /\ Lens(s) \in Seq(Int) /\ Len(Lens(s)) = Len(s)
         /\ \A i \in 1..Len(s) : Lens(s)[i] = s[i].len /\ s[i].len \in Nat \ {0}
         /\ Size(s) = Total(Lens(s))
<1>. DEFINE n == Len(s)
<1>1. n \in Nat /\ DOMAIN s = 1..n /\ \A i \in 1..n : s[i] \in Fields
  OBVIOUS
<1>2. \A i \in 1..n : s[i].len \in Nat \ {0} /\ s[i].len \in Int
  BY <1>1 DEF Fields
<1>3. Lens(s) = [i \in 1..n |-> s[i].len]
  BY <1>1 DEF Lens
<1>4. Size(s) = Total(Lens(s))
  BY DEF Size, Lens
<1>. HIDE DEF n
<1>5. Lens(s) \in Seq(Int) /\ Len(Lens(s)) = n /\ \A i \in 1..n : Lens(s)[i] = s[i].len
  BY <1>1, <1>2, <1>3
<1>. QED
  BY <1>2, <1>4, <1>5 DEF n

\* The size of nothing, of two stretches of fields, of one field and of one more.
LEMMA SizeOf ==
  ASSUME NEW s \in Seq(Fields)
  PROVE  /\ Size(s) \in Nat /\ SumOf(s) \in Int
         /\ s = <<>> => Size(s) = 0
         /\ \A t \in Seq(Fields) : Size(s \o t) = Size(s) + Size(t)
         /\ \A f \in Fields : Size(<<f>>) = f.len /\ Size(Append(s, f)) = Size(s) + f.len
<1>1. Size(s) \in Nat
  <2>1. \A i \in 1..Len(s) : Lens(s)[i] >= 0
    BY LensOf
  <2>2. Lens(s) \in Seq(Int) /\ Len(Lens(s)) = Len(s) /\ Size(s) = Total(Lens(s))
    BY LensOf
  <2>3. Total(Lens(s)) \in Int /\ Total(Lens(s)) >= 0
    BY <2>1, <2>2, TotalOf
  <2>. QED
    BY <2>2, <2>3
<1>2. SumOf(s) \in Int
  <2>. DEFINE sums == [i \in DOMAIN s |-> s[i].sum]
              n == Len(s)
  <2>1. n \in Nat /\ DOMAIN s = 1..n /\ \A i \in 1..n : s[i] \in Fields
    OBVIOUS
  <2>2. \A i \in 1..n : s[i].sum \in Int
    BY <2>1 DEF Fields
  <2>3. sums = [i \in 1..n |-> s[i].sum]
    BY <2>1
  <2>4. sums \in Seq(Int)
    <3>. HIDE DEF n, sums
    <3>. QED
      BY <2>1, <2>2, <2>3
  <2>5. Total(sums) \in Int
    <3>. HIDE DEF sums
    <3>. QED
      BY <2>4, TotalOf
  <2>. QED
    BY <2>5 DEF SumOf
<1>3. s = <<>> => Size(s) = 0
  <2>. SUFFICES ASSUME s = <<>> PROVE Size(s) = 0
    OBVIOUS
  <2>1. Lens(s) \in Seq(Int) /\ Len(Lens(s)) = 0 /\ Size(s) = Total(Lens(s))
    BY LensOf
  <2>2. Lens(s) = <<>>
    BY <2>1, EmptySeq
  <2>. QED
    BY <2>1, <2>2, TotalOf
<1>4. ASSUME NEW t \in Seq(Fields) PROVE Size(s \o t) = Size(s) + Size(t)
  <2>. DEFINE u == s \o t
              v == Lens(s) \o Lens(t)
              n == Len(s)
              m == Len(t)
  <2>1. /\ u \in Seq(Fields) /\ Len(u) = n + m /\ n \in Nat /\ m \in Nat
        /\ \A i \in 1..n + m : u[i] = IF i <= n THEN s[i] ELSE t[i - n]
    BY ConcatProperties
  <2>2. /\ Lens(s) \in Seq(Int) /\ Len(Lens(s)) = n /\ Size(s) = Total(Lens(s))
        /\ \A i \in 1..n : Lens(s)[i] = s[i].len
    BY LensOf
  <2>3. /\ Lens(t) \in Seq(Int) /\ Len(Lens(t)) = m /\ Size(t) = Total(Lens(t))
        /\ \A i \in 1..m : Lens(t)[i] = t[i].len
    BY LensOf
  <2>. HIDE DEF u, n, m
  <2>4. /\ Lens(u) \in Seq(Int) /\ Len(Lens(u)) = n + m /\ Size(u) = Total(Lens(u))
        /\ \A i \in 1..n + m : Lens(u)[i] = u[i].len
    <3>1. /\ Lens(u) \in Seq(Int) /\ Len(Lens(u)) = Len(u) /\ Size(u) = Total(Lens(u))
          /\ \A i \in 1..Len(u) : Lens(u)[i] = u[i].len
      BY <2>1, LensOf
    <3>. QED
      BY <2>1, <3>1
  <2>5. /\ v \in Seq(Int) /\ Len(v) = n + m
        /\ \A i \in 1..n + m : v[i] = IF i <= n THEN Lens(s)[i] ELSE Lens(t)[i - n]
    <3>. DEFINE a == Lens(s)
                b == Lens(t)
    <3>. HIDE DEF a, b
    <3>1. /\ a \o b \in Seq(Int) /\ Len(a \o b) = Len(a) + Len(b)
          /\ \A i \in 1..Len(a) + Len(b) :
               (a \o b)[i] = IF i <= Len(a) THEN a[i] ELSE b[i - Len(a)]
      BY <2>2, <2>3, ConcatProperties DEF a, b
    <3>2. Len(a) = n /\ Len(b) = m
      BY <2>2, <2>3 DEF a, b
    <3>3. /\ a \o b \in Seq(Int) /\ Len(a \o b) = n + m
          /\ \A i \in 1..n + m : (a \o b)[i] = IF i <= n THEN a[i] ELSE b[i - n]
      BY <3>1, <3>2, Zenon
    <3>. QED
      BY <3>3 DEF a, b
  <2>. HIDE DEF v
  <2>6. ASSUME NEW i \in 1..n + m PROVE Lens(u)[i] = v[i]
    <3>1. CASE i <= n
      <4>1. i \in 1..n
        BY <2>1, <3>1
      <4>. QED
        BY <2>1, <2>2, <2>4, <2>5, <3>1, <4>1
    <3>2. CASE ~(i <= n)
      <4>1. i - n \in 1..m
        BY <2>1, <3>2
      <4>. QED
        BY <2>1, <2>3, <2>4, <2>5, <3>2, <4>1
    <3>. QED
      BY <3>1, <3>2
  <2>7. Lens(u) = v
    BY <2>4, <2>5, <2>6, SeqEqual
  <2>8. Total(v) = Total(Lens(s)) + Total(Lens(t))
    BY <2>2, <2>3, TotalOf DEF v
  <2>. QED
    BY <2>2, <2>3, <2>4, <2>7, <2>8 DEF u
<1>5. ASSUME NEW f \in Fields
      PROVE  Size(<<f>>) = f.len /\ Size(Append(s, f)) = Size(s) + f.len
  <2>. DEFINE t == <<f>>
              l == Lens(t)
  <2>1. t \in Seq(Fields) /\ Len(t) = 1 /\ t[1] = f /\ 1 \in 1..1
    OBVIOUS
  <2>. HIDE DEF t
  <2>2. l \in Seq(Int) /\ Len(l) = 1 /\ l[1] = f.len /\ Size(t) = Total(l)
    BY <2>1, LensOf
  <2>. HIDE DEF l
  <2>3. PICK g \in [0..1 -> Int] :
          /\ Total(l) = g[1] /\ g[0] = 0
          /\ \A i \in 1..1 : g[i] = g[i - 1] + l[i]
    <3>1. \E g \in [0..Len(l) -> Int] :
            /\ Total(l) = g[Len(l)] /\ g[0] = 0
            /\ \A i \in 1..Len(l) : g[i] = g[i - 1] + l[i]
      BY <2>2, TotalSteps
    <3>2. Len(l) = 1
      BY <2>2
    <3>. QED
      BY <3>1, <3>2, Zenon
  <2>4. f.len \in Int
    BY DEF Fields
  <2>5. Size(t) = f.len
    <3>1. g[1] = g[1 - 1] + l[1] /\ 1 - 1 = 0
      BY <2>3
    <3>. QED
      BY <2>2, <2>3, <2>4, <3>1
  <2>6. Append(s, f) = s \o t
    BY AppendIsConcat DEF t
  <2>7. Size(s \o t) = Size(s) + Size(t)
    BY <1>4, <2>1
  <2>. QED
    BY <2>5, <2>6, <2>7 DEF t
<1>. QED
  BY <1>1, <1>2, <1>3, <1>4, <1>5

\* The size of a few fields that are written down.
LEMMA SizeOfTwo ==
  ASSUME NEW a \in Fields, NEW b \in Fields
  PROVE  Size(<<a, b>>) = a.len + b.len
<1>. DEFINE s == <<a>>
<1>1. s \in Seq(Fields) /\ <<a, b>> = Append(s, b)
  OBVIOUS
<1>. HIDE DEF s
<1>2. Size(s) = a.len
  <2>1. <<>> \in Seq(Fields)
    OBVIOUS
  <2>. QED
    BY <2>1, SizeOf DEF s
<1>. QED
  BY <1>1, <1>2, SizeOf

\* The size of five fields.
LEMMA SizeOfFive ==
  ASSUME NEW a \in Fields, NEW b \in Fields, NEW c \in Fields, NEW d \in Fields,
         NEW e \in Fields
  PROVE  Size(<<a, b, c, d, e>>) = a.len + b.len + c.len + d.len + e.len
<1>. DEFINE s == <<a, b>>
            t == <<c, d>>
            u == <<e>>
<1>1. s \in Seq(Fields) /\ t \in Seq(Fields) /\ u \in Seq(Fields)
  OBVIOUS
<1>2. <<a, b, c, d, e>> = (s \o t) \o u
  OBVIOUS
<1>3. Size(s) = a.len + b.len /\ Size(t) = c.len + d.len /\ Size(u) = e.len
  <2>1. Size(u) = e.len
    BY SizeOf, EmptySeq
  <2>. QED
    BY <2>1, SizeOfTwo
<1>. HIDE DEF s, t, u
<1>4. s \o t \in Seq(Fields) /\ Size((s \o t) \o u) = (Size(s) + Size(t)) + Size(u)
  <2>1. s \o t \in Seq(Fields)
    BY <1>1, ConcatProperties
  <2>2. Size((s \o t) \o u) = Size(s \o t) + Size(u) /\ Size(s \o t) = Size(s) + Size(t)
    BY <1>1, <2>1, SizeOf
  <2>. QED
    BY <2>1, <2>2
<1>5. /\ a.len \in Int /\ b.len \in Int /\ c.len \in Int /\ d.len \in Int
      /\ e.len \in Int
  BY DEF Fields
<1>6. (Size(s) + Size(t)) + Size(u) = a.len + b.len + c.len + d.len + e.len
  BY <1>3, <1>5
<1>. QED
  BY <1>2, <1>4, <1>6, Zenon

(***************************************************************************)
(* The broker's messages.                                                  *)
(***************************************************************************)

\* What an order is made of.
LEMMA OrderType ==
  ASSUME NEW o \in Orders
  PROVE  /\ o.ver \in Nat /\ o.target \in Nat /\ o.sender \in Nat /\ o.seq \in Nat
         /\ o.char \in Int /\ o.type \in Int
         /\ o.type \in {Logon, Heartbeat, MarketRequest}
         /\ o.ver \in IdLens /\ o.target \in IdLens /\ o.sender \in IdLens
         /\ o.seq \in SeqNums
<1>1. /\ o.ver \in IdLens /\ o.target \in IdLens /\ o.sender \in IdLens
      /\ o.seq \in SeqNums /\ o.char \in IdChars
      /\ o.type \in {Logon, Heartbeat, MarketRequest}
  BY DEF Orders
<1>2. IdLens \subseteq Nat /\ SeqNums \subseteq Nat /\ IdChars \subseteq Int
  <2>1. \A c \in -128..127 : c \in Int
    OBVIOUS
  <2>. QED
    BY <2>1, WriterAssumption, Zenon DEF WriterAssumption
<1>3. o.type \in Int
  BY <1>1 DEF Logon, Heartbeat, MarketRequest
<1>. QED
  BY <1>1, <1>2, <1>3, Zenon

\* The fields behind the first one.
Rest == {f \in Fields : f.tag # 8}

\* Tags of two and of three digits.
LEMMA TagOf ==
  ASSUME NEW tag \in Nat, tag >= 10, tag < 1000, NEW val \in Texts
  PROVE  /\ Field(tag, val) \in Rest /\ Field(tag, val) \in Fields /\ val.len \in Nat
         /\ tag < 100 => Field(tag, val).len = val.len + 4
         /\ tag >= 100 => Field(tag, val).len = val.len + 5
<1>. DEFINE d == Len(Digits[tag])
            f == Field(tag, val)
<1>1. f \in Fields /\ f.tag = tag /\ f.len = d + val.len + 2
  BY FieldOf
<1>2. (tag < 100 => d = 2) /\ (tag >= 100 => d = 3)
  BY FewDigits
<1>3. val.len \in Nat
  BY DEF Texts
<1>. HIDE DEF d, f
<1>4. /\ tag < 100 => f.len = val.len + 4
      /\ tag >= 100 => f.len = val.len + 5
  BY <1>1, <1>2, <1>3
<1>5. tag # 8
  OBVIOUS
<1>6. f \in Rest
  BY <1>1, <1>5 DEF Rest
<1>. QED
  BY <1>1, <1>3, <1>4, <1>6 DEF f

\* Numbers of one, two and four digits.
LEMMA NumberLens ==
  ASSUME NEW n \in Nat
  PROVE  /\ Number(n) \in Texts
         /\ n < 10 => Number(n).len = 1
         /\ n >= 10 /\ n < 100 => Number(n).len = 2
         /\ n >= 1000 /\ n < 10000 => Number(n).len = 4
<1>. DEFINE x == Number(n)
            d == Len(Digits[n])
<1>1. x \in Texts /\ x.len = d
  BY NumberOf
<1>2. /\ n < 10 => d = 1
      /\ n >= 10 /\ n < 100 => d = 2
      /\ n >= 1000 /\ n < 10000 => d = 4
  BY FewDigits
<1>. HIDE DEF x, d
<1>3. /\ x \in Texts
      /\ n < 10 => x.len = 1
      /\ n >= 10 /\ n < 100 => x.len = 2
      /\ n >= 1000 /\ n < 10000 => x.len = 4
  BY <1>1, <1>2
<1>. QED
  BY <1>3 DEF x

\* The values that are the same in each message.
LEMMA ValueLens ==
  /\ Stamp \in Texts /\ Stamp.len = 21
  /\ Text(<<84, 69, 83, 84>>, 0) \in Texts /\ Text(<<84, 69, 83, 84>>, 0).len = 4
<1>4. Stamp \in Texts /\ Stamp.len = 21
  <2>. DEFINE a == [i \in 1..17 |-> 48]
              b == <<45, 58, 58, 46>>
  <2>1. a \in Seq(Int) /\ Len(a) = 17
    <3>. DEFINE n == 17
                c == [i \in 1..n |-> 48]
    <3>1. n \in Nat
      OBVIOUS
    <3>2. c \in Seq(Int) /\ Len(c) = n
      <4>. HIDE DEF n
      <4>. QED
        BY <3>1
    <3>. QED
      BY <3>2
  <2>2. b \in Seq(Int) /\ Len(b) = 4
    OBVIOUS
  <2>. HIDE DEF a, b
  <2>3. a \o b \in Seq(Int) /\ Len(a \o b) = 21
    <3>1. a \o b \in Seq(Int) /\ Len(a \o b) = Len(a) + Len(b)
      BY <2>1, <2>2, ConcatProperties
    <3>. QED
      BY <2>1, <2>2, <3>1
  <2>4. Stamp = Text(a \o b, 0)
    BY DEF Stamp, a, b
  <2>. DEFINE w == a \o b
  <2>. HIDE DEF w
  <2>5. w \in Seq(Int) /\ Len(w) = 21 /\ 0 \in Int
    BY <2>3 DEF w
  <2>6. Text(w, 0) \in Texts /\ Text(w, 0).len = Len(w)
    BY <2>5, TextOf
  <2>7. Stamp = Text(w, 0)
    BY <2>4 DEF w
  <2>. HIDE DEF Stamp
  <2>. QED
    BY <2>5, <2>6, <2>7
<1>5. Text(<<84, 69, 83, 84>>, 0) \in Texts /\ Text(<<84, 69, 83, 84>>, 0).len = 4
  <2>. DEFINE s == <<84, 69, 83, 84>>
  <2>1. s \in Seq(Int) /\ Len(s) = 4
    OBVIOUS
  <2>. HIDE DEF s
  <2>2. 0 \in Int
    OBVIOUS
  <2>3. Text(s, 0) \in Texts /\ Text(s, 0).len = Len(s)
    BY <2>1, <2>2, TextOf
  <2>4. Text(s, 0) \in Texts /\ Text(s, 0).len = 4
    BY <2>1, <2>3, Zenon
  <2>. QED
    BY <2>4 DEF s
<1>. QED
  BY <1>4, <1>5

\* What all messages begin with.
Header(o) == Field(8, Id(o.ver, o.char))
Middle(o) ==
  << Field(35, Char(o.type)),
     Field(56, Id(o.target, o.char)), Field(49, Id(o.sender, o.char)),
     Field(52, Stamp), Field(34, Number(o.seq)) >>

\* The opening is the header and five other fields, whose size is this.
LEMMA OpeningOf ==
  ASSUME NEW o \in Orders
  PROVE  /\ Opening(o) = <<Header(o)>> \o Middle(o)
         /\ Header(o) \in Fields /\ Header(o).tag = 8 /\ Header(o).len = o.ver + 3
         /\ Middle(o) \in Seq(Rest) /\ Len(Middle(o)) = 5
         /\ Middle(o)[1] = Field(35, Char(o.type))
         /\ Size(Middle(o)) = o.target + o.sender + Len(Digits[o.seq]) + 42
<1>. DEFINE a == Header(o)
            b == Field(35, Char(o.type))
            c == Field(56, Id(o.target, o.char))
            d == Field(49, Id(o.sender, o.char))
            e == Field(52, Stamp)
            f == Field(34, Number(o.seq))
            k == Len(Digits[o.seq])
<1>1. /\ o.ver \in Nat /\ o.target \in Nat /\ o.sender \in Nat /\ o.seq \in Nat
      /\ o.char \in Int /\ o.type \in Int
  BY OrderType
<1>2. k \in Nat
  BY <1>1, DigitCount, Zenon
<1>3. a \in Fields /\ a.tag = 8 /\ a.len = o.ver + 3
  <2>1. Id(o.ver, o.char) \in Texts /\ Id(o.ver, o.char).len = o.ver
    BY <1>1, IdOf
  <2>2. 8 \in Nat /\ 8 < 10
    OBVIOUS
  <2>3. Len(Digits[8]) = 1
    BY <2>2, FewDigits
  <2>4. /\ a \in Fields /\ a.tag = 8
        /\ a.len = Len(Digits[8]) + Id(o.ver, o.char).len + 2
    BY <2>1, <2>2, FieldOf DEF Header
  <2>. HIDE DEF a
  <2>5. a.len = 1 + o.ver + 2
    BY <2>1, <2>3, <2>4, Zenon
  <2>. QED
    BY <1>1, <2>4, <2>5
<1>4. b \in Rest /\ b \in Fields /\ b.len = 5
  <2>. DEFINE v == Char(o.type)
  <2>1. v \in Texts /\ v.len = 1
    BY <1>1, CharOf
  <2>. HIDE DEF v
  <2>. QED
    BY <2>1, TagOf DEF v
<1>5. c \in Rest /\ c \in Fields /\ c.len = o.target + 4
  <2>. DEFINE v == Id(o.target, o.char)
  <2>1. v \in Texts /\ v.len = o.target
    BY <1>1, IdOf
  <2>. HIDE DEF v
  <2>. QED
    BY <2>1, TagOf DEF v
<1>6. d \in Rest /\ d \in Fields /\ d.len = o.sender + 4
  <2>. DEFINE v == Id(o.sender, o.char)
  <2>1. v \in Texts /\ v.len = o.sender
    BY <1>1, IdOf
  <2>. HIDE DEF v
  <2>. QED
    BY <2>1, TagOf DEF v
<1>7. e \in Rest /\ e \in Fields /\ e.len = 25
  BY ValueLens, TagOf
<1>8. f \in Rest /\ f \in Fields /\ f.len = k + 4
  <2>. DEFINE v == Number(o.seq)
  <2>1. v \in Texts /\ v.len = k
    BY <1>1, NumberOf
  <2>. HIDE DEF v, k
  <2>. QED
    BY <2>1, TagOf DEF v
<1>9. Middle(o) = <<b, c, d, e, f>> /\ Opening(o) = <<a, b, c, d, e, f>>
  BY DEF Middle, Opening, Header
<1>. HIDE DEF a, b, c, d, e, f, k
<1>10. /\ <<b, c, d, e, f>> \in Seq(Rest) /\ Len(<<b, c, d, e, f>>) = 5
       /\ <<b, c, d, e, f>>[1] = b
       /\ <<a, b, c, d, e, f>> = <<a>> \o <<b, c, d, e, f>>
  BY <1>4, <1>5, <1>6, <1>7, <1>8
<1>11. Size(<<b, c, d, e, f>>) = b.len + c.len + d.len + e.len + f.len
  BY <1>4, <1>5, <1>6, <1>7, <1>8, SizeOfFive
<1>12. b.len + c.len + d.len + e.len + f.len = o.target + o.sender + k + 42
  BY <1>1, <1>2, <1>4, <1>5, <1>6, <1>7, <1>8
<1>. QED
  BY <1>3, <1>9, <1>10, <1>11, <1>12, Zenon DEF a, b, k

\* What a logon adds.
LEMMA LogonOf ==
  ASSUME NEW o \in Orders
  PROVE  LogonFields(o) \in Seq(Rest) /\ Size(LogonFields(o)) = 2 * o.sender + 28
<1>. DEFINE v == Id(o.sender, o.char)
            a == Field(141, Char(89))
            b == Field(98, Number(0))
            c == Field(108, Number(30))
            d == Field(553, v)
            e == Field(554, v)
<1>1. o.sender \in Nat /\ o.char \in Int
  BY OrderType
<1>2. v \in Texts /\ v.len = o.sender
  BY <1>1, IdOf
<1>3. a \in Rest /\ a \in Fields /\ a.len = 6
  <2>. DEFINE w == Char(89)
  <2>1. w \in Texts /\ w.len = 1
    BY CharOf
  <2>. HIDE DEF w
  <2>. QED
    BY <2>1, TagOf DEF w
<1>4. b \in Rest /\ b \in Fields /\ b.len = 5
  <2>. DEFINE w == Number(0)
  <2>1. w \in Texts /\ w.len = 1
    BY NumberLens
  <2>. HIDE DEF w
  <2>. QED
    BY <2>1, TagOf DEF w
<1>5. c \in Rest /\ c \in Fields /\ c.len = 7
  <2>. DEFINE w == Number(30)
  <2>1. w \in Texts /\ w.len = 2
    BY NumberLens
  <2>. HIDE DEF w
  <2>. QED
    BY <2>1, TagOf DEF w
<1>. HIDE DEF v
<1>6. /\ d \in Rest /\ d \in Fields /\ d.len = o.sender + 5
      /\ e \in Rest /\ e \in Fields /\ e.len = o.sender + 5
  BY <1>2, TagOf
<1>. HIDE DEF a, b, c, d, e
<1>7. <<a, b, c, d, e>> \in Seq(Rest)
  BY <1>3, <1>4, <1>5, <1>6
<1>8. Size(<<a, b, c, d, e>>) = a.len + b.len + c.len + d.len + e.len
  BY <1>3, <1>4, <1>5, <1>6, SizeOfFive
<1>9. a.len + b.len + c.len + d.len + e.len = 2 * o.sender + 28
  BY <1>1, <1>3, <1>4, <1>5, <1>6
<1>10. <<a, b, c, d, e>> \in Seq(Rest) /\ Size(<<a, b, c, d, e>>) = 2 * o.sender + 28
  BY <1>7, <1>8, <1>9, Zenon
<1>11. LogonFields(o) = <<a, b, c, d, e>>
  BY DEF LogonFields, a, b, c, d, e, v
<1>. QED
  BY <1>10, <1>11, Zenon

\* A field with a number of one digit, in a tag of two or three.
LEMMA FlagOf ==
  ASSUME NEW tag \in Nat, tag >= 10, tag < 1000, NEW n \in Nat, n < 10
  PROVE  /\ Field(tag, Number(n)) \in Rest /\ Field(tag, Number(n)) \in Fields
         /\ tag < 100 => Field(tag, Number(n)).len = 5
         /\ tag >= 100 => Field(tag, Number(n)).len = 6
<1>. DEFINE w == Number(n)
<1>1. w \in Texts /\ w.len = 1
  BY NumberLens
<1>. HIDE DEF w
<1>. QED
  BY <1>1, TagOf DEF w

\* One of the instruments that are asked for.
LEMMA InstrumentOf ==
  ASSUME NEW id \in Nat, id >= 1000, id < 10000
  PROVE  Instrument(id) \in Seq(Rest) /\ Instrument(id) \in Seq(Fields) /\ Size(Instrument(id)) = 13
<1>. DEFINE a == Field(48, Number(id))
            b == Field(22, Number(8))
<1>1. a \in Rest /\ a \in Fields /\ a.len = 8
  <2>. DEFINE w == Number(id)
  <2>1. w \in Texts /\ w.len = 4
    BY NumberLens
  <2>. HIDE DEF w
  <2>. QED
    BY <2>1, TagOf DEF w
<1>2. b \in Rest /\ b \in Fields /\ b.len = 5
  BY FlagOf
<1>3. Instrument(id) = <<a, b>>
  BY DEF Instrument
<1>. HIDE DEF a, b
<1>4. <<a, b>> \in Seq(Rest) /\ <<a, b>> \in Seq(Fields)
  BY <1>1, <1>2
<1>5. Size(<<a, b>>) = a.len + b.len
  BY <1>1, <1>2, SizeOfTwo
<1>6. a.len + b.len = 13
  BY <1>1, <1>2
<1>7. Size(<<a, b>>) = 13
  BY <1>5, <1>6
<1>. QED
  BY <1>3, <1>4, <1>7

\* What a market request adds.
LEMMA MarketRequestOf ==
  MarketFields \in Seq(Rest) /\ Size(MarketFields) = 97
<1>. DEFINE a == Field(262, Text(<<84, 69, 83, 84>>, 0))
            b == Field(263, Number(1))
            c == Field(264, Number(0))
            d == Field(267, Number(2))
            e == Field(269, Number(0))
            f == Field(269, Number(1))
            g == Field(146, Number(4))
            s == <<a, b, c, d, e, f, g>>
            i2 == Instrument(5002)
            i3 == Instrument(5003)
            i4 == Instrument(5004)
            i5 == Instrument(5005)
<1>1. a \in Rest /\ a \in Fields /\ a.len = 9
  <2>. DEFINE w == Text(<<84, 69, 83, 84>>, 0)
  <2>1. w \in Texts /\ w.len = 4
    BY ValueLens
  <2>. HIDE DEF w
  <2>. QED
    BY <2>1, TagOf DEF w
<1>2. /\ b \in Rest /\ b \in Fields /\ b.len = 6
      /\ c \in Rest /\ c \in Fields /\ c.len = 6
  BY FlagOf
<1>3. /\ d \in Rest /\ d \in Fields /\ d.len = 6
      /\ e \in Rest /\ e \in Fields /\ e.len = 6
  BY FlagOf
<1>4. /\ f \in Rest /\ f \in Fields /\ f.len = 6
      /\ g \in Rest /\ g \in Fields /\ g.len = 6
  BY FlagOf
<1>5. /\ i2 \in Seq(Rest) /\ i2 \in Seq(Fields) /\ Size(i2) = 13
      /\ i3 \in Seq(Rest) /\ i3 \in Seq(Fields) /\ Size(i3) = 13
  BY InstrumentOf
<1>6. /\ i4 \in Seq(Rest) /\ i4 \in Seq(Fields) /\ Size(i4) = 13
      /\ i5 \in Seq(Rest) /\ i5 \in Seq(Fields) /\ Size(i5) = 13
  BY InstrumentOf
<1>. HIDE DEF a, b, c, d, e, f, g, i2, i3, i4, i5
<1>7. s \in Seq(Rest) /\ s \in Seq(Fields)
  BY <1>1, <1>2, <1>3, <1>4
<1>8. Size(s) = 45
  <2>. DEFINE p == <<a, b, c, d, e>>
              q == <<f, g>>
  <2>1. /\ p \in Seq(Fields) /\ q \in Seq(Fields) /\ s = p \o q
        /\ Size(p) = a.len + b.len + c.len + d.len + e.len
        /\ Size(q) = f.len + g.len
    <3>1. p \in Seq(Fields) /\ q \in Seq(Fields) /\ s = p \o q
      BY <1>1, <1>2, <1>3, <1>4
    <3>2. Size(p) = a.len + b.len + c.len + d.len + e.len
      BY <1>1, <1>2, <1>3, SizeOfFive
    <3>3. Size(q) = f.len + g.len
      BY <1>4, SizeOfTwo
    <3>. QED
      BY <3>1, <3>2, <3>3
  <2>. HIDE DEF p, q
  <2>2. Size(s) = (a.len + b.len + c.len + d.len + e.len) + (f.len + g.len)
    <3>1. Size(p \o q) = Size(p) + Size(q)
      BY <2>1, SizeOf
    <3>. HIDE DEF s
    <3>. QED
      BY <2>1, <3>1, Zenon
  <2>. DEFINE z == Size(s)
  <2>3. z = (a.len + b.len + c.len + d.len + e.len) + (f.len + g.len)
    BY <2>2
  <2>. HIDE DEF z
  <2>4. z = 45
    BY <1>1, <1>2, <1>3, <1>4, <2>3
  <2>. QED
    BY <2>4 DEF z
<1>9. MarketFields = s \o i2 \o i3 \o i4 \o i5
  BY DEF MarketFields, a, b, c, d, e, f, g, i2, i3, i4, i5
<1>. HIDE DEF s
<1>10. ASSUME NEW x, x \in Seq(Rest), x \in Seq(Fields), NEW y, y \in Seq(Rest), y \in Seq(Fields),
              NEW m \in Nat, NEW n \in Nat, Size(x) = m, Size(y) = n
       PROVE  x \o y \in Seq(Rest) /\ x \o y \in Seq(Fields) /\ Size(x \o y) = m + n
  <2>1. Size(x \o y) = Size(x) + Size(y)
    BY <1>10, SizeOf, Zenon
  <2>2. Size(x \o y) = m + n
    BY <1>10, <2>1, Zenon
  <2>. QED
    BY <1>10, <2>2, ConcatProperties
<1>11. /\ s \o i2 \in Seq(Rest) /\ s \o i2 \in Seq(Fields)
       /\ Size(s \o i2) = 45 + 13
  BY <1>5, <1>7, <1>8, <1>10
<1>. DEFINE t == s \o i2
<1>12. t \in Seq(Rest) /\ t \in Seq(Fields) /\ Size(t) = 58
  BY <1>11
<1>. HIDE DEF t
<1>13. /\ t \o i3 \in Seq(Rest) /\ t \o i3 \in Seq(Fields)
       /\ Size(t \o i3) = 58 + 13
  BY <1>5, <1>10, <1>12
<1>. DEFINE u == t \o i3
<1>14. u \in Seq(Rest) /\ u \in Seq(Fields) /\ Size(u) = 71
  BY <1>13
<1>. HIDE DEF u
<1>15. /\ u \o i4 \in Seq(Rest) /\ u \o i4 \in Seq(Fields)
       /\ Size(u \o i4) = 71 + 13
  BY <1>6, <1>10, <1>14
<1>. DEFINE v == u \o i4
<1>16. v \in Seq(Rest) /\ v \in Seq(Fields) /\ Size(v) = 84
  BY <1>15
<1>. HIDE DEF v
<1>17. /\ v \o i5 \in Seq(Rest) /\ v \o i5 \in Seq(Fields)
       /\ Size(v \o i5) = 84 + 13
  BY <1>6, <1>10, <1>16
<1>. DEFINE w == v \o i5
<1>18. w \in Seq(Rest) /\ Size(w) = 97
  BY <1>17
<1>. HIDE DEF w
<1>19. MarketFields = w
  BY <1>9 DEF t, u, v, w
<1>. QED
  BY <1>18, <1>19

\* What each type of message adds.
LEMMA PushesOf ==
  ASSUME NEW o \in Orders
  PROVE  \E extra \in Seq(Rest) :
           /\ Pushes(o) = Opening(o) \o extra
           /\ \/ o.type = Heartbeat /\ Size(extra) = 0
              \/ o.type = Logon /\ Size(extra) = 2 * o.sender + 28
              \/ o.type = MarketRequest /\ Size(extra) = 97
<1>1. o.type \in {Logon, Heartbeat, MarketRequest}
  BY OrderType
<1>2. Logon # Heartbeat /\ Logon # MarketRequest /\ Heartbeat # MarketRequest
  BY DEF Logon, Heartbeat, MarketRequest
<1>3. CASE o.type = Heartbeat
  <2>1. Pushes(o) = Opening(o) \o <<>>
    BY <1>2, <1>3 DEF Pushes
  <2>2. <<>> \in Seq(Rest) /\ <<>> \in Seq(Fields)
    OBVIOUS
  <2>3. Size(<<>>) = 0
    BY <2>2, SizeOf
  <2>. QED
    BY <1>3, <2>1, <2>2, <2>3, Zenon
<1>4. CASE o.type = Logon
  <2>1. Pushes(o) = Opening(o) \o LogonFields(o)
    BY <1>2, <1>4 DEF Pushes
  <2>. QED
    BY <1>4, <2>1, LogonOf, Zenon
<1>5. CASE o.type = MarketRequest
  <2>1. Pushes(o) = Opening(o) \o MarketFields
    BY <1>2, <1>5 DEF Pushes
  <2>2. MarketFields \in Seq(Rest)
    BY MarketRequestOf
  <2>3. Size(MarketFields) = 97
    BY MarketRequestOf
  <2>. QED
    BY <1>5, <2>1, <2>2, <2>3
<1>. QED
  BY <1>1, <1>3, <1>4, <1>5

\* The message behind its header, the length of that, and the message as it is
\* when its trailer is written.
Behind(o)      == Tail(Pushes(o))
LengthField(o) == Field(9, Number(Size(Behind(o))))
Covered(o)     == <<Header(o), LengthField(o)>> \o Behind(o)
Trailer(o)     == Field(10, ThreeDigits(Rem(SumOf(Covered(o)), 256)))
Written(o)     == Append(Covered(o), Trailer(o))

\* A message is its header and at least five fields with other tags, the type
\* first; how long these are depends on the type.
LEMMA MessageOf ==
  ASSUME NEW o \in Orders
  PROVE  /\ Pushes(o) = <<Header(o)>> \o Behind(o)
         /\ Behind(o) \in Seq(Rest) /\ Behind(o) \in Seq(Fields) /\ Len(Behind(o)) >= 5
         /\ Behind(o)[1] = Field(35, Char(o.type))
         /\ \E more \in {0, 2 * o.sender + 28, 97} :
              Size(Behind(o)) = o.target + o.sender + Len(Digits[o.seq]) + 42 + more
<1>. DEFINE h == Header(o)
            m == Middle(o)
            k == Len(Digits[o.seq])
            z == o.target + o.sender + k + 42
<1>1. /\ o.target \in Nat /\ o.sender \in Nat /\ o.seq \in Nat
  BY OrderType
<1>2. k \in Nat
  BY <1>1, DigitCount, Zenon
<1>3. Rest \subseteq Fields
  BY DEF Rest
<1>4. PICK extra \in Seq(Rest) :
        /\ Pushes(o) = Opening(o) \o extra
        /\ \/ o.type = Heartbeat /\ Size(extra) = 0
           \/ o.type = Logon /\ Size(extra) = 2 * o.sender + 28
           \/ o.type = MarketRequest /\ Size(extra) = 97
  BY PushesOf
<1>5. /\ Opening(o) = <<h>> \o m /\ h \in Fields
      /\ m \in Seq(Rest) /\ Len(m) = 5 /\ m[1] = Field(35, Char(o.type))
      /\ Size(m) = z
  BY OpeningOf, Zenon
<1>6. Size(extra) \in {0, 2 * o.sender + 28, 97}
  BY <1>4
<1>7. extra \in Seq(Fields) /\ m \in Seq(Fields)
  BY <1>3, <1>4, <1>5
<1>8. Size(m \o extra) = Size(m) + Size(extra)
  BY <1>7, SizeOf
<1>. HIDE DEF h, m, k, z
<1>9. (<<h>> \o m) \o extra = <<h>> \o (m \o extra)
  BY <1>5, <1>7
<1>. DEFINE b == m \o extra
<1>10. /\ b \in Seq(Rest) /\ b \in Seq(Fields) /\ Len(b) >= 5
       /\ b[1] = m[1]
  BY <1>4, <1>5, <1>7
<1>11. Size(b) = z + Size(extra)
  BY <1>5, <1>8
<1>12. Pushes(o) = <<h>> \o b
  BY <1>4, <1>5, <1>9
<1>. HIDE DEF b
<1>13. Tail(<<h>> \o b) = b
  BY <1>5, <1>10
<1>14. Behind(o) = b
  BY <1>12, <1>13 DEF Behind
<1>15. \E more \in {0, 2 * o.sender + 28, 97} : Size(b) = z + more
  BY <1>6, <1>11, Zenon
<1>16. \E more \in {0, 2 * o.sender + 28, 97} :
         Size(b) = o.target + o.sender + k + 42 + more
  BY <1>15 DEF z
<1>. QED
  BY <1>5, <1>10, <1>12, <1>14, <1>16, Zenon DEF h, k

\* What is written in the end, and where its parts are.
LEMMA WrittenOf ==
  ASSUME NEW o \in Orders
  PROVE  /\ Size(Behind(o)) \in Nat \ {0}
         /\ LengthField(o) \in Fields /\ LengthField(o).tag = 9
         /\ LengthField(o).val.num = Size(Behind(o))
         /\ LengthField(o).len = Len(Digits[Size(Behind(o))]) + 3
         /\ Covered(o) \in Seq(Fields) /\ SumOf(Covered(o)) \in Int
         /\ Trailer(o) \in Fields /\ Trailer(o).tag = 10
         /\ Trailer(o).val.num = Rem(SumOf(Covered(o)), 256)
         /\ Trailer(o).len <= 8
         /\ Written(o) \in Seq(Fields) /\ Len(Written(o)) = Len(Behind(o)) + 3
         /\ Written(o)[1] = Header(o) /\ Written(o)[2] = LengthField(o)
         /\ Written(o)[3] = Behind(o)[1] /\ Written(o)[Len(Written(o))] = Trailer(o)
         /\ SubSeq(Written(o), 1, Len(Written(o)) - 1) = Covered(o)
         /\ SubSeq(Written(o), 3, Len(Written(o)) - 1) = Behind(o)
<1>. DEFINE b == Behind(o)
            n == Size(b)
            h == Header(o)
            l == LengthField(o)
            c == <<h, l>> \o b
            t == Trailer(o)
            w == Append(c, t)
<1>1. b \in Seq(Fields) /\ Len(b) >= 5
  BY MessageOf
<1>2. n \in Nat \ {0}
  <2>. DEFINE k == Len(Digits[o.seq])
  <2>1. PICK more \in {0, 2 * o.sender + 28, 97} :
          n = o.target + o.sender + k + 42 + more
    BY MessageOf, Zenon
  <2>2. o.target \in Nat /\ o.sender \in Nat /\ o.seq \in Nat
    BY OrderType
  <2>3. k \in Nat
    BY <2>2, DigitCount, Zenon
  <2>. HIDE DEF n, k
  <2>4. more \in Nat
    BY <2>2
  <2>. QED
    BY <2>1, <2>2, <2>3, <2>4
<1>3. h \in Fields
  BY OpeningOf
<1>4. l \in Fields /\ l.tag = 9 /\ l.val.num = n /\ l.len = Len(Digits[n]) + 3
  <2>. DEFINE v == Number(n)
  <2>1. v \in Texts /\ v.len = Len(Digits[n]) /\ v.num = n
    BY <1>2, NumberOf
  <2>2. l = Field(9, v)
    BY DEF LengthField
  <2>3. Len(Digits[9]) = 1
    BY FewDigits
  <2>. DEFINE k == Len(Digits[n])
  <2>4. k \in Nat
    BY <1>2, DigitCount, Zenon
  <2>. HIDE DEF v, n, l
  <2>5. /\ l \in Fields /\ l.tag = 9 /\ l.val = v
        /\ l.len = Len(Digits[9]) + v.len + 2
    BY <2>1, <2>2, FieldOf
  <2>6. l.len = 1 + k + 2
    BY <2>1, <2>3, <2>5, Zenon
  <2>. HIDE DEF k
  <2>7. l.len = k + 3
    BY <2>4, <2>6
  <2>. QED
    BY <2>1, <2>5, <2>7, Zenon DEF k
<1>. HIDE DEF n
<1>5. Covered(o) = c
  BY DEF Covered
<1>. HIDE DEF b, h, l
<1>6. c \in Seq(Fields)
  BY <1>1, <1>3, <1>4
<1>7. SumOf(c) \in Int
  BY <1>6, SizeOf
<1>8. /\ t \in Fields /\ t.tag = 10 /\ t.val.num = Rem(SumOf(c), 256) /\ t.len <= 8
  <2>. DEFINE r == Rem(SumOf(c), 256)
              v == ThreeDigits(r)
  <2>1. r \in Int /\ -255 <= r /\ r <= 255
    <3>. DEFINE q == SumOf(c)
    <3>. HIDE DEF q
    <3>. QED
      BY <1>7 DEF Rem, Quot, q
  <2>2. t = Field(10, v)
    BY <1>5 DEF Trailer
  <2>. HIDE DEF r
  <2>3. v \in Texts /\ v.num = r /\ 3 <= v.len /\ v.len <= 4
    BY <2>1, ThreeDigitsOf
  <2>4. Len(Digits[10]) = 2
    BY FewDigits
  <2>. HIDE DEF v, t
  <2>5. t \in Fields /\ t.tag = 10 /\ t.val = v /\ t.len = Len(Digits[10]) + v.len + 2
    BY <2>2, <2>3, FieldOf
  <2>6. t.len = 2 + v.len + 2
    BY <2>4, <2>5, Zenon
  <2>7. v.len \in Int
    BY <2>3 DEF Texts
  <2>8. t.len <= 8
    BY <2>3, <2>6, <2>7
  <2>. QED
    BY <2>3, <2>5, <2>8 DEF r
<1>. HIDE DEF t
<1>9. Written(o) = w
  BY <1>5 DEF Written, t
<1>10. /\ Len(c) = Len(b) + 2 /\ c[1] = h /\ c[2] = l /\ c[3] = b[1]
  BY <1>1, <1>3, <1>4
<1>11. /\ w \in Seq(Fields) /\ Len(w) = Len(b) + 3 /\ w[1] = h /\ w[2] = l
       /\ w[3] = b[1] /\ w[Len(w)] = t
  <2>. HIDE DEF c
  <2>. QED
    BY <1>1, <1>6, <1>8, <1>10
<1>12. SubSeq(w, 1, Len(w) - 1) = c
  <2>1. w = c \o <<t>> /\ <<t>> \in Seq(Fields)
    <3>. HIDE DEF c
    <3>. QED
      BY <1>6, <1>8
  <2>2. Len(w) - 1 = Len(c)
    BY <1>1, <1>10, <1>11
  <2>. HIDE DEF c, w
  <2>. QED
    BY <1>6, <2>1, <2>2, TwoPieces
<1>13. SubSeq(w, 3, Len(w) - 1) = b
  <2>1. Len(w) - 1 = Len(c) /\ Len(w) \in Nat
    BY <1>1, <1>10, <1>11
  <2>2. /\ 3 \in 1..Len(w) + 1 /\ Len(w) - 1 \in 0..Len(w) /\ 3 <= (Len(w) - 1) + 1
    BY <1>1, <1>11
  <2>. DEFINE p == SubSeq(w, 3, Len(w) - 1)
              e == Len(w) - 1
  <2>3. /\ p \in Seq(Fields) /\ Len(p) = e - 3 + 1
        /\ \A i \in 1..e - 3 + 1 : p[i] = w[3 + i - 1]
    <3>. HIDE DEF w
    <3>1. w \in Seq(Fields)
      BY <1>11
    <3>. QED
      BY <2>2, <3>1, Piece
  <2>4. e - 3 + 1 = Len(b) /\ Len(b) \in Nat
    BY <1>1, <1>11
  <2>5. \A i \in 1..Len(b) : w[3 + i - 1] = b[i]
    BY <1>1, <1>3, <1>4, <1>6, <1>8
  <2>6. Len(p) = Len(b) /\ \A i \in 1..Len(b) : p[i] = b[i]
    <3>. HIDE DEF p, w, e
    <3>. QED
      BY <2>3, <2>4, <2>5
  <2>. HIDE DEF p, w
  <2>. QED
    BY <1>1, <2>3, <2>6, SeqEqual DEF p
<1>. HIDE DEF w, c
<1>14. /\ Size(Behind(o)) \in Nat \ {0}
       /\ LengthField(o) \in Fields /\ LengthField(o).tag = 9
       /\ LengthField(o).val.num = Size(Behind(o))
       /\ LengthField(o).len = Len(Digits[Size(Behind(o))]) + 3
  BY <1>2, <1>4, Zenon DEF n, b, l
<1>15. /\ Covered(o) \in Seq(Fields) /\ SumOf(Covered(o)) \in Int
       /\ Trailer(o) \in Fields /\ Trailer(o).tag = 10
       /\ Trailer(o).val.num = Rem(SumOf(Covered(o)), 256)
       /\ Trailer(o).len <= 8
  BY <1>5, <1>6, <1>7, <1>8, Zenon DEF t
<1>16. /\ Written(o) \in Seq(Fields) /\ Len(Written(o)) = Len(Behind(o)) + 3
       /\ Written(o)[1] = Header(o) /\ Written(o)[2] = LengthField(o)
       /\ Written(o)[3] = Behind(o)[1] /\ Written(o)[Len(Written(o))] = Trailer(o)
  BY <1>9, <1>11, Zenon DEF t, h, l, b
<1>17. /\ SubSeq(Written(o), 1, Len(Written(o)) - 1) = Covered(o)
       /\ SubSeq(Written(o), 3, Len(Written(o)) - 1) = Behind(o)
  BY <1>5, <1>9, <1>12, <1>13, Zenon DEF b
<1>. QED
  BY <1>14, <1>15, <1>16, <1>17, Zenon

\* The sizes of the message before and after its length and its trailer are there.
LEMMA SizesOf ==
  ASSUME NEW o \in Orders
  PROVE  /\ Size(<<Header(o), LengthField(o)>>) = Header(o).len + LengthField(o).len
         /\ Size(Pushes(o)) = Header(o).len + Size(Behind(o))
         /\ Size(Covered(o)) = (Header(o).len + LengthField(o).len) + Size(Behind(o))
         /\ Size(Written(o)) = Size(Covered(o)) + Trailer(o).len
<1>. DEFINE h == Header(o)
            l == LengthField(o)
            b == Behind(o)
            c == Covered(o)
            t == Trailer(o)
            r == <<h>>
            s == <<h, l>>
<1>1. Pushes(o) = r \o b /\ b \in Seq(Fields) /\ h \in Fields
  BY MessageOf, OpeningOf
<1>2. l \in Fields /\ c \in Seq(Fields) /\ t \in Fields
  BY WrittenOf
<1>3. c = s \o b /\ Written(o) = Append(c, t)
  BY DEF Covered, Written
<1>. HIDE DEF h, l, b, c, t
<1>4. r \in Seq(Fields) /\ s \in Seq(Fields) /\ Size(r) = h.len /\ Size(s) = h.len + l.len
  <2>1. r \in Seq(Fields) /\ s \in Seq(Fields)
    BY <1>1, <1>2
  <2>2. Size(r) = h.len
    BY <1>1, SizeOf, EmptySeq
  <2>3. Size(s) = h.len + l.len
    BY <1>1, <1>2, SizeOfTwo
  <2>. QED
    BY <2>1, <2>2, <2>3
<1>. HIDE DEF r, s
<1>5. Size(r \o b) = Size(r) + Size(b) /\ Size(s \o b) = Size(s) + Size(b)
  BY <1>1, <1>4, SizeOf
<1>6. Size(Append(c, t)) = Size(c) + t.len
  BY <1>2, SizeOf
<1>7. /\ Size(s) = h.len + l.len /\ Size(Pushes(o)) = h.len + Size(b)
      /\ Size(c) = (h.len + l.len) + Size(b) /\ Size(Written(o)) = Size(c) + t.len
  BY <1>1, <1>3, <1>4, <1>5, <1>6, Zenon
<1>. QED
  BY <1>7, Zenon DEF h, l, b, c, t, s

(***************************************************************************)
(* The writer's inductive invariant: what is out and what is still to be   *)
(* pushed make up the message, and in the end the message is the one above.*)
(***************************************************************************)

WritesInOrder ==
  /\ order \in Orders /\ done \in BOOLEAN
  /\ out \in Seq(Fields) /\ cur = Size(out)
  /\ ~done => /\ todo \in Seq(Fields) /\ out \o todo = Pushes(order)
              /\ body = IF out = <<>> THEN 0 ELSE 1
  /\ done  => todo = <<>> /\ body = 1 /\ out = Written(order)

\* The next element moves from one sequence to the other.
LEMMA MovesOver ==
  ASSUME NEW S, NEW s \in Seq(S), NEW t \in Seq(S), t # <<>>
  PROVE  /\ Append(s, Head(t)) \in Seq(S) /\ Tail(t) \in Seq(S) /\ Head(t) \in S
         /\ Append(s, Head(t)) \o Tail(t) = s \o t
         /\ (s \o t)[Len(s) + 1] = Head(t) /\ Len(s) + 1 \in 1..Len(s \o t)
<1>1. Head(t) \in S /\ Tail(t) \in Seq(S) /\ t = <<Head(t)>> \o Tail(t)
  OBVIOUS
<1>2. Append(s, Head(t)) = s \o <<Head(t)>>
  BY <1>1
<1>3. (s \o <<Head(t)>>) \o Tail(t) = s \o (<<Head(t)>> \o Tail(t))
  BY <1>1
<1>4. Append(s, Head(t)) \o Tail(t) = s \o t
  BY <1>1, <1>2, <1>3
<1>5. (s \o t)[Len(s) + 1] = Head(t) /\ Len(s) + 1 \in 1..Len(s \o t)
  OBVIOUS
<1>. QED
  BY <1>1, <1>4, <1>5

\* The writer begins with nothing written.
LEMMA WritesFromInit == Init => WritesInOrder
<1>. SUFFICES ASSUME Init PROVE WritesInOrder
  OBVIOUS
<1>1. order \in Orders /\ todo = Pushes(order) /\ out = <<>> /\ cur = 0 /\ body = 0 /\ done = FALSE
  BY DEF Init
<1>2. Pushes(order) \in Seq(Fields)
  <2>1. Pushes(order) = <<Header(order)>> \o Behind(order) /\ Behind(order) \in Seq(Fields)
    BY <1>1, MessageOf
  <2>2. Header(order) \in Fields
    BY <1>1, OpeningOf
  <2>. QED
    BY <2>1, <2>2
<1>3. out \in Seq(Fields) /\ Size(<<>>) = 0
  <2>1. <<>> \in Seq(Fields)
    OBVIOUS
  <2>2. Size(<<>>) = 0
    BY <2>1, SizeOf, Zenon
  <2>. QED
    BY <1>1, <2>1, <2>2
<1>4. out \o todo = Pushes(order)
  BY <1>1, <1>2
<1>. QED
  BY <1>1, <1>2, <1>3, <1>4 DEF WritesInOrder

\* Each field moves from what is to be pushed to what is written, and only the
\* first one is a header.
LEMMA WritesThroughPushField == WritesInOrder /\ PushField => WritesInOrder'
<1>. SUFFICES ASSUME WritesInOrder, PushField PROVE WritesInOrder'
  OBVIOUS
<1>. DEFINE f == Head(todo)
<1>1. /\ todo # <<>> /\ out' = Append(out, f) /\ cur' = cur + f.len
      /\ body' = IF f.tag = 8 THEN Len(out') ELSE body
      /\ todo' = Tail(todo) /\ order' = order /\ done' = done
  BY DEF PushField
<1>2. /\ order \in Orders /\ ~done /\ out \in Seq(Fields) /\ cur = Size(out)
      /\ todo \in Seq(Fields) /\ out \o todo = Pushes(order)
      /\ body = IF out = <<>> THEN 0 ELSE 1
  BY <1>1 DEF WritesInOrder
<1>3. /\ out' \in Seq(Fields) /\ todo' \in Seq(Fields) /\ f \in Fields
      /\ out' \o todo' = out \o todo
      /\ (out \o todo)[Len(out) + 1] = f /\ Len(out) + 1 \in 1..Len(out \o todo)
  <2>1. /\ Append(out, f) \in Seq(Fields) /\ Tail(todo) \in Seq(Fields) /\ f \in Fields
        /\ Append(out, f) \o Tail(todo) = out \o todo
        /\ (out \o todo)[Len(out) + 1] = f /\ Len(out) + 1 \in 1..Len(out \o todo)
    BY <1>1, <1>2, MovesOver, Zenon
  <2>. QED
    BY <1>1, <2>1
<1>4. cur' = Size(out')
  <2>1. Size(Append(out, f)) = Size(out) + f.len
    BY <1>2, <1>3, SizeOf
  <2>. QED
    BY <1>1, <1>2, <2>1
<1>5. out' \o todo' = Pushes(order')
  BY <1>1, <1>2, <1>3
<1>6. out' # <<>>
  BY <1>1, <1>2, <1>3
<1>7. body' = 1
  <2>. DEFINE h == Header(order)
              b == Behind(order)
  <2>1. /\ Pushes(order) = <<h>> \o b /\ b \in Seq(Rest)
        /\ h \in Fields /\ h.tag = 8
    BY <1>2, MessageOf, OpeningOf
  <2>. HIDE DEF f, h, b
  <2>2. f = (<<h>> \o b)[Len(out) + 1] /\ Len(out) + 1 \in 1..Len(<<h>> \o b)
    BY <1>2, <1>3, <2>1
  <2>3. CASE out = <<>>
    <3>1. f = h
      BY <2>1, <2>2, <2>3
    <3>2. Len(out') = 1
      BY <1>1, <1>3, <2>3
    <3>. QED
      BY <1>1, <2>1, <3>1, <3>2
  <2>4. CASE out # <<>>
    <3>1. Len(out) \in Nat \ {0}
      BY <1>2, <2>4, EmptySeq
    <3>2. f = b[Len(out)] /\ Len(out) \in 1..Len(b)
      BY <2>1, <2>2, <3>1
    <3>3. f.tag # 8
      BY <2>1, <3>2 DEF Rest
    <3>. QED
      BY <1>1, <1>2, <2>4, <3>3
  <2>. QED
    BY <2>3, <2>4
<1>. QED
  BY <1>1, <1>2, <1>3, <1>4, <1>5, <1>6, <1>7 DEF WritesInOrder

\* The trailer finds the whole message behind the header, makes room for as many
\* bytes as BodyLength takes, and writes what was meant.
LEMMA WritesThroughPushTrailer == WritesInOrder /\ PushTrailer => WritesInOrder'
<1>. SUFFICES ASSUME WritesInOrder, PushTrailer PROVE WritesInOrder'
  OBVIOUS
<1>. DEFINE h == Header(order)
            b == Behind(order)
            l == LengthField(order)
            t == Trailer(order)
            c == Covered(order)
            n == Size(SubSeq(out, body + 1, Len(out)))
            k == NumDigits(n) + 3
<1>1. /\ order \in Orders /\ ~done /\ out \in Seq(Fields) /\ cur = Size(out)
      /\ out \o <<>> = Pushes(order) /\ todo = <<>>
      /\ body = IF out = <<>> THEN 0 ELSE 1
  BY DEF WritesInOrder, PushTrailer
<1>2. /\ Pushes(order) = <<h>> \o b /\ b \in Seq(Fields) /\ h \in Fields
  BY <1>1, MessageOf, OpeningOf
<1>3. /\ Size(b) \in Nat \ {0} /\ l \in Fields /\ l.len = Len(Digits[Size(b)]) + 3
      /\ c \in Seq(Fields) /\ t \in Fields
  BY <1>1, WrittenOf
<1>. HIDE DEF h, b, l, t
<1>4. out = <<h>> \o b
  <2>1. out \o <<>> = out
    BY <1>1
  <2>. QED
    BY <1>1, <1>2, <2>1
<1>5. body = 1
  BY <1>1, <1>2, <1>4
<1>6. SubSeq(out, 1, 1) = <<h>> /\ SubSeq(out, 2, Len(out)) = b
  <2>. DEFINE s == <<h>>
  <2>1. s \in Seq(Fields) /\ Len(s) = 1 /\ out = s \o b
    BY <1>2, <1>4
  <2>. HIDE DEF s
  <2>2. SubSeq(s \o b, 1, Len(s)) = s /\ SubSeq(s \o b, Len(s) + 1, Len(s \o b)) = b
    BY <1>2, <2>1, TwoPieces
  <2>3. 1 + 1 = 2
    OBVIOUS
  <2>4. SubSeq(out, 1, 1) = s /\ SubSeq(out, 2, Len(out)) = b
    BY <2>1, <2>2, <2>3
  <2>. QED
    BY <2>4 DEF s
<1>7. body + 1 = 2
  BY <1>5
<1>8. n = Size(b)
  BY <1>6, <1>7
<1>9. k = l.len
  <2>1. NumDigits(Size(b)) = Len(Digits[Size(b)])
    BY <1>3, NumDigitsOf, Zenon
  <2>. HIDE DEF n
  <2>. QED
    BY <1>3, <1>8, <2>1
<1>10. Field(9, Number(n)) = l
  BY <1>8 DEF LengthField, l, b
<1>. HIDE DEF n, k
<1>11. <<h>> \o <<l>> \o b = <<h, l>> \o b
  BY <1>2, <1>3
<1>12. Insert9(n, k) = c
  <2>1. Insert9(n, k) = InsertAt(out, 2, l)
    BY <1>7, <1>9, <1>10 DEF Insert9
  <2>2. InsertAt(out, 2, l) = SubSeq(out, 1, 2 - 1) \o <<l>> \o SubSeq(out, 2, Len(out))
    BY DEF InsertAt
  <2>3. 2 - 1 = 1
    OBVIOUS
  <2>4. SubSeq(out, 1, 2 - 1) \o <<l>> \o SubSeq(out, 2, Len(out)) = <<h>> \o <<l>> \o b
    BY <1>6, <2>3
  <2>6. c = <<h, l>> \o b
    BY DEF Covered, h, l, b
  <2>. HIDE DEF c
  <2>. QED
    BY <1>11, <2>1, <2>2, <2>4, <2>6
<1>13. t = Field(10, ThreeDigits(Rem(SumOf(c), 256)))
  BY DEF Trailer, t
<1>14. /\ out' = Append(c, t) /\ cur' = cur + k + t.len /\ done' = TRUE
       /\ order' = order /\ todo' = todo /\ body' = body
  <2>1. /\ out' = Append(Insert9(n, k), Field(10, ThreeDigits(Rem(SumOf(Insert9(n, k)), 256))))
        /\ cur' = cur + k + Field(10, ThreeDigits(Rem(SumOf(Insert9(n, k)), 256))).len
        /\ done' = TRUE /\ order' = order /\ todo' = todo /\ body' = body
    BY DEF PushTrailer, n, k
  <2>. HIDE DEF c
  <2>. QED
    BY <1>12, <1>13, <2>1
<1>15. Size(Append(c, t)) = (h.len + l.len + Size(b)) + t.len
  BY <1>1, SizesOf, Zenon DEF h, l, b, t, Written
<1>16. cur = h.len + Size(b)
  <2>1. cur = Size(Pushes(order))
    BY <1>1, <1>2, <1>4
  <2>. QED
    BY <1>1, <2>1, SizesOf, Zenon DEF h, b
<1>17. cur' = Size(out')
  <2>1. h.len \in Int /\ l.len \in Int /\ t.len \in Int
    BY <1>2, <1>3 DEF Fields
  <2>. DEFINE z == Size(b)
              x == Size(Append(c, t))
  <2>2. z \in Int /\ x = (h.len + l.len + z) + t.len /\ cur' = (h.len + z) + l.len + t.len
    BY <1>3, <1>9, <1>14, <1>15, <1>16
  <2>. HIDE DEF z, x
  <2>3. cur' = x
    BY <2>1, <2>2
  <2>. QED
    BY <1>14, <2>3 DEF x
<1>18. Append(c, t) \in Seq(Fields) /\ Append(c, t) = Written(order)
  <2>1. Append(c, t) = Written(order)
    BY DEF Written, t
  <2>. HIDE DEF c
  <2>. QED
    BY <1>3, <2>1
<1>. HIDE DEF c
<1>. QED
  BY <1>1, <1>5, <1>14, <1>17, <1>18 DEF WritesInOrder

\* The writer keeps to this.
LEMMA WritesAlways == Spec => []WritesInOrder
<1>1. WritesInOrder /\ UNCHANGED vars => WritesInOrder'
  BY DEF WritesInOrder, vars
<1>2. WritesInOrder /\ [Next]_vars => WritesInOrder'
  BY <1>1, WritesThroughPushField, WritesThroughPushTrailer DEF Next
<1>. QED
  BY <1>2, WritesFromInit, PTL DEF Spec

\* todo is what is still to be pushed, and m_body_len is set with the first field.
THEOREM WriterTypesAlways == Spec => []TypeOK
<1>1. WritesInOrder => TypeOK
  <2>. SUFFICES ASSUME WritesInOrder PROVE TypeOK
    OBVIOUS
  <2>1. order \in Orders /\ done \in BOOLEAN /\ out \in Seq(Fields) /\ cur = Size(out)
    BY DEF WritesInOrder
  <2>2. IsSuffix(todo, Pushes(order))
    <3>1. CASE ~done
      <4>1. todo \in Seq(Fields) /\ out \o todo = Pushes(order)
        BY <3>1 DEF WritesInOrder
      <4>2. IsSuffix(todo, out \o todo)
        BY <2>1, <4>1, RestIsSuffix
      <4>. QED
        BY <4>1, <4>2
    <3>2. CASE done
      <4>1. Pushes(order) \in Seq(Fields)
        <5>1. Pushes(order) = <<Header(order)>> \o Behind(order) /\ Behind(order) \in Seq(Fields)
          BY <2>1, MessageOf
        <5>2. Header(order) \in Fields
          BY <2>1, OpeningOf
        <5>. QED
          BY <5>1, <5>2
      <4>. DEFINE p == Pushes(order)
                  e == <<>>
      <4>. HIDE DEF p
      <4>2. p \in Seq(Fields) /\ e \in Seq(Fields) /\ p \o e = p
        BY <4>1 DEF p
      <4>3. IsSuffix(e, p \o e)
        BY <4>2, RestIsSuffix
      <4>4. todo = <<>>
        BY <3>2 DEF WritesInOrder
      <4>. QED
        BY <4>2, <4>3, <4>4, Zenon DEF p
    <3>. QED
      BY <2>1, <3>1, <3>2
  <2>3. body \in 0..1 /\ (body = 0 => out = <<>>)
    BY <2>1 DEF WritesInOrder
  <2>. QED
    BY <2>1, <2>2, <2>3 DEF TypeOK
<1>. QED
  BY <1>1, WritesAlways, PTL

\* Whatever the ids and the sequence number are, BodyLength is the number of bytes
\* between itself and the trailer.
THEOREM BodyLengthAlwaysCounts == Spec => []BodyLengthCounts
<1>1. WritesInOrder => BodyLengthCounts
  <2>. SUFFICES ASSUME WritesInOrder, done PROVE BodyLengthCounts
    BY DEF BodyLengthCounts
  <2>1. order \in Orders /\ out = Written(order)
    BY DEF WritesInOrder
  <2>2. /\ LengthField(order).tag = 9
        /\ LengthField(order).val.num = Size(Behind(order))
        /\ Written(order)[2] = LengthField(order)
        /\ SubSeq(Written(order), 3, Len(Written(order)) - 1) = Behind(order)
    BY <2>1, WrittenOf, Zenon
  <2>. QED
    BY <2>1, <2>2, Zenon DEF BodyLengthCounts
<1>. QED
  BY <1>1, WritesAlways, PTL

\* The trailer holds the remainder of C++ of the sum in front of it; that is the
\* checksum if the sum is not negative.
THEOREM CheckSumAlwaysAgrees == Spec => []CheckSumAgrees
<1>1. WritesInOrder => CheckSumAgrees
  <2>. SUFFICES ASSUME WritesInOrder, done, SumOf(Before10) >= 0
                PROVE  Last(out) = Field(10, ThreeDigits(SumOf(Before10) % 256))
    BY DEF CheckSumAgrees
  <2>1. order \in Orders /\ out = Written(order)
    BY DEF WritesInOrder
  <2>2. Before10 = Covered(order) /\ Last(out) = Trailer(order)
    BY <2>1, WrittenOf, Zenon DEF Before10, Last
  <2>3. Rem(SumOf(Covered(order)), 256) = SumOf(Covered(order)) % 256
    <3>. DEFINE q == SumOf(Covered(order))
    <3>1. q \in Int /\ q >= 0
      BY <2>1, <2>2, WrittenOf
    <3>. HIDE DEF q
    <3>2. Rem(q, 256) = q % 256
      BY <3>1 DEF Rem, Quot
    <3>. QED
      BY <3>2 DEF q
  <2>. QED
    BY <2>2, <2>3, Zenon DEF Trailer
<1>. QED
  BY <1>1, WritesAlways, PTL

\* A field takes at least a byte: each field begins before the last one.
LEMMA BeginsBefore ==
  ASSUME NEW w \in Seq(Fields), NEW i \in 1..Len(w), i # Len(w)
  PROVE  Size(SubSeq(w, 1, i - 1)) < Size(SubSeq(w, 1, Len(w) - 1))
<1>. DEFINE n == Len(w)
            a == SubSeq(w, 1, i - 1)
            m == SubSeq(w, i, n - 1)
            c == SubSeq(w, 1, n - 1)
<1>1. n \in Nat /\ i \in Nat /\ 1 <= i /\ i < n
  OBVIOUS
<1>2. /\ a \in Seq(Fields) /\ Len(a) = i - 1
      /\ \A j \in 1..i - 1 : a[j] = w[j]
  <2>1. i - 1 \in 0..n
    BY <1>1
  <2>. QED
    BY <2>1, FirstOnes
<1>3. /\ m \in Seq(Fields) /\ Len(m) = n - i
      /\ \A j \in 1..n - i : m[j] = w[i + j - 1]
  <2>1. /\ n - 1 \in 0..n /\ i \in 1..n + 1 /\ i <= (n - 1) + 1 /\ (n - 1) - i + 1 = n - i
    BY <1>1
  <2>2. /\ m \in Seq(Fields) /\ Len(m) = (n - 1) - i + 1
        /\ \A j \in 1..(n - 1) - i + 1 : m[j] = w[i + j - 1]
    BY <2>1, Piece, Zenon
  <2>. HIDE DEF m, n
  <2>. QED
    BY <2>1, <2>2, Zenon
<1>4. /\ c \in Seq(Fields) /\ Len(c) = n - 1
      /\ \A j \in 1..n - 1 : c[j] = w[j]
  <2>1. n - 1 \in 0..n
    BY <1>1
  <2>. QED
    BY <2>1, FirstOnes
<1>. HIDE DEF a, m, c, n
<1>5. c = a \o m
  <2>1. a \o m \in Seq(Fields) /\ Len(a \o m) = Len(a) + Len(m)
    BY <1>2, <1>3, Joined
  <2>2. Len(a \o m) = n - 1
    BY <1>1, <1>2, <1>3, <2>1
  <2>3. ASSUME NEW j \in 1..n - 1 PROVE c[j] = (a \o m)[j]
    <3>0. j \in Nat /\ 1 <= j /\ j <= n - 1
      BY <1>1
    <3>1. CASE j <= i - 1
      <4>1. (a \o m)[j] = a[j] /\ j \in 1..i - 1
        BY <1>1, <1>2, <1>3, <3>0, <3>1
      <4>. QED
        BY <1>2, <1>4, <4>1
    <3>2. CASE j > i - 1
      <4>1. (a \o m)[j] = m[j - (i - 1)]
        BY <1>1, <1>2, <1>3, <3>0, <3>2
      <4>2. j - (i - 1) \in 1..n - i /\ i + (j - (i - 1)) - 1 = j
        BY <1>1, <3>0, <3>2
      <4>. QED
        BY <1>3, <1>4, <4>1, <4>2
    <3>3. j <= i - 1 \/ j > i - 1
      BY <1>1, <3>0
    <3>. QED
      BY <3>1, <3>2, <3>3, Zenon
  <2>. QED
    BY <1>4, <2>1, <2>2, <2>3, SeqEqual
<1>6. Size(m) > 0
  <2>1. m # <<>>
    BY <1>1, <1>3
  <2>. DEFINE f == Head(m)
              e == Tail(m)
              g == <<f>>
  <2>2. f \in Fields /\ e \in Seq(Fields) /\ g \in Seq(Fields) /\ m = g \o e
    BY <1>3, <2>1
  <2>3. Size(g) = f.len
    BY <2>2, SizeOf, EmptySeq
  <2>4. f.len \in Nat \ {0}
    BY <2>2 DEF Fields
  <2>. HIDE DEF f, e, g
  <2>5. Size(g \o e) = Size(g) + Size(e) /\ Size(e) \in Nat
    BY <2>2, SizeOf
  <2>. QED
    BY <2>2, <2>3, <2>4, <2>5
<1>7. Size(a \o m) = Size(a) + Size(m) /\ Size(a) \in Nat /\ Size(m) \in Nat
  BY <1>2, <1>3, SizeOf
<1>8. Size(a) < Size(c)
  BY <1>5, <1>6, <1>7
<1>. QED
  BY <1>8 DEF a, c, n

\* atoi takes each small tag for what it is.
LEMMA TagReadsBack ==
  ASSUME NEW f, f.tag \in Nat \ {0}, f.tag <= 127
  PROVE  Tag(f) = f.tag
<1>. DEFINE n == f.tag
<1>. HIDE DEF n
<1>1. n \in Nat \ {0} /\ n <= 127
  BY DEF n
<1>2. n \in Int32
  BY <1>1, IntMaxType, SMT DEF Int32
<1>3. Decimal(n) = Numeral(n) /\ Turned(n) = Numeral(n)
  BY <1>1, NumberOf, TurnedIsNumeral
<1>4. Value(Numeral(n)) = n
  BY <1>2, <1>3, ReadsBack
<1>5. Numeral(n)[1] # Minus
  BY <1>1, NoMinus
<1>6. atoi(Decimal(n)) = n
  BY <1>3, <1>4, <1>5 DEF atoi
<1>. QED
  BY <1>6 DEF Tag, n

\* The parser finds the trailer where BodyLength says, and no other field is there:
\* it takes every message of the writer, with its type and its checksum.
THEOREM AlwaysParsesBack == Spec => []ParsesBack
<1>1. WritesInOrder => ParsesBack
  <2>. SUFFICES ASSUME WritesInOrder, done
                PROVE  Parsed = {[type |-> order.type, checksum |-> SumOf(Before10) % 256]}
    BY DEF ParsesBack
  <2>. DEFINE h == Header(order)
              l == LengthField(order)
              b == Behind(order)
              c == Covered(order)
              t == Trailer(order)
              n == Len(out)
              r == [type |-> order.type, checksum |-> SumOf(Before10) % 256]
  <2>1. order \in Orders /\ out = Written(order) /\ out \in Seq(Fields)
    BY DEF WritesInOrder
  <2>2. /\ out[1] = h /\ out[2] = l /\ out[3] = b[1] /\ out[n] = t
        /\ n = Len(b) + 3 /\ Before10 = c
    <3>. DEFINE w == Written(order)
    <3>1. /\ w[1] = h /\ w[2] = l /\ w[3] = b[1] /\ w[Len(w)] = t
          /\ Len(w) = Len(b) + 3 /\ SubSeq(w, 1, Len(w) - 1) = c
      <4>1. w[1] = h /\ w[2] = l /\ w[3] = b[1]
        BY <2>1, WrittenOf, Zenon
      <4>2. w[Len(w)] = t /\ Len(w) = Len(b) + 3
        BY <2>1, WrittenOf, Zenon
      <4>3. SubSeq(w, 1, Len(w) - 1) = c
        BY <2>1, WrittenOf, Zenon
      <4>. QED
        BY <4>1, <4>2, <4>3, Zenon
    <3>. HIDE DEF w, h, l, b, c, t
    <3>2. out = w
      BY <2>1 DEF w
    <3>3. Before10 = SubSeq(w, 1, Len(w) - 1)
      BY <3>2, Zenon DEF Before10
    <3>4. n = Len(w)
      BY <3>2
    <3>. HIDE DEF n
    <3>. QED
      BY <3>1, <3>2, <3>3, <3>4, Zenon
  <2>3. b[1] = Field(35, Char(order.type)) /\ Len(b) \in Nat /\ b \in Seq(Fields)
    <3>1. b[1] = Field(35, Char(order.type)) /\ b \in Seq(Fields)
      BY <2>1, MessageOf, Zenon
    <3>. HIDE DEF b
    <3>2. Len(b) \in Nat
      BY <3>1
    <3>. QED
      BY <3>1, <3>2
  <2>4. /\ l.tag = 9 /\ l.val.num = Size(b) /\ Size(b) \in Nat \ {0}
        /\ t.tag = 10 /\ t.val.num = Rem(SumOf(c), 256) /\ SumOf(c) \in Int
    <3>1. l.tag = 9 /\ l.val.num = Size(b) /\ Size(b) \in Nat \ {0}
      BY <2>1, WrittenOf, Zenon
    <3>2. t.tag = 10 /\ t.val.num = Rem(SumOf(c), 256) /\ SumOf(c) \in Int
      BY <2>1, WrittenOf, Zenon
    <3>. QED
      BY <3>1, <3>2, Zenon
  <2>5. h.tag = 8
    BY <2>1, OpeningOf
  <2>6. b[1].tag = 35 /\ b[1].val.num = order.type
    <3>. DEFINE v == Char(order.type)
    <3>1. v \in Texts /\ v.num = order.type
      BY <2>1, OrderType, CharOf
    <3>2. b[1] = Field(35, v)
      BY <2>3
    <3>. HIDE DEF v, b
    <3>. QED
      BY <3>1, <3>2, FieldOf
  <2>7. Tag(out[1]) = 8 /\ Tag(out[2]) = 9 /\ Tag(out[3]) = 35 /\ Tag(t) = 10
    <3>. HIDE DEF h, l, b, t, n
    <3>1. out[1].tag = 8 /\ out[2].tag = 9 /\ out[3].tag = 35 /\ t.tag = 10
      BY <2>2, <2>4, <2>5, <2>6
    <3>2. \A k \in {8, 9, 10, 35} : k \in Nat \ {0} /\ k <= 127
      OBVIOUS
    <3>3. /\ \A f \in {out[1], out[2], out[3], t} : f.tag \in Nat \ {0} /\ f.tag <= 127
      BY <3>1, <3>2
    <3>4. \A f \in {out[1], out[2], out[3], t} : Tag(f) = f.tag
      BY <3>3, TagReadsBack, Zenon
    <3>. QED
      BY <3>1, <3>4
  <2>8. Offset(3) + l.val.num = Offset(n)
    <3>1. Offset(n) = Size(c)
      <4>1. SubSeq(out, 1, n - 1) = c
        BY <2>2 DEF Before10
      <4>. QED
        BY <4>1, Zenon DEF Offset
    <3>2. Offset(3) = h.len + l.len
      <4>. DEFINE s == <<h, l>>
                  e == Append(b, t)
      <4>1. h \in Fields /\ l \in Fields /\ t \in Fields
        BY <2>1, OpeningOf, WrittenOf
      <4>2. out = Append(s \o b, t)
        BY <2>1 DEF Written, Covered
      <4>3. s \in Seq(Fields) /\ e \in Seq(Fields) /\ out = s \o e /\ Len(s) = 2
        <5>. HIDE DEF h, l, b, t
        <5>. QED
          BY <2>3, <4>1, <4>2
      <4>4. Size(s) = h.len + l.len
        BY <2>1, SizesOf, Zenon
      <4>. HIDE DEF s, e, h, l
      <4>5. SubSeq(s \o e, 1, Len(s)) = s
        BY <4>3, TwoPieces
      <4>6. 3 - 1 = 2
        OBVIOUS
      <4>7. SubSeq(out, 1, 3 - 1) = s
        BY <4>3, <4>5, <4>6
      <4>. QED
        BY <4>4, <4>7, Zenon DEF Offset
    <3>3. Size(c) = (h.len + l.len) + Size(b)
      BY <2>1, SizesOf, Zenon
    <3>. QED
      BY <2>4, <3>1, <3>2, <3>3, Zenon
  <2>9. At(Offset(n)) = {t}
    <3>1. n \in DOMAIN out /\ DOMAIN out = 1..n
      BY <2>1, <2>2, <2>3
    <3>2. ASSUME NEW i \in DOMAIN out, i # n PROVE Offset(i) # Offset(n)
      <4>1. Size(SubSeq(out, 1, i - 1)) < Size(SubSeq(out, 1, n - 1))
        BY <2>1, <3>1, <3>2, BeginsBefore
      <4>. DEFINE x == Size(SubSeq(out, 1, i - 1))
                  y == Size(SubSeq(out, 1, n - 1))
      <4>2. x \in Nat /\ y \in Nat
        <5>1. i - 1 \in 0..n /\ n - 1 \in 0..n /\ 1 \in 1..n + 1 /\ n \in Nat
          BY <2>1, <3>1
        <5>2. /\ i - 1 \in 0..Len(out) /\ n - 1 \in 0..Len(out) /\ 1 \in 1..Len(out) + 1
              /\ 1 <= (i - 1) + 1 /\ 1 <= (n - 1) + 1
          BY <5>1, <3>1
        <5>3. SubSeq(out, 1, i - 1) \in Seq(Fields) /\ SubSeq(out, 1, n - 1) \in Seq(Fields)
          BY <2>1, <5>2, Piece
        <5>. QED
          BY <5>3, SizeOf
      <4>. HIDE DEF x, y
      <4>3. x # y
        BY <4>1, <4>2 DEF x, y
      <4>. QED
        BY <4>3 DEF x, y, Offset
    <3>. HIDE DEF n, t
    <3>3. {i \in DOMAIN out : Offset(i) = Offset(n)} = {n}
      BY <3>1, <3>2, Zenon
    <3>. QED
      BY <2>2, <3>3 DEF At
  <2>10. t.val.num % 256 = SumOf(c) % 256
    <3>. DEFINE q == SumOf(c)
    <3>1. q \in Int /\ t.val.num = Rem(q, 256)
      BY <2>4
    <3>. HIDE DEF q
    <3>2. Rem(q, 256) % 256 = q % 256
      BY <3>1 DEF Rem, Quot
    <3>. QED
      BY <3>1, <3>2 DEF q
  <2>. HIDE DEF h, l, b, c, t, n
  <2>11. At(Offset(3) + out[2].val.num) = {t}
    BY <2>2, <2>8, <2>9
  <2>12. {f \in {t} : /\ <<Tag(out[1]), Tag(out[2]), Tag(out[3])>> = <<8, 9, 35>>
                      /\ out[2].val.num # 0 /\ Tag(f) = 10} = {t}
    <3>1. out[2].val.num # 0
      BY <2>2, <2>4
    <3>. QED
      BY <2>7, <3>1
  <2>13. Parsed = {[type |-> out[3].val.num, checksum |-> trailer.val.num % 256] : trailer \in {t}}
    BY <2>11, <2>12, Zenon DEF Parsed
  <2>14. out[3].val.num = order.type /\ t.val.num % 256 = SumOf(Before10) % 256
    BY <2>2, <2>6, <2>10
  <2>. QED
    BY <2>13, <2>14
<1>. QED
  BY <1>1, WritesAlways, PTL

\* What a sequence number of 32 bits and ids of SafeLen bytes take up at most: the
\* logon has the sender three times, and the market request 97 bytes of its own.
RoomForAll ==
  /\ \A n \in SeqNums : n <= 2147483647
  /\ buffer_size < 10000
  /\ 5 * SafeLen + 98 <= buffer_size /\ 3 * SafeLen + 167 <= buffer_size

\* The size of the whole message.
LEMMA MessageFits ==
  ASSUME RoomForAll, NEW o \in Orders,
         o.ver <= SafeLen, o.target <= SafeLen, o.sender <= SafeLen
  PROVE  /\ Size(Pushes(o)) <= buffer_size /\ Size(Written(o)) <= buffer_size
<1>. DEFINE h == Header(o).len
            l == LengthField(o).len
            t == Trailer(o).len
            b == Size(Behind(o))
            d == Len(Digits[o.seq])
            k == Len(Digits[b])
<1>1. /\ o.ver \in Nat /\ o.target \in Nat /\ o.sender \in Nat /\ o.seq \in Nat
      /\ o.seq \in SeqNums
  BY OrderType
<1>2. SafeLen \in Nat /\ buffer_size \in Nat
  BY WriterAssumption DEF WriterAssumption
<1>3. d \in Nat /\ d <= 10
  <2>1. d \in Nat
    BY <1>1, DigitCount, Zenon
  <2>2. o.seq < Power(10)[10]
    BY <1>1, TenDigits DEF RoomForAll
  <2>3. 10 \in Nat \ {0}
    OBVIOUS
  <2>4. d <= 10
    BY <1>1, <2>2, <2>3, NumDigitsOf
  <2>. QED
    BY <2>1, <2>4
<1>4. PICK more \in {0, 2 * o.sender + 28, 97} : b = o.target + o.sender + d + 42 + more
  BY MessageOf, Zenon
<1>5. h = o.ver + 3
  BY OpeningOf
<1>6. b \in Nat \ {0} /\ l = k + 3 /\ t <= 8 /\ t \in Nat
  <2>1. b \in Nat \ {0} /\ l = k + 3 /\ t <= 8 /\ Trailer(o) \in Fields
    BY WrittenOf, Zenon
  <2>2. t \in Nat
    BY <2>1 DEF Fields
  <2>. QED
    BY <2>1, <2>2
<1>7. /\ Size(Pushes(o)) = h + b
      /\ Size(Written(o)) = ((h + l) + b) + t
  BY SizesOf, Zenon
<1>8. k \in Nat
  BY <1>6, DigitCount, Zenon
<1>. HIDE DEF h, l, t, b, d, k
<1>9. /\ b < 10000
      /\ b + o.ver + 18 <= buffer_size
  <2>1. 5 * SafeLen + 98 <= buffer_size /\ 3 * SafeLen + 167 <= buffer_size /\ buffer_size < 10000
    BY DEF RoomForAll
  <2>2. CASE more = 0
    BY <1>1, <1>2, <1>3, <1>4, <2>1, <2>2
  <2>3. CASE more = 2 * o.sender + 28
    BY <1>1, <1>2, <1>3, <1>4, <2>1, <2>3
  <2>4. CASE more = 97
    BY <1>1, <1>2, <1>3, <1>4, <2>1, <2>4
  <2>. QED
    BY <2>2, <2>3, <2>4
<1>10. k <= 4
  <2>1. b < 10 \/ (b >= 10 /\ b < 100) \/ (b >= 100 /\ b < 1000) \/ (b >= 1000 /\ b < 10000)
    BY <1>6, <1>9
  <2>2. /\ b < 10 => k = 1
        /\ b >= 10 /\ b < 100 => k = 2
        /\ b >= 100 /\ b < 1000 => k = 3
        /\ b >= 1000 /\ b < 10000 => k = 4
    <3>1. b \in Nat
      BY <1>6
    <3>. QED
      BY <3>1, FewDigits DEF k
  <2>. QED
    BY <2>1, <2>2
<1>11. h + b <= buffer_size /\ ((h + l) + b) + t <= buffer_size
  BY <1>1, <1>2, <1>5, <1>6, <1>8, <1>9, <1>10
<1>. QED
  BY <1>7, <1>11

\* Ids of up to SafeLen bytes keep each message inside the buffer at every step,
\* for every sequence number of 32 bits and every size that leaves this room.
THEOREM ShortIdsAlwaysFit == RoomForAll => (Spec => []FitsBuffer)
<1>. SUFFICES ASSUME RoomForAll PROVE Spec => []FitsBuffer
  OBVIOUS
<1>1. WritesInOrder => FitsBuffer
  <2>. SUFFICES ASSUME WritesInOrder, \A n \in {order.ver, order.target, order.sender} : n <= SafeLen
                PROVE  cur <= buffer_size
    BY DEF FitsBuffer
  <2>1. /\ order \in Orders /\ done \in BOOLEAN /\ out \in Seq(Fields) /\ cur = Size(out)
    BY DEF WritesInOrder
  <2>2. Size(Pushes(order)) <= buffer_size /\ Size(Written(order)) <= buffer_size
    BY <2>1, MessageFits
  <2>3. CASE done
    BY <2>1, <2>2, <2>3 DEF WritesInOrder
  <2>4. CASE ~done
    <3>1. todo \in Seq(Fields) /\ out \o todo = Pushes(order)
      BY <2>4 DEF WritesInOrder
    <3>2. Size(out \o todo) = Size(out) + Size(todo) /\ Size(out) \in Nat /\ Size(todo) \in Nat
      BY <2>1, <3>1, SizeOf
    <3>3. buffer_size \in Nat
      BY WriterAssumption DEF WriterAssumption
    <3>. QED
      BY <2>1, <2>2, <3>1, <3>2, <3>3
  <2>. QED
    BY <2>1, <2>3, <2>4
<1>. QED
  BY <1>1, WritesAlways, PTL
=============================================================================
