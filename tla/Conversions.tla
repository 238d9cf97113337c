---------------------------- MODULE Conversions ----------------------------
(***************************************************************************)
(* details::itoa and details::atoi of include/details.h on characters, as  *)
(* recursive functions, next to what it means to write a number in         *)
(* decimal.  Num_t is a signed integer of W bits, what atoi computes with  *)
(* and returns is an int of 32, whatever Num_t is; overflow of either      *)
(* wraps, which is what the build does.                                    *)
(***************************************************************************)
EXTENDS Integers, Sequences, SequencesExt

CONSTANT W

ASSUME WidthAssumption == W \in {8, 16, 32, 64}

VARIABLES
  num,   \* the number to convert
  len    \* the room for it

\* Power(b)[k] is b to the k.
Power(b) ==
  LET power[k \in Nat] == IF k = 0 THEN 1 ELSE b * power[k - 1]
  IN  power

\* The smallest number is -Half.
Half == Power(2)[W - 1]

Ints == -Half..Half - 1

Wrap(n) == ((n + Half) % (2 * Half)) - Half

\* An int.
INT_MAX == 2147483647
Int32   == -INT_MAX - 1..INT_MAX

WrapInt(n) ==
  IF n \in Int32 THEN n
  ELSE ((n + INT_MAX + 1) % (2 * INT_MAX + 2)) - INT_MAX - 1

\* The decimal digits of a natural number, and the number as text.
Digits[n \in Nat] ==
  IF n < 10 THEN <<n>> ELSE Append(Digits[n \div 10], n % 10)

Minus == 45
Decimal(n) ==
  LET chars(m) == [i \in DOMAIN Digits[m] |-> 48 + Digits[m][i]]
  IN  IF n < 0 THEN <<Minus>> \o chars(-n) ELSE chars(n)

-----------------------------------------------------------------------------

\* `/` and `%` of C++ drop the fraction.
Quot(n, d) == IF n < 0 THEN -((-n) \div d) ELSE n \div d
Rem(n, d)  == n - d * Quot(n, d)

\* The loop of itoa: the last digit first, and no digit for 0.
Reversed[n \in Int] ==
  IF n = 0 THEN <<>> ELSE <<48 + Rem(n, 10)>> \o Reversed[Quot(n, 10)]

Chars(n) ==
  IF n < 0 THEN Append(Reversed[Wrap(-n)], Minus) ELSE Reversed[n]

Failed == [ret |-> -1, buf |-> <<>>]

\* What itoa returns and leaves in a buffer of `room` characters.
itoa(n, room) ==
  IF room < W \div 8 + 1 \/ room < Len(Chars(n)) THEN Failed
  ELSE [ret |-> Len(Chars(n)), buf |-> Reverse(Chars(n))]

\* The loop of atoi over all of these characters.
Value(s) ==
  LET ret[i \in 0..Len(s)] ==
        IF i = 0 THEN 0 ELSE WrapInt(10 * ret[i - 1] + s[i] - 48)
  IN  ret[Len(s)]

\* Slip: the minus is taken for a digit.
atoiUnsigned(s) == Value(s)

\* atoi on the characters from begin to end, which are not null.
atoi(s) ==
  IF s # <<>> /\ s[1] = Minus THEN WrapInt(-Value(Tail(s))) ELSE Value(s)

-----------------------------------------------------------------------------

Input == num \in Ints /\ len \in 2..6

\* itoa writes the decimal of each number but 0 and the smallest, if there is
\* room for a number of this size and for this number, and says how long it is.
\* What it writes for a number that an int can hold atoi takes for that number,
\* for 0 too; but the smallest number of a type that is narrower than int comes
\* back without its sign, because its digits are negative already.
ConversionsAgree ==
  /\ num \notin {0, -Half} =>
       itoa(num, len) =
         IF len > W \div 8 /\ len >= Len(Decimal(num))
         THEN [ret |-> Len(Decimal(num)), buf |-> Decimal(num)] ELSE Failed
  /\ num \in Int32 /\ itoa(num, len) # Failed =>
       atoi(itoa(num, len).buf) = IF num = -Half /\ W < 32 THEN Half ELSE num
=============================================================================
