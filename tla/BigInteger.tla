----------------------------- MODULE BigInteger -----------------------------
(***************************************************************************)
(* The integers of src/int: a sign and a magnitude of blocks.  Leaf counts *)
(* and the ends of intervals are such numbers, since n! outgrows a word.   *)
(***************************************************************************)
EXTENDS Integers, Sequences

CONSTANTS N,                                    \* bits of a block
          Base                                  \* of the numbers' text form

ASSUME WidthAssumption == /\ N \in Nat /\ N >= 2
                          /\ Base \in 2 .. 2^N - 1

U == INSTANCE BigUnsigned

negative == -1
zero == 0
positive == 1

(* A BigUnsigned with a sign; nothing is zero whatever its sign. *)
Signed(x, s) == [sign |-> IF x = <<>> THEN zero ELSE s, mag |-> x]

(* The constructors from machine integers of one block. *)
BigInt(x) ==
    CASE x > 0 -> [sign |-> positive, mag |-> <<x % U!Radix>>]
      [] x < 0 -> [sign |-> negative, mag |-> <<-x % U!Radix>>]
      [] x = 0 -> [sign |-> zero, mag |-> <<>>]

(* The integer that a BigInteger stands for. *)
Value(x) == x.sign * U!Magnitude(x.mag)

compareTo(a, b) ==
    IF a.sign # b.sign THEN IF a.sign < b.sign THEN -1 ELSE 1
    ELSE a.sign * U!compareTo(a.mag, b.mag)

Less(a, b) == compareTo(a, b) = -1
Larger(a, b) == IF Less(a, b) THEN b ELSE a
Smaller(a, b) == IF Less(b, a) THEN b ELSE a

negate(a) == [sign |-> -a.sign, mag |-> a.mag]

add(a, b) ==
    LET order == U!compareTo(a.mag, b.mag)
    IN  CASE a.sign = zero -> b
          [] a.sign # zero /\ b.sign = zero -> a
          [] a.sign # zero /\ a.sign = b.sign -> [a EXCEPT !.mag = U!add(a.mag, b.mag)]
          [] a.sign * b.sign = -1 /\ order = 0 -> BigInt(0)
          [] a.sign * b.sign = -1 /\ order = 1 -> [a EXCEPT !.mag = U!subtract(a.mag, b.mag)]
          [] a.sign * b.sign = -1 /\ order = -1 -> [b EXCEPT !.mag = U!subtract(b.mag, a.mag)]

(* "Identical to add, if one replaces b.sign by its opposite." *)
subtract(a, b) == add(a, negate(b))

multiply(a, b) ==
    IF a.sign = zero \/ b.sign = zero THEN BigInt(0)
    ELSE [sign |-> IF a.sign = b.sign THEN positive ELSE negative,
          mag |-> U!multiply(a.mag, b.mag)]

(* The quotient is rounded down and the remainder has the divisor's sign: *)
(* for operands of opposite signs the dividend is made one smaller first, *)
(* and quotient and remainder are corrected for it.                       *)
RoundedDown(halves, b) ==
    [q |-> Signed(U!increment(halves.q), negative),
     r |-> Signed(U!decrement(U!subtract(b.mag, halves.r)), b.sign)]

divideWithRemainder(a, b) ==
    LET Halves(mag) == U!divideWithRemainder(mag, b.mag)
        WithSigns(halves) == [q |-> Signed(halves.q, positive), r |-> Signed(halves.r, b.sign)]
    IN  CASE a.sign = zero \/ b.sign = zero -> [q |-> BigInt(0), r |-> a]
          [] a.sign * b.sign = 1 -> WithSigns(Halves(a.mag))
          [] a.sign * b.sign = -1 -> RoundedDown(Halves(U!decrement(a.mag)), b)

increment(a) ==
    CASE a.sign = zero -> BigInt(1)
      [] a.sign = positive -> [a EXCEPT !.mag = U!increment(a.mag)]
      [] a.sign = negative -> Signed(U!decrement(a.mag), negative)

decrement(a) ==
    CASE a.sign = zero -> BigInt(-1)
      [] a.sign = negative -> [a EXCEPT !.mag = U!increment(a.mag)]
      [] a.sign = positive -> Signed(U!decrement(a.mag), positive)

(* The text of a number and back: easyBItoString and easyStringToBI.  The *)
(* digits of zero are the single "0".                                     *)
TextOf(x) ==
    [minus |-> x.sign = negative,
     digits |-> IF x.mag = <<>> THEN <<0>> ELSE U!DigitsOf(x.mag, Base)]

NumberOf(text) ==
    Signed(U!NumberOf(U!zapLeadingZeros(text.digits), Base),
           IF text.minus THEN negative ELSE positive)

-----------------------------------------------------------------------------
(* Every operation on these two numbers gives what it gives on integers,  *)
(* in blocks without leading zeros and with a sign that is zero only for  *)
(* zero.                                                                  *)

Normal(x) ==
    /\ x.sign = zero <=> x.mag = <<>>
    /\ \A n \in DOMAIN x.mag : x.mag[n] \in U!Blk
    /\ x.mag # <<>> => x.mag[Len(x.mag)] # 0

Is(x, v) == Normal(x) /\ Value(x) = v

QuotientOf(x, y) == IF y = 0 THEN 0 ELSE IF y > 0 THEN x \div y ELSE (-x) \div (-y)

DividesAs(division, x, y) ==
    /\ Is(division.q, QuotientOf(x, y))
    /\ Is(division.r, x - y * QuotientOf(x, y))

ExactOn(a, b) ==
    LET x == Value(a)
        y == Value(b)
    IN  /\ compareTo(a, b) = (IF x < y THEN -1 ELSE IF x > y THEN 1 ELSE 0)
        /\ Is(add(a, b), x + y)
        /\ Is(subtract(a, b), x - y)
        /\ Is(multiply(a, b), x * y)
        /\ DividesAs(divideWithRemainder(a, b), x, y)
        /\ Is(increment(a), x + 1)
        /\ Is(decrement(a), x - 1)
=============================================================================
