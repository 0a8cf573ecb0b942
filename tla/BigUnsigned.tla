---------------------------- MODULE BigUnsigned ----------------------------
(***************************************************************************)
(* The natural numbers of src/int: a sequence of blocks of N bits, lowest  *)
(* block first, without leading zero blocks.  A block is an unsigned       *)
(* machine word, so every block operation wraps round at 2^N, and carries  *)
(* and borrows are recognised by that.  The program's N is 32.             *)
(***************************************************************************)
EXTENDS Integers, Sequences
LOCAL INSTANCE FiniteSetsExt
LOCAL INSTANCE SequencesExt

CONSTANT N                                      \* bits of a Blk

Radix == 2^N
Blk == 0 .. Radix - 1

Zeros(len) == [k \in 1 .. len |-> 0]
Widened(a, len) == [k \in 1 .. len |-> IF k <= Len(a) THEN a[k] ELSE 0]
Bit(x, i2) == (x \div 2^i2) % 2
SetBit(a, i, i2) == [k \in DOMAIN a |-> IF k = i + 1 THEN a[k] + 2^i2 ELSE a[k]]

(* The number that a sequence of blocks stands for. *)
Magnitude(a) ==
    LET low[n \in 0 .. Len(a)] == IF n = 0 THEN 0 ELSE low[n - 1] + a[n] * Radix^(n - 1)
    IN  low[Len(a)]

zapLeadingZeros(a) == SubSeq(a, 1, Max({0} \cup {n \in DOMAIN a : a[n] # 0}))
ZapLeadingZero(a) == IF Last(a) = 0 THEN Front(a) ELSE a

BlocksOf(x) == IF x = 0 THEN <<>> ELSE <<x % Radix>>

(* The value of a number that fits into so many bits, -1 when it does not *)
(* and the program would throw.                                           *)
Word(a, bits) ==
    IF a = <<>> THEN 0 ELSE IF Len(a) = 1 /\ a[1] < 2^bits THEN a[1] ELSE -1

compareTo(a, b) ==
    LET differing == {n \in DOMAIN a : a[n] # b[n]}
        Sign(x, y) == IF x < y THEN -1 ELSE IF x > y THEN 1 ELSE 0
    IN  IF Len(a) # Len(b) THEN Sign(Len(a), Len(b))
        ELSE IF differing = {} THEN 0
             ELSE Sign(a[Max(differing)], b[Max(differing)])

(* One block of an addition: it rolled over if the sum is less than x. *)
AddStage(x, y, carryIn) ==
    LET temp == (x + y) % Radix
        next == (temp + 1) % Radix
    IN  IF carryIn THEN [blk |-> next, carry |-> temp < x \/ next = 0]
                   ELSE [blk |-> temp, carry |-> temp < x]

SubtractStage(x, y, borrowIn) ==
    LET temp == (x - y) % Radix
    IN  IF borrowIn THEN [blk |-> (temp - 1) % Radix, carry |-> temp > x \/ temp = 0]
                    ELSE [blk |-> temp, carry |-> temp > x]

(* The loop over the blocks, which passes a carry or a borrow along. *)
Stage(op, x, y, carryIn) ==
    IF op = "add" THEN AddStage(x, y, carryIn) ELSE SubtractStage(x, y, carryIn)

Extended(op, before, x, y) ==
    LET stage == Stage(op, x, y, before.carry)
    IN  [blk |-> Append(before.blk, stage.blk), carry |-> stage.carry]

Row(op, a, b, carryIn) ==
    LET row[n \in 0 .. Len(a)] ==
            IF n = 0 THEN [blk |-> <<>>, carry |-> carryIn]
            ELSE Extended(op, row[n - 1], a[n], b[n])
    IN  row[Len(a)]

Carried(row) == IF row.carry THEN Append(row.blk, 1) ELSE row.blk

add(a, b) ==
    LET a2 == IF Len(a) >= Len(b) THEN a ELSE b
        b2 == IF Len(a) >= Len(b) THEN b ELSE a
    IN  IF a = <<>> THEN b ELSE IF b = <<>> THEN a
        ELSE Carried(Row("add", a2, Widened(b2, Len(a2)), FALSE))

(* a - b for b <= a: its callers have compared them. *)
subtract(a, b) ==
    IF b = <<>> THEN a
    ELSE zapLeadingZeros(Row("subtract", a, Widened(b, Len(a)), FALSE).blk)

(* Block x of num, shifted left by y bits. *)
getShiftedBlock(num, x, y) ==
    (IF x = 0 \/ y = 0 THEN 0 ELSE num[x] \div 2^(N - y))
        + (IF x = Len(num) THEN 0 ELSE (num[x + 1] * 2^y) % Radix)

(* num, shifted left by i blocks and i2 bits, in len blocks. *)
Shifted(num, i, i2, len) ==
    [k \in 1 .. len |-> IF k - 1 - i \in 0 .. Len(num)
                        THEN getShiftedBlock(num, k - 1 - i, i2) ELSE 0]

(* b is added once, shifted, for every bit of a that is set. *)
multiply(a, b) ==
    LET len == Len(a) + Len(b)
        sum[n \in 0 .. Len(a) * N] ==
            IF n = 0 THEN Zeros(len)
            ELSE LET i == (n - 1) \div N
                     i2 == (n - 1) % N
                 IN  IF Bit(a[i + 1], i2) = 0 THEN sum[n - 1]
                     ELSE Row("add", sum[n - 1], Shifted(b, i, i2, len), FALSE).blk
    IN  IF a = <<>> \/ b = <<>> THEN <<>> ELSE ZapLeadingZero(sum[Len(a) * N])

(* b is taken off, shifted, wherever that leaves no borrow. *)
Taken(before, work2, i, i2) ==
    IF work2.carry THEN before ELSE [q |-> SetBit(before.q, i, i2), r |-> work2.blk]

Zapped(division) == [q |-> ZapLeadingZero(division.q), r |-> zapLeadingZeros(division.r)]

divideWithRemainder(a, b) ==
    LET len == Len(a) + 1
        qlen == Len(a) - Len(b) + 1
        try[n \in 0 .. qlen * N] ==
            IF n = 0 THEN [q |-> Zeros(qlen), r |-> Append(a, 0)]
            ELSE LET before == try[n - 1]
                     i == (qlen * N - n) \div N
                     i2 == (qlen * N - n) % N
                 IN  Taken(before, Row("subtract", before.r, Shifted(b, i, i2, len), FALSE), i, i2)
    IN  IF b = <<>> \/ Len(a) < Len(b) THEN [q |-> <<>>, r |-> a] ELSE Zapped(try[qlen * N])

increment(a) == Carried(Row("add", a, Zeros(Len(a)), TRUE))

(* Mutant of decrement: a leading block that becomes zero is kept. *)
decrementKeepsZero(a) == Row("subtract", a, Zeros(Len(a)), TRUE).blk

decrement(a) == ZapLeadingZero(Row("subtract", a, Zeros(Len(a)), TRUE).blk)

-----------------------------------------------------------------------------
(* BigUnsignedInABase: the digits of a number, lowest digit first.  There  *)
(* is room for as many as its bits can need.                               *)

bitLen(x) == CHOOSE len \in 0 .. x : 2^len > x /\ \A l \in 0 .. len - 1 : 2^l <= x
ceilingDiv(a, b) == (a + b - 1) \div b

Digit(before, last) == [x2 |-> last.q, blk |-> Append(before.blk, Word(last.r, N))]

DigitsOf(x, base) ==
    LET room == ceilingDiv(Len(x) * N, bitLen(base) - 1)
        digit[n \in 0 .. room] ==
            IF n = 0 THEN [x2 |-> x, blk |-> <<>>]
            ELSE LET before == digit[n - 1]
                 IN  IF before.x2 = <<>> THEN before
                     ELSE Digit(before, divideWithRemainder(before.x2, BlocksOf(base)))
    IN  digit[room].blk

NumberOf(digits, base) ==
    LET ans[n \in 0 .. Len(digits)] ==
            IF n = 0 THEN <<>>
            ELSE add(multiply(ans[n - 1], BlocksOf(base)),
                     BlocksOf(digits[Len(digits) + 1 - n]))
    IN  ans[Len(digits)]
=============================================================================
