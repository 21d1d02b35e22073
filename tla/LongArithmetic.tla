--------------------------- MODULE LongArithmetic ---------------------------
(***************************************************************************)
(* Unsigned 64-bit arithmetic of packages/ilp-protocol-stream/src/util:    *)
(* long.ts and the part of rational.ts the connection uses.                *)
(*                                                                         *)
(* Long itself is external: its add, subtract, multiply and shiftLeft wrap *)
(* around at the word's width.  WordBits is 64 in the code; every operator *)
(* keeps the width, so a small word meets the same edges.                  *)
(***************************************************************************)
EXTENDS Integers

CONSTANTS
    WordBits,           \* the width of a Long
    MAX_UNSIGNED_VALUE  \* Long.MAX_UNSIGNED_VALUE

powerOfTwo[k \in 0 .. WordBits] == IF k = 0 THEN 1 ELSE 2 * powerOfTwo[k - 1]

ASSUME WordAssumption ==
    /\ WordBits \in Nat \ {0}
    /\ MAX_UNSIGNED_VALUE \in Nat \ {0}
    /\ MAX_UNSIGNED_VALUE = powerOfTwo[WordBits] - 1

Long == 0 .. MAX_UNSIGNED_VALUE

wrap(n) == n % (MAX_UNSIGNED_VALUE + 1)

-----------------------------------------------------------------------------
minLong(a, b) == IF a < b THEN a ELSE b

maxLong(a, b) == IF a > b THEN a ELSE b

\* Mutant: only the first operand is compared with the sum.
MutantCheckedAdd(a, b) ==
    LET sum == wrap(a + b)
    IN  [sum |-> sum, overflow |-> sum < a]

checkedAdd(a, b) ==
    LET sum == wrap(a + b)
        overflow == sum < a \/ sum < b
    IN  [sum |-> IF overflow THEN MAX_UNSIGNED_VALUE ELSE sum, overflow |-> overflow]

checkedSubtract(a, b) ==
    LET difference == wrap(a - b)
        underflow == difference > a /\ difference > b
    IN  [difference |-> IF underflow THEN 0 ELSE difference, underflow |-> underflow]

checkedMultiply(a, b) ==
    LET product == wrap(a * b)
        overflow == product < a \/ product < b
    IN  [product |-> IF overflow THEN MAX_UNSIGNED_VALUE ELSE product,
         overflow |-> overflow]

-----------------------------------------------------------------------------
(* multiplyDivide: a * b / c by binary multiplication; c is positive, as   *)
(* Long.divide throws otherwise.                                           *)

MulState == [a : Nat, quo : Long, rem : Long, qn : Long, rn : Long]

\* Mutant: the remainder is not carried into the quotient.
MutantAddTerm(s, c) ==
    IF s.a % 2 = 0
    THEN s
    ELSE [s EXCEPT !.quo = wrap(s.quo + s.qn), !.rem = wrap(s.rem + s.rn) % c]

\* One bit of a: the term is added to the quotient and the remainder...
addTerm(s, c) ==
    LET rem == wrap(s.rem + s.rn)
    IN  IF s.a % 2 = 0 THEN s
        ELSE IF rem >= c
        THEN [s EXCEPT !.quo = wrap(s.quo + s.qn + 1), !.rem = rem - c]
        ELSE [s EXCEPT !.quo = wrap(s.quo + s.qn), !.rem = rem]

\* ...and the term is doubled for the next one.
doubleTerm(s, c) ==
    LET rn == wrap(2 * s.rn)
        qn == wrap(2 * s.qn)
    IN  [a |-> s.a \div 2, quo |-> s.quo, rem |-> s.rem,
         qn |-> IF rn >= c THEN wrap(qn + 1) ELSE qn,
         rn |-> IF rn >= c THEN rn - c ELSE rn]

overflowed == [a |-> 0, quo |-> MAX_UNSIGNED_VALUE, rem |-> 0, qn |-> 0, rn |-> 0]

\* A round of the loop.  A quotient that wrapped ends it.
mulStep(s, c) ==
    IF s.a = 0 THEN s
    ELSE IF addTerm(s, c).quo < s.quo THEN overflowed
    ELSE doubleTerm(addTerm(s, c), c)

mulStart(a, b, c) == [a |-> a, quo |-> 0, rem |-> 0, qn |-> b \div c, rn |-> b % c]

\* A word has WordBits bits, so the loop ends within as many rounds.
mulLoop(a, b, c) ==
    LET loop[k \in 0 .. WordBits] ==
            IF k = 0 THEN mulStart(a, b, c) ELSE mulStep(loop[k - 1], c)
    IN  loop[WordBits]

multiplyDivide(a, b, c) ==
    [quo |-> mulLoop(a, b, c).quo, rem |-> mulLoop(a, b, c).rem]

multiplyDivideFloor(a, b, c) == multiplyDivide(a, b, c).quo

multiplyDivideCeil(a, b, c) ==
    LET r == multiplyDivide(a, b, c)
    IN  IF r.rem = 0 \/ r.quo = MAX_UNSIGNED_VALUE THEN r.quo ELSE r.quo + 1

\* Mutant: an odd divisor rounds like an even one.
MutantRound(a, b, c) ==
    LET r == multiplyDivide(a, b, c)
    IN  IF r.rem # 0 /\ r.rem >= c \div 2 /\ r.quo # MAX_UNSIGNED_VALUE
        THEN r.quo + 1
        ELSE r.quo

multiplyDivideRound(a, b, c) ==
    LET r == multiplyDivide(a, b, c)
        roundUp == r.rem # 0 /\ IF c % 2 = 1 THEN r.rem > c \div 2 ELSE r.rem >= c \div 2
    IN  IF roundUp /\ r.quo # MAX_UNSIGNED_VALUE THEN r.quo + 1 ELSE r.quo

-----------------------------------------------------------------------------
(* Rational: the record [a, b] *)

Rational == [a : Long, b : Long \ {0}]

reciprocal(r) == [a |-> r.b, b |-> r.a]

multiplyByLong(r, value) == multiplyDivideFloor(value, r.a, r.b)

multiplyByLongCeil(r, value) == multiplyDivideCeil(value, r.a, r.b)

=============================================================================
