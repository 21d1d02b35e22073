-------------------------- MODULE MCLongArithmetic --------------------------
(***************************************************************************)
(* LongArithmetic against exact arithmetic, for every operand of a small   *)
(* word: a behaviour picks two operands and walks through the divisors.    *)
(***************************************************************************)
EXTENDS LongArithmetic

VARIABLES x, y, divisor

Init == x \in Long /\ y \in Long /\ divisor = 1

NextDivisor ==
    /\ divisor < MAX_UNSIGNED_VALUE
    /\ divisor' = divisor + 1
    /\ UNCHANGED <<x, y>>

Spec == Init /\ [][NextDivisor]_<<x, y, divisor>>

-----------------------------------------------------------------------------
exact == (x * y) \div divisor

HalfRange == powerOfTwo[WordBits - 1]

\* The wrap-around test of checkedAdd (long.ts:65) detects every overflow, the one
\* of checkedSubtract (long.ts:80) every underflow of a subtrahend in the lower half
\* of the range, and the result then saturates.
CheckedArithmeticSaturates ==
    /\ checkedAdd(x, y) = [sum |-> minLong(x + y, MAX_UNSIGNED_VALUE),
                           overflow |-> x + y > MAX_UNSIGNED_VALUE]
    /\ y < HalfRange =>
          checkedSubtract(x, y) = [difference |-> maxLong(x - y, 0), underflow |-> x < y]

\* multiplyDivide needs no word wider than 64 bits (long.ts:130-168): whenever the
\* quotient fits and the divisor is in the lower half of the range, quotient and
\* remainder are exact, although the product may need twice the width.
MultiplyDivideExact ==
    divisor <= HalfRange /\ exact <= MAX_UNSIGNED_VALUE =>
        multiplyDivide(x, y, divisor) = [quo |-> exact, rem |-> (x * y) % divisor]

\* The three roundings agree with those of the exact quotient (long.ts:107-128):
\* up for any remainder, and to the nearest with halves up.
RoundingExact ==
    divisor <= HalfRange /\ exact < MAX_UNSIGNED_VALUE =>
        /\ multiplyDivideFloor(x, y, divisor) = exact
        /\ multiplyDivideCeil(x, y, divisor) = (x * y + divisor - 1) \div divisor
        /\ multiplyDivideRound(x, y, divisor) = (2 * x * y + divisor) \div (2 * divisor)

=============================================================================
