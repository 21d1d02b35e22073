----------------------- MODULE MCLongArithmeticProofs -----------------------
(***************************************************************************)
(* The properties of the 64-bit arithmetic that MCLongArithmetic checks    *)
(* for every operand of a small word, proved for every width of the word:  *)
(* in particular for the 64 bits of the code.                              *)
(***************************************************************************)
EXTENDS MCLongArithmetic, LongArithmeticProofs, TLAPS

Operands == x \in Long /\ y \in Long /\ divisor \in Long \ {0}

\* The walk over the operands stays within the Longs, with a divisor that is not 0.
LEMMA OperandsInvariant == Spec => []Operands
<1>1. Init => Operands
  <2>1. MAX_UNSIGNED_VALUE \in Nat /\ MAX_UNSIGNED_VALUE # 0
    BY WordAssumption, Zenon
  <2>2. 1 \in Long \ {0}
    BY <2>1 DEF Long
  <2>. QED  BY <2>2 DEF Init, Operands
<1>2. Operands /\ [NextDivisor]_<<x, y, divisor>> => Operands'
  BY WordAssumption DEF Operands, NextDivisor, Long
<1>. QED  BY <1>1, <1>2, PTL DEF Spec

\* A divisor or subtrahend in the lower half of the range, in numbers.
LEMMA LowerHalf ==
  ASSUME NEW c \in Long
  PROVE  /\ c <= HalfRange => 2 * c <= MAX_UNSIGNED_VALUE + 1
         /\ c < HalfRange => 2 * c <= MAX_UNSIGNED_VALUE
BY HalfWord, WordAssumption DEF HalfRange, Long

\* The wrap-around tests of checkedAdd (long.ts:65) and checkedSubtract (long.ts:80)
\* detect overflow and, for a subtrahend in the lower half of the range, underflow,
\* and the results saturate, whatever the width of the word.
THEOREM CheckedArithmetic == Spec => []CheckedArithmeticSaturates
<1>1. Operands => CheckedArithmeticSaturates
  <2>. SUFFICES ASSUME Operands PROVE CheckedArithmeticSaturates
    OBVIOUS
  <2>. USE DEF Operands
  <2>1. x \in Int /\ y \in Int /\ x + y \in Int /\ MAX_UNSIGNED_VALUE \in Int
    BY WordAssumption DEF Long
  <2>2. checkedAdd(x, y) = [sum |-> minLong(x + y, MAX_UNSIGNED_VALUE),
                            overflow |-> x + y > MAX_UNSIGNED_VALUE]
    <3>. DEFINE r == checkedAdd(x, y)
                over == wrap(x + y) < x \/ wrap(x + y) < y
    <3>1. r = [sum |-> r.sum, overflow |-> r.overflow] /\ r.overflow = over
      BY Zenon DEF checkedAdd
    <3>2. over <=> x + y > MAX_UNSIGNED_VALUE
      BY CheckedAdd, <3>1
    <3>3. over = (x + y > MAX_UNSIGNED_VALUE)
      <4>1. wrap(x + y) \in Int
        BY <2>1, WrapType DEF Long
      <4>. QED  BY <2>1, <3>2, <4>1
    <3>4. r.sum = minLong(x + y, MAX_UNSIGNED_VALUE)
      <4>1. r.sum = IF x + y > MAX_UNSIGNED_VALUE THEN MAX_UNSIGNED_VALUE ELSE x + y
        BY CheckedAdd
      <4>. QED  BY <2>1, <4>1 DEF minLong
    <3>. QED  BY <3>1, <3>3, <3>4, Zenon
  <2>3. ASSUME y < HalfRange
        PROVE  checkedSubtract(x, y) = [difference |-> maxLong(x - y, 0), underflow |-> x < y]
    <3>. DEFINE r == checkedSubtract(x, y)
                under == wrap(x - y) > x /\ wrap(x - y) > y
    <3>1. 2 * y <= MAX_UNSIGNED_VALUE
      BY <2>3, LowerHalf
    <3>2. r = [difference |-> r.difference, underflow |-> r.underflow] /\ r.underflow = under
      BY Zenon DEF checkedSubtract
    <3>3. under <=> x < y
      BY CheckedSubtractHalf, <3>1, <3>2
    <3>4. under = (x < y)
      <4>1. x - y \in Int
        BY <2>1
      <4>2. wrap(x - y) \in Int
        BY <4>1, WrapType DEF Long
      <4>. QED  BY <2>1, <3>3, <4>2
    <3>5. r.difference = maxLong(x - y, 0)
      <4>1. r.difference = IF x < y THEN 0 ELSE x - y
        BY <3>1, CheckedSubtractHalf
      <4>. QED  BY <2>1, <4>1 DEF maxLong
    <3>. QED  BY <3>2, <3>4, <3>5, Zenon
  <2>. QED  BY <2>2, <2>3 DEF CheckedArithmeticSaturates
<1>. QED  BY <1>1, OperandsInvariant, PTL

\* multiplyDivide (long.ts:130-168) computes the exact quotient and remainder of a
\* product twice as wide as the word, if the quotient fits and the divisor is in
\* the lower half of the range: the loop's invariant is LoopInv.
THEOREM MultiplyDivideCorrect == Spec => []MultiplyDivideExact
<1>1. Operands => MultiplyDivideExact
  BY LowerHalf, MulExact DEF Operands, MultiplyDivideExact, exact
<1>. QED  BY <1>1, OperandsInvariant, PTL

\* The three roundings of multiplyDivide (long.ts:107-128) are those of the exact
\* quotient.
THEOREM RoundingCorrect == Spec => []RoundingExact
<1>1. Operands => RoundingExact
  <2>. SUFFICES ASSUME Operands, divisor <= HalfRange, exact < MAX_UNSIGNED_VALUE
                PROVE  /\ multiplyDivideFloor(x, y, divisor) = exact
                       /\ multiplyDivideCeil(x, y, divisor) = (x * y + divisor - 1) \div divisor
                       /\ multiplyDivideRound(x, y, divisor) =
                              (2 * x * y + divisor) \div (2 * divisor)
    BY DEF RoundingExact
  <2>. DEFINE n == x * y  q == n \div divisor  r == n % divisor
  <2>1. n \in Nat /\ divisor \in Nat \ {0} /\ 2 * x * y = 2 * n
    BY WordAssumption DEF Operands, Long
  <2>2. q \in Nat /\ r \in Nat /\ r < divisor /\ n = q * divisor + r
    BY <2>1, Division
  <2>3. q < MAX_UNSIGNED_VALUE /\ exact = q
    BY DEF exact
  <2>4. multiplyDivide(x, y, divisor) = [quo |-> q, rem |-> r]
    <3>1. (x * y) \div divisor <= MAX_UNSIGNED_VALUE
      BY <2>2, <2>3, WordAssumption
    <3>. QED  BY <3>1, LowerHalf, MulExact DEF Operands
  <2>. DEFINE result == multiplyDivide(x, y, divisor)
  <2>5. result.quo = q /\ result.rem = r
    BY <2>4
  <2>6. /\ multiplyDivideFloor(x, y, divisor) = result.quo
        /\ multiplyDivideCeil(x, y, divisor) =
              IF result.rem = 0 \/ result.quo = MAX_UNSIGNED_VALUE
              THEN result.quo ELSE result.quo + 1
    BY DEF multiplyDivideFloor, multiplyDivideCeil
  <2>7. multiplyDivideRound(x, y, divisor) =
            IF /\ result.rem # 0
               /\ IF divisor % 2 = 1 THEN result.rem > divisor \div 2
                  ELSE result.rem >= divisor \div 2
               /\ result.quo # MAX_UNSIGNED_VALUE
            THEN result.quo + 1 ELSE result.quo
    BY DEF multiplyDivideRound
  <2>. HIDE DEF result, n, q, r
  <2>8. /\ (n + divisor - 1) \div divisor = IF r = 0 THEN q ELSE q + 1
        /\ (2 * n + divisor) \div (2 * divisor) = IF 2 * r >= divisor THEN q + 1 ELSE q
    BY <2>1, <2>2, RoundNumbers
  <2>9. q # MAX_UNSIGNED_VALUE
    BY <2>2, <2>3, WordAssumption
  <2>10. multiplyDivideCeil(x, y, divisor) = (n + divisor - 1) \div divisor
    BY <2>5, <2>6, <2>8, <2>9
  <2>11. (r # 0 /\ IF divisor % 2 = 1 THEN r > divisor \div 2 ELSE r >= divisor \div 2)
             <=> 2 * r >= divisor
    BY <2>1, <2>2
  <2>12. multiplyDivideRound(x, y, divisor) = IF 2 * r >= divisor THEN q + 1 ELSE q
    BY <2>5, <2>7, <2>9, <2>11
  <2>13. multiplyDivideRound(x, y, divisor) = (2 * n + divisor) \div (2 * divisor)
    BY <2>8, <2>12
  <2>14. multiplyDivideFloor(x, y, divisor) = exact
    BY <2>3, <2>5, <2>6
  <2>15. multiplyDivideRound(x, y, divisor) = (2 * x * y + divisor) \div (2 * divisor)
    BY <2>1, <2>13
  <2>. QED  BY <2>10, <2>14, <2>15 DEF n
<1>. QED  BY <1>1, OperandsInvariant, PTL

=============================================================================
