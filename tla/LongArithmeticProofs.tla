------------------------ MODULE LongArithmeticProofs ------------------------
(***************************************************************************)
(* What the operators of LongArithmetic compute, for every width of the    *)
(* word: the lemmas the proofs about the connection rest on, and the       *)
(* correctness of multiplyDivide.                                          *)
(*                                                                         *)
(* A recursive function is a CHOOSE, so each one below is first shown to   *)
(* exist (IterationExists) and to stay within a set its step keeps; what   *)
(* it computes then follows by taking the least argument it fails for.     *)
(***************************************************************************)
EXTENDS LongArithmetic, PrefixSums, TLAPS

-----------------------------------------------------------------------------
(* Repeating a step *)

\* f holds what n repetitions of the step make of start.
Repeats(f, start, step, n) == f[0] = start /\ \A k \in 1 .. n : f[k] = step[f[k - 1]]

\* A step that stays within S can be repeated n times.
LEMMA IterationExists ==
  ASSUME NEW n \in Nat, NEW S, NEW start \in S, NEW step \in [S -> S]
  PROVE  \E f \in [0 .. n -> S] : Repeats(f, start, step, n)
<1>. USE DEF Repeats
<1>. DEFINE Good(f, m) == Repeats(f, start, step, m)
            T == {m \in 0 .. n : ~\E f \in [0 .. m -> S] : Good(f, m)}
<1>1. T = {}
  <2>. SUFFICES ASSUME T # {} PROVE FALSE
    OBVIOUS
  <2>1. PICK m \in T : \A j \in T : m <= j
    <3>. HIDE DEF Good
    <3>1. T \subseteq Nat
      OBVIOUS
    <3>. QED  BY <3>1, LeastNatural
  <2>2. m # 0
    <3>1. [k \in 0 .. 0 |-> start] \in [0 .. 0 -> S] /\ Good([k \in 0 .. 0 |-> start], 0)
      OBVIOUS
    <3>. HIDE DEF Good
    <3>. QED  BY <2>1, <3>1
  <2>3. m - 1 \in 0 .. n /\ m - 1 \notin T /\ m \in 1 .. n
    <3>. HIDE DEF Good
    <3>. QED  BY <2>1, <2>2
  <2>4. PICK f \in [0 .. m - 1 -> S] : Good(f, m - 1)
    <3>. HIDE DEF Good
    <3>. QED  BY <2>3
  <2>. DEFINE g == [k \in 0 .. m |-> IF k = m THEN step[f[m - 1]] ELSE f[k]]
  <2>5. g \in [0 .. m -> S] /\ Good(g, m)
    <3>1. m - 1 \in 0 .. m - 1 /\ f[m - 1] \in S
      BY <2>3, <2>4
    <3>2. \A k \in 0 .. m : k # m => k \in 0 .. m - 1
      BY <2>3
    <3>3. g \in [0 .. m -> S]
      BY <3>1, <3>2
    <3>4. \A k \in 1 .. m : g[k] = step[g[k - 1]]
      <4>. SUFFICES ASSUME NEW k \in 1 .. m PROVE g[k] = step[g[k - 1]]
        OBVIOUS
      <4>1. k \in 0 .. m /\ k - 1 \in 0 .. m /\ k - 1 # m
        BY <2>3
      <4>2. g[k - 1] = f[k - 1]
        BY <4>1
      <4>3. CASE k = m
        BY <4>1, <4>2, <4>3
      <4>4. CASE k # m
        <5>1. k \in 1 .. m - 1
          BY <4>4, <2>3
        <5>2. f[k] = step[f[k - 1]]
          BY <5>1, <2>4
        <5>. QED  BY <4>1, <4>2, <4>4, <5>2
      <4>. QED  BY <4>3, <4>4
    <3>5. g[0] = start
      BY <2>3, <2>4
    <3>. QED  BY <3>3, <3>4, <3>5
  <2>. HIDE DEF Good, g
  <2>. QED  BY <2>1, <2>5
<1>2. n \in 0 .. n
  OBVIOUS
<1>3. \E f \in [0 .. n -> S] : Good(f, n)
  <2>. HIDE DEF Good
  <2>. QED  BY <1>1, <1>2
<1>. QED  BY <1>3

-----------------------------------------------------------------------------
(* The width of the word *)

\* Each power of two is twice the one before.
LEMMA PowerOfTwo ==
  /\ powerOfTwo[0] = 1
  /\ \A k \in 1 .. WordBits : powerOfTwo[k] = 2 * powerOfTwo[k - 1]
<1>. DEFINE step == [i \in Nat |-> 2 * i]
            S == Nat
            start == 1
<1>1. WordBits \in Nat /\ step \in [S -> S] /\ start \in S
  BY WordAssumption
<1>2. PICK f \in [0 .. WordBits -> S] : Repeats(f, start, step, WordBits)
  <2>. HIDE DEF step, start, S
  <2>. QED  BY <1>1, IterationExists
<1>. USE DEF Repeats
<1>3. f = [k \in 0 .. WordBits |-> IF k = 0 THEN 1 ELSE 2 * f[k - 1]]
  <2>1. \A k \in 0 .. WordBits : f[k] = IF k = 0 THEN 1 ELSE 2 * f[k - 1]
    <3>. SUFFICES ASSUME NEW k \in 0 .. WordBits, k # 0 PROVE f[k] = 2 * f[k - 1]
      BY <1>2
    <3>1. k \in 1 .. WordBits /\ k - 1 \in 0 .. WordBits
      BY <1>1
    <3>. QED  BY <1>2, <3>1
  <2>. QED  BY <2>1
<1>4. powerOfTwo = [k \in 0 .. WordBits |-> IF k = 0 THEN 1 ELSE 2 * powerOfTwo[k - 1]]
  BY <1>3, Zenon DEF powerOfTwo
<1>. HIDE DEF step
<1>5. 0 \in 0 .. WordBits /\ \A k \in 1 .. WordBits : k \in 0 .. WordBits /\ k # 0
  BY <1>1
<1>. QED  BY <1>4, <1>5

\* The powers of two are positive numbers.
LEMMA PowerPositive ==
  \A k \in 0 .. WordBits : powerOfTwo[k] \in Nat /\ powerOfTwo[k] > 0
<1>. DEFINE T == {k \in 0 .. WordBits : ~(powerOfTwo[k] \in Nat /\ powerOfTwo[k] > 0)}
<1>1. T = {}
  <2>. SUFFICES ASSUME T # {} PROVE FALSE
    OBVIOUS
  <2>1. PICK m \in T : \A j \in T : m <= j
    <3>1. T \subseteq Nat
      OBVIOUS
    <3>. QED  BY <3>1, LeastNatural
  <2>2. m # 0
    BY <2>1, PowerOfTwo
  <2>3. m - 1 \in 0 .. WordBits /\ m - 1 \notin T /\ m \in 1 .. WordBits
    BY <2>1, <2>2, WordAssumption
  <2>4. powerOfTwo[m] = 2 * powerOfTwo[m - 1]
    BY <2>3, PowerOfTwo
  <2>. QED  BY <2>1, <2>3, <2>4
<1>. QED  BY <1>1

\* Twice the half range is the range.
LEMMA HalfWord ==
  /\ powerOfTwo[WordBits - 1] \in Nat
  /\ 2 * powerOfTwo[WordBits - 1] = MAX_UNSIGNED_VALUE + 1
<1>1. WordBits - 1 \in 0 .. WordBits /\ WordBits \in 1 .. WordBits /\ WordBits \in 0 .. WordBits
  BY WordAssumption
<1>2. powerOfTwo[WordBits] = 2 * powerOfTwo[WordBits - 1]
  BY <1>1, PowerOfTwo
<1>3. powerOfTwo[WordBits - 1] \in Nat /\ powerOfTwo[WordBits] \in Nat
  BY <1>1, PowerPositive
<1>. QED  BY <1>2, <1>3, WordAssumption

-----------------------------------------------------------------------------
(* Arithmetic of Long *)

\* wrap leaves a Long alone, and takes the modulus once from a sum of two.
LEMMA WrapSum ==
  ASSUME NEW n \in 0 .. 2 * MAX_UNSIGNED_VALUE
  PROVE  wrap(n) = IF n <= MAX_UNSIGNED_VALUE THEN n ELSE n - (MAX_UNSIGNED_VALUE + 1)
BY WordAssumption DEF wrap

\* checkedAdd saturates, and reports it.
LEMMA CheckedAdd ==
  ASSUME NEW a \in Long, NEW b \in Long
  PROVE  /\ checkedAdd(a, b).overflow <=> a + b > MAX_UNSIGNED_VALUE
         /\ checkedAdd(a, b).sum =
                IF a + b > MAX_UNSIGNED_VALUE THEN MAX_UNSIGNED_VALUE ELSE a + b
<1>. DEFINE n == a + b
<1>1. n \in 0 .. 2 * MAX_UNSIGNED_VALUE
  BY WordAssumption DEF Long
<1>. HIDE DEF n
<1>2. wrap(n) = IF n <= MAX_UNSIGNED_VALUE THEN n ELSE n - (MAX_UNSIGNED_VALUE + 1)
  BY <1>1, WrapSum
<1>. USE DEF n
<1>3. (wrap(a + b) < a \/ wrap(a + b) < b) <=> a + b > MAX_UNSIGNED_VALUE
  <2>1. CASE a + b <= MAX_UNSIGNED_VALUE
    <3>1. wrap(a + b) = a + b
      BY <1>2, <2>1
    <3>. QED  BY <2>1, <3>1, WordAssumption DEF Long
  <2>2. CASE a + b > MAX_UNSIGNED_VALUE
    <3>1. wrap(a + b) = a + b - (MAX_UNSIGNED_VALUE + 1)
      BY <1>2, <2>2, WordAssumption DEF Long
    <3>. QED  BY <2>2, <3>1, WordAssumption DEF Long
  <2>. QED  BY <2>1, <2>2, WordAssumption DEF Long
<1>4. checkedAdd(a, b).overflow = (wrap(a + b) < a \/ wrap(a + b) < b)
  BY Zenon DEF checkedAdd
<1>5. checkedAdd(a, b).sum =
          IF wrap(a + b) < a \/ wrap(a + b) < b THEN MAX_UNSIGNED_VALUE ELSE wrap(a + b)
  BY Zenon DEF checkedAdd
<1>6. checkedAdd(a, b).sum =
          IF a + b > MAX_UNSIGNED_VALUE THEN MAX_UNSIGNED_VALUE ELSE a + b
  BY <1>2, <1>3, <1>5, WordAssumption DEF Long
<1>. QED  BY <1>3, <1>4, <1>6, Zenon

\* checkedSubtract saturates, and reports it, if nothing underflows or the subtrahend
\* is in the lower half of the range.
LEMMA CheckedSubtractHalf ==
  ASSUME NEW a \in Long, NEW b \in Long, b <= a \/ 2 * b <= MAX_UNSIGNED_VALUE
  PROVE  /\ checkedSubtract(a, b).underflow <=> a < b
         /\ checkedSubtract(a, b).difference = IF a < b THEN 0 ELSE a - b
<1>1. (wrap(a - b) > a /\ wrap(a - b) > b) <=> a < b
  <2>1. CASE b <= a
    <3>1. wrap(a - b) = a - b
      BY <2>1, WrapSum, WordAssumption DEF Long
    <3>. QED  BY <2>1, <3>1, WordAssumption DEF Long
  <2>2. CASE a < b
    <3>1. wrap(a - b) = a - b + (MAX_UNSIGNED_VALUE + 1)
      BY <2>2, WordAssumption DEF wrap, Long
    <3>. QED  BY <2>2, <3>1, WordAssumption DEF Long
  <2>. QED  BY <2>1, <2>2 DEF Long
<1>2. checkedSubtract(a, b).underflow = (wrap(a - b) > a /\ wrap(a - b) > b)
  BY Zenon DEF checkedSubtract
<1>3. checkedSubtract(a, b).difference =
          IF wrap(a - b) > a /\ wrap(a - b) > b THEN 0 ELSE wrap(a - b)
  BY Zenon DEF checkedSubtract
<1>4. ~(a < b) => wrap(a - b) = a - b
  BY WrapSum, WordAssumption DEF Long
<1>5. checkedSubtract(a, b).difference = IF a < b THEN 0 ELSE a - b
  BY <1>1, <1>3, <1>4, Zenon
<1>. QED  BY <1>1, <1>2, <1>5, Zenon

\* checkedSubtract is exact when nothing underflows.
LEMMA CheckedSubtract ==
  ASSUME NEW a \in Long, NEW b \in Long, b <= a
  PROVE  checkedSubtract(a, b).difference = a - b
BY CheckedSubtractHalf DEF Long

\* wrap yields a Long, and so does checkedSubtract.
LEMMA WrapType ==
  ASSUME NEW n \in Int
  PROVE  wrap(n) \in Long
BY WordAssumption DEF wrap, Long

\* A checked difference is a Long, also where the underflow is missed.
LEMMA CheckedSubtractType ==
  ASSUME NEW a \in Long, NEW b \in Long
  PROVE  checkedSubtract(a, b).difference \in Long
<1>1. wrap(a - b) \in Long /\ 0 \in Long
  BY WrapType, WordAssumption DEF Long
<1>2. checkedSubtract(a, b).difference =
          IF wrap(a - b) > a /\ wrap(a - b) > b THEN 0 ELSE wrap(a - b)
  BY Zenon DEF checkedSubtract
<1>. QED  BY <1>1, <1>2

-----------------------------------------------------------------------------
(* multiplyDivide: types *)

\* The step of the loop stays within Longs, whatever wraps around.
LEMMA AddTermType ==
  ASSUME NEW s \in MulState, NEW c \in Long \ {0}
  PROVE  addTerm(s, c) \in MulState /\ addTerm(s, c).a = s.a
                                    /\ addTerm(s, c).qn = s.qn /\ addTerm(s, c).rn = s.rn
<1>. DEFINE rem == wrap(s.rem + s.rn)
            quo == wrap(s.quo + s.qn)
            carried == wrap(s.quo + s.qn + 1)
<1>1. s.quo \in Int /\ s.qn \in Int /\ s.rem \in Int /\ s.rn \in Int
  BY DEF MulState, Long
<1>2. rem \in Long /\ quo \in Long /\ carried \in Long
  BY <1>1, WrapType
<1>3. rem >= c => rem - c \in Long
  BY <1>2, WordAssumption DEF Long
<1>4. addTerm(s, c) = IF s.a % 2 = 0 THEN s
                      ELSE IF rem >= c THEN [s EXCEPT !.quo = carried, !.rem = rem - c]
                      ELSE [s EXCEPT !.quo = quo, !.rem = rem]
  BY DEF addTerm
<1>. DEFINE less == rem - c
<1>5. rem >= c => less \in Long
  BY <1>3
<1>. HIDE DEF rem, quo, carried, less
<1>6. addTerm(s, c) = IF s.a % 2 = 0 THEN s
                      ELSE IF rem >= c THEN [s EXCEPT !.quo = carried, !.rem = less]
                      ELSE [s EXCEPT !.quo = quo, !.rem = rem]
  BY <1>4 DEF less
<1>. QED  BY <1>2, <1>5, <1>6 DEF MulState

\* Doubling the term of the binary multiplication keeps Longs.
LEMMA DoubleTermType ==
  ASSUME NEW s \in MulState, NEW c \in Long \ {0}
  PROVE  doubleTerm(s, c) \in MulState
<1>. DEFINE rn == wrap(2 * s.rn)
            qn == wrap(2 * s.qn)
            half == s.a \div 2
            q == IF rn >= c THEN wrap(qn + 1) ELSE qn
            r == IF rn >= c THEN rn - c ELSE rn
<1>1. s.qn \in Int /\ s.rn \in Int /\ s.a \in Nat
  BY DEF MulState, Long
<1>2. 2 * s.rn \in Int /\ 2 * s.qn \in Int /\ half \in Nat
  BY <1>1
<1>3. rn \in Long /\ qn \in Long
  BY <1>2, WrapType
<1>4. qn + 1 \in Int
  BY <1>3 DEF Long
<1>5. q \in Long
  BY <1>3, <1>4, WrapType
<1>6. r \in Long
  BY <1>3, WordAssumption DEF Long
<1>7. doubleTerm(s, c) = [a |-> half, quo |-> s.quo, rem |-> s.rem, qn |-> q, rn |-> r]
  BY DEF doubleTerm
<1>. HIDE DEF rn, qn, half, q, r
<1>. QED  BY <1>2, <1>5, <1>6, <1>7 DEF MulState

\* One turn of the loop of multiplyDivide keeps Longs.
LEMMA MulStepType ==
  ASSUME NEW s \in MulState, NEW c \in Long \ {0}
  PROVE  mulStep(s, c) \in MulState
<1>1. addTerm(s, c) \in MulState
  BY AddTermType
<1>2. doubleTerm(addTerm(s, c), c) \in MulState
  BY <1>1, DoubleTermType
<1>3. overflowed \in MulState
  BY WordAssumption DEF overflowed, MulState, Long
<1>. QED  BY <1>2, <1>3 DEF mulStep

\* The quotient and the remainder of two numbers.
LEMMA Division ==
  ASSUME NEW n \in Nat, NEW c \in Nat \ {0}
  PROVE  /\ n \div c \in Nat /\ n % c \in Nat
         /\ n % c < c
         /\ n = (n \div c) * c + (n % c)
OBVIOUS

\* A quotient and a remainder below the divisor are the ones of integer division.
LEMMA DivisionUnique ==
  ASSUME NEW n \in Nat, NEW c \in Nat \ {0}, NEW q \in Nat, NEW r \in Nat,
         r < c, n = q * c + r
  PROVE  n \div c = q /\ n % c = r
OBVIOUS

\* The loop of multiplyDivide starts from Longs.
LEMMA MulStartType ==
  ASSUME NEW a \in Long, NEW b \in Long, NEW c \in Long \ {0}
  PROVE  mulStart(a, b, c) \in MulState
<1>. DEFINE q == b \div c
            r == b % c
<1>1. a \in Nat /\ b \in Nat /\ c \in Nat \ {0} /\ b <= MAX_UNSIGNED_VALUE /\ c <= MAX_UNSIGNED_VALUE
  BY WordAssumption DEF Long
<1>2. q \in Nat /\ r \in Nat /\ r < c /\ b = q * c + r
  BY <1>1, Division
<1>. HIDE DEF q, r
<1>3. q <= q * c
  BY <1>1, <1>2
<1>4. q * c \in Nat
  BY <1>1, <1>2
<1>5. q \in Long /\ r \in Long /\ 0 \in Long
  BY <1>1, <1>2, <1>3, <1>4, WordAssumption DEF Long
<1>6. mulStart(a, b, c) = [a |-> a, quo |-> 0, rem |-> 0, qn |-> q, rn |-> r]
  BY DEF mulStart, q, r
<1>. QED  BY <1>1, <1>5, <1>6 DEF MulState

\* What the loop leaves is what its last round leaves.
LEMMA MulLoop ==
  ASSUME NEW a \in Long, NEW b \in Long, NEW c \in Long \ {0}
  PROVE  \E f \in [0 .. WordBits -> MulState] :
            /\ f[0] = mulStart(a, b, c)
            /\ \A k \in 1 .. WordBits : f[k] = mulStep(f[k - 1], c)
            /\ mulLoop(a, b, c) = f[WordBits]
<1>. DEFINE step == [s \in MulState |-> mulStep(s, c)]
            start == mulStart(a, b, c)
<1>1. WordBits \in Nat /\ step \in [MulState -> MulState] /\ start \in MulState
  BY WordAssumption, MulStepType, MulStartType
<1>2. \E f \in [0 .. WordBits -> MulState] : Repeats(f, start, step, WordBits)
  <2>. HIDE DEF step, start
  <2>. QED  BY <1>1, IterationExists
<1>3. PICK f \in [0 .. WordBits -> MulState] : Repeats(f, start, step, WordBits)
  BY <1>2
<1>. DEFINE IsLoop(g) == g = [k \in 0 .. WordBits |->
                                 IF k = 0 THEN start ELSE mulStep(g[k - 1], c)]
<1>4. IsLoop(f)
  <2>1. \A k \in 0 .. WordBits : f[k] = IF k = 0 THEN start ELSE mulStep(f[k - 1], c)
    <3>. SUFFICES ASSUME NEW k \in 0 .. WordBits, k # 0 PROVE f[k] = mulStep(f[k - 1], c)
      BY <1>3 DEF Repeats
    <3>1. k \in 1 .. WordBits /\ k - 1 \in 0 .. WordBits
      BY <1>1
    <3>2. f[k - 1] \in MulState
      BY <3>1
    <3>3. f[k] = step[f[k - 1]]
      BY <1>3, <3>1 DEF Repeats
    <3>. QED  BY <3>2, <3>3
  <2>. QED  BY <2>1
<1>. DEFINE loop == CHOOSE g : IsLoop(g)
<1>5. IsLoop(loop)
  BY <1>4, Zenon
<1>6. mulLoop(a, b, c) = loop[WordBits]
  BY DEF mulLoop
<1>. HIDE DEF loop, start, step
<1>7. loop[0] = start /\ \A k \in 1 .. WordBits : loop[k] = mulStep(loop[k - 1], c)
  <2>1. 0 \in 0 .. WordBits /\ \A k \in 1 .. WordBits : k \in 0 .. WordBits /\ k # 0
    BY <1>1
  <2>. QED  BY <1>5, <2>1
<1>. DEFINE T == {k \in 0 .. WordBits : loop[k] # f[k]}
<1>8. T = {}
  <2>. SUFFICES ASSUME T # {} PROVE FALSE
    OBVIOUS
  <2>1. PICK m \in T : \A j \in T : m <= j
    <3>1. T \subseteq Nat
      OBVIOUS
    <3>. QED  BY <3>1, LeastNatural
  <2>2. m # 0
    BY <1>3, <1>7, <2>1 DEF Repeats
  <2>3. m - 1 \in 0 .. WordBits /\ m \in 1 .. WordBits /\ m - 1 \notin T
    BY <1>1, <2>1, <2>2
  <2>4. loop[m - 1] = f[m - 1] /\ f[m - 1] \in MulState
    BY <2>3
  <2>5. loop[m] = mulStep(loop[m - 1], c) /\ f[m] = step[f[m - 1]]
    BY <1>3, <1>7, <2>3 DEF Repeats
  <2>6. step[f[m - 1]] = mulStep(f[m - 1], c)
    BY <2>4 DEF step
  <2>. QED  BY <2>1, <2>4, <2>5, <2>6
<1>9. \A k \in 1 .. WordBits : f[k] = mulStep(f[k - 1], c)
  <2>. SUFFICES ASSUME NEW k \in 1 .. WordBits PROVE f[k] = mulStep(f[k - 1], c)
    OBVIOUS
  <2>1. k - 1 \in 0 .. WordBits /\ k \in 0 .. WordBits
    BY <1>1
  <2>. QED  BY <1>7, <1>8, <2>1
<1>10. f[0] = start /\ mulLoop(a, b, c) = f[WordBits]
  BY <1>1, <1>3, <1>6, <1>8 DEF Repeats
<1>. QED  BY <1>9, <1>10 DEF start

\* The quotient and the remainder are Longs.
LEMMA MultiplyDivideType ==
  ASSUME NEW a \in Long, NEW b \in Long, NEW c \in Long \ {0}
  PROVE  /\ multiplyDivide(a, b, c).quo \in Long
         /\ multiplyDivide(a, b, c).rem \in Long
         /\ multiplyDivideFloor(a, b, c) \in Long
         /\ multiplyDivideCeil(a, b, c) \in Long
<1>1. mulLoop(a, b, c) \in MulState
  BY MulLoop, WordAssumption
<1>2. multiplyDivide(a, b, c).quo \in Long /\ multiplyDivide(a, b, c).rem \in Long
  BY <1>1 DEF multiplyDivide, MulState
<1>. DEFINE r == multiplyDivide(a, b, c)
<1>3. multiplyDivideCeil(a, b, c) =
          IF r.rem = 0 \/ r.quo = MAX_UNSIGNED_VALUE THEN r.quo ELSE r.quo + 1
  BY DEF multiplyDivideCeil
<1>. HIDE DEF r
<1>4. r.quo \in Long
  BY <1>2 DEF r
<1>5. r.quo # MAX_UNSIGNED_VALUE => r.quo + 1 \in Long
  BY <1>4, WordAssumption DEF Long
<1>. QED  BY <1>2, <1>3, <1>4, <1>5 DEF multiplyDivideFloor

-----------------------------------------------------------------------------
(* multiplyDivide: the invariant of the loop *)

\* The product is what the bits of a that are left still add to quotient and
\* remainder; once a is 0 the term, which may have wrapped, no longer counts.
LoopInv(s, n, c) ==
    /\ s.rem < c /\ s.rn < c
    /\ n = s.a * (s.qn * c + s.rn) + (s.quo * c + s.rem)

\* What fits into the quotient is a Long.
LEMMA Fits ==
  ASSUME NEW n \in Nat, NEW c \in Nat \ {0}, NEW t \in Nat, t * c <= n,
         n \div c <= MAX_UNSIGNED_VALUE
  PROVE  t <= MAX_UNSIGNED_VALUE
<1>. DEFINE q == n \div c
            r == n % c
<1>1. q \in Nat /\ r \in Nat /\ r < c /\ n = q * c + r
  BY Division
<1>2. q <= MAX_UNSIGNED_VALUE
  OBVIOUS
<1>. HIDE DEF q, r
<1>3. ~(t >= q + 1)
  <2>. SUFFICES ASSUME t >= q + 1 PROVE FALSE
    OBVIOUS
  <2>1. t * c >= (q + 1) * c
    BY <1>1
  <2>2. (q + 1) * c = q * c + c
    BY <1>1
  <2>3. t * c \in Nat /\ q * c \in Nat /\ (q + 1) * c \in Nat
    BY <1>1
  <2>. QED  BY <1>1, <2>1, <2>2, <2>3
<1>. QED  BY <1>1, <1>2, <1>3, WordAssumption

\* Adding a term: the numbers.
LEMMA AddExact ==
  ASSUME NEW a \in Nat \ {0}, NEW quo \in Nat, NEW rem \in Nat, NEW qn \in Nat, NEW rn \in Nat,
         NEW c \in Nat \ {0}, NEW n \in Nat,
         n = a * (qn * c + rn) + (quo * c + rem)
  PROVE  /\ n = (a - 1) * (qn * c + rn) + ((quo + qn) * c + (rem + rn))
         /\ (quo + qn) * c <= n
         /\ rem + rn >= c => /\ (quo + qn + 1) * c <= n
                             /\ n = (a - 1) * (qn * c + rn)
                                        + ((quo + qn + 1) * c + (rem + rn - c))
<1>. DEFINE term == qn * c + rn
            rest == (a - 1) * term
            sum == (quo + qn) * c
<1>1. term \in Nat /\ qn * c \in Nat /\ quo * c \in Nat
  OBVIOUS
<1>2. a * term = rest + term
  BY <1>1
<1>3. rest \in Nat
  <2>1. a - 1 \in Nat
    OBVIOUS
  <2>. QED  BY <1>1, <2>1
<1>4. sum = quo * c + qn * c /\ sum \in Nat
  OBVIOUS
<1>5. (quo + qn + 1) * c = sum + c
  OBVIOUS
<1>6. n = rest + (sum + (rem + rn))
  BY <1>1, <1>2, <1>3, <1>4
<1>. QED  BY <1>3, <1>4, <1>5, <1>6

\* Doubling the term: the numbers.
Before(h, rest, qn, rn, c, n) == n = (2 * h) * (qn * c + rn) + rest

Doubled(h, rest, qn, rn, c, n) ==
    /\ n = h * ((2 * qn) * c + 2 * rn) + rest
    /\ h # 0 => (2 * qn) * c <= n
    /\ 2 * rn >= c => /\ h # 0 => (2 * qn + 1) * c <= n
                      /\ n = h * ((2 * qn + 1) * c + (2 * rn - c)) + rest

\* Doubling the term and halving what is left of the factor keeps the product.
LEMMA DoubleExact ==
  ASSUME NEW h \in Nat, NEW rest \in Nat, NEW qn \in Nat, NEW rn \in Nat,
         NEW c \in Nat \ {0}, NEW n \in Nat,
         Before(h, rest, qn, rn, c, n)
  PROVE  Doubled(h, rest, qn, rn, c, n)
<1>. USE DEF Before, Doubled
<1>. DEFINE term == qn * c + rn
            double == (2 * qn) * c + 2 * rn
<1>1. term \in Nat /\ double \in Nat /\ double = 2 * term /\ (2 * qn) * c \in Nat
  OBVIOUS
<1>2. (2 * h) * term = h * double
  BY <1>1
<1>3. (2 * qn + 1) * c = (2 * qn) * c + c
  OBVIOUS
<1>4. h # 0 => h * double >= double
  BY <1>1
<1>5. h * double \in Nat
  BY <1>1
<1>6. n = h * double + rest
  BY <1>2
<1>7. 2 * rn >= c => (2 * qn + 1) * c + (2 * rn - c) = double
  BY <1>1, <1>3
<1>. QED  BY <1>1, <1>3, <1>4, <1>5, <1>6, <1>7

\* The numbers of a state.
LEMMA MulNumbers ==
  ASSUME NEW s \in MulState
  PROVE  s.a \in Nat /\ s.quo \in Nat /\ s.rem \in Nat /\ s.qn \in Nat /\ s.rn \in Nat
BY WordAssumption DEF MulState, Long

\* A Long or a sum that fits is not wrapped.
LEMMA WrapFits ==
  ASSUME NEW n \in Nat, n <= MAX_UNSIGNED_VALUE
  PROVE  wrap(n) = n
BY WrapSum, WordAssumption

\* The term of an odd a is added without wrapping, as the quotient fits.
LEMMA AddTermExact ==
  ASSUME NEW s \in MulState, s.a # 0, NEW c \in Long \ {0}, 2 * c <= MAX_UNSIGNED_VALUE + 1,
         NEW n \in Nat, n \div c <= MAX_UNSIGNED_VALUE, LoopInv(s, n, c)
  PROVE  /\ s.quo <= addTerm(s, c).quo
         /\ addTerm(s, c).rem < c
         /\ n = (2 * (s.a \div 2)) * (s.qn * c + s.rn)
                    + (addTerm(s, c).quo * c + addTerm(s, c).rem)
<1>. DEFINE a == s.a  quo == s.quo  rem == s.rem  qn == s.qn  rn == s.rn
            t == addTerm(s, c)
<1>1. c \in Nat \ {0} /\ a \in Nat \ {0} /\ quo \in Nat /\ rem \in Nat /\ qn \in Nat /\ rn \in Nat
  BY MulNumbers, WordAssumption DEF Long
<1>2. rem < c /\ rn < c /\ n = a * (qn * c + rn) + (quo * c + rem)
  BY DEF LoopInv
<1>. HIDE DEF a, quo, rem, qn, rn
<1>3. /\ n = (a - 1) * (qn * c + rn) + ((quo + qn) * c + (rem + rn))
      /\ (quo + qn) * c <= n
      /\ rem + rn >= c => /\ (quo + qn + 1) * c <= n
                          /\ n = (a - 1) * (qn * c + rn) + ((quo + qn + 1) * c + (rem + rn - c))
  BY <1>1, <1>2, AddExact
<1>4. wrap(rem + rn) = rem + rn
  BY <1>1, <1>2, WrapFits, WordAssumption
<1>5. wrap(quo + qn) = quo + qn
  <2>1. quo + qn \in Nat
    BY <1>1
  <2>2. quo + qn <= MAX_UNSIGNED_VALUE
    BY <1>1, <1>3, <2>1, Fits
  <2>. QED  BY <2>1, <2>2, WrapFits
<1>6. rem + rn >= c => wrap(quo + qn + 1) = quo + qn + 1
  <2>. SUFFICES ASSUME rem + rn >= c PROVE wrap(quo + qn + 1) = quo + qn + 1
    OBVIOUS
  <2>1. quo + qn + 1 \in Nat
    BY <1>1
  <2>2. quo + qn + 1 <= MAX_UNSIGNED_VALUE
    BY <1>1, <1>3, <2>1, Fits
  <2>. QED  BY <2>1, <2>2, WrapFits
<1>7. CASE a % 2 = 0
  <2>1. t = s
    BY <1>7 DEF addTerm, a
  <2>2. 2 * (a \div 2) = a
    BY <1>1, <1>7
  <2>3. t.quo = quo /\ t.rem = rem
    BY <2>1 DEF quo, rem
  <2>4. n = (2 * (a \div 2)) * (qn * c + rn) + (t.quo * c + t.rem)
    BY <1>2, <2>2, <2>3
  <2>. QED  BY <1>1, <1>2, <2>3, <2>4 DEF a, quo, qn, rn
<1>8. CASE a % 2 # 0
  <2>1. 2 * (a \div 2) = a - 1
    BY <1>1, <1>8
  <2>2. t = IF wrap(rem + rn) >= c
            THEN [s EXCEPT !.quo = wrap(quo + qn + 1), !.rem = wrap(rem + rn) - c]
            ELSE [s EXCEPT !.quo = wrap(quo + qn), !.rem = wrap(rem + rn)]
    BY <1>8 DEF addTerm, a, quo, rem, qn, rn
  <2>. DEFINE more == quo + qn + 1
              less == rem + rn - c
              both == quo + qn
              sum == rem + rn
  <2>3. CASE sum >= c
    <3>0. wrap(rem + rn) >= c /\ wrap(rem + rn) - c = less /\ wrap(quo + qn + 1) = more
      BY <1>1, <1>4, <1>6, <2>3
    <3>1. t = [s EXCEPT !.quo = more, !.rem = less]
      BY <2>2, <3>0, Zenon
    <3>2. t.quo = more /\ t.rem = less
      <4>. HIDE DEF more, less
      <4>. QED  BY <3>1 DEF MulState
    <3>3. less < c /\ quo <= more
      BY <1>1, <1>2
    <3>4. n = (2 * (a \div 2)) * (qn * c + rn) + (t.quo * c + t.rem)
      BY <1>3, <2>1, <2>3, <3>2
    <3>. QED  BY <3>2, <3>3, <3>4 DEF a, quo, qn, rn
  <2>4. CASE sum < c
    <3>1. ~(wrap(rem + rn) >= c)
      BY <1>1, <1>4, <2>4
    <3>2. t = [s EXCEPT !.quo = both, !.rem = sum]
      BY <1>4, <1>5, <2>2, <3>1
    <3>3. t.quo = both /\ t.rem = sum
      <4>. HIDE DEF both, sum
      <4>. QED  BY <3>2 DEF MulState
    <3>4. sum < c /\ quo <= both
      BY <1>1, <2>4
    <3>5. n = (2 * (a \div 2)) * (qn * c + rn) + (t.quo * c + t.rem)
      BY <1>3, <2>1, <3>3
    <3>. QED  BY <3>3, <3>4, <3>5 DEF a, quo, qn, rn
  <2>. QED  BY <1>1, <2>3, <2>4
<1>. QED  BY <1>7, <1>8

\* The term is doubled without wrapping as long as bits of a are left.
LEMMA DoubleTermExact ==
  ASSUME NEW s \in MulState, NEW c \in Long \ {0}, 2 * c <= MAX_UNSIGNED_VALUE + 1,
         NEW n \in Nat, n \div c <= MAX_UNSIGNED_VALUE, s.rem < c, s.rn < c,
         n = (2 * (s.a \div 2)) * (s.qn * c + s.rn) + (s.quo * c + s.rem)
  PROVE  LoopInv(doubleTerm(s, c), n, c) /\ doubleTerm(s, c).a = s.a \div 2
<1>. DEFINE h == s.a \div 2  rest == s.quo * c + s.rem  qn == s.qn  rn == s.rn
            t == doubleTerm(s, c)
<1>1. /\ c \in Nat \ {0} /\ h \in Nat /\ qn \in Nat /\ rn \in Nat
      /\ s.quo \in Nat /\ s.rem \in Nat
  BY MulNumbers, WordAssumption DEF Long
<1>2. rest \in Nat /\ rn < c
  BY <1>1
<1>3. Before(h, rest, qn, rn, c, n)
  BY DEF Before
<1>4. /\ t.a = h /\ t.quo = s.quo /\ t.rem = s.rem
      /\ t.qn = IF wrap(2 * rn) >= c THEN wrap(wrap(2 * qn) + 1) ELSE wrap(2 * qn)
      /\ t.rn = IF wrap(2 * rn) >= c THEN wrap(2 * rn) - c ELSE wrap(2 * rn)
  BY DEF doubleTerm
<1>5. t \in MulState
  BY DoubleTermType
<1>. HIDE DEF h, qn, rn, rest, t
<1>6. /\ n = h * ((2 * qn) * c + 2 * rn) + rest
      /\ h # 0 => (2 * qn) * c <= n
      /\ 2 * rn >= c => /\ h # 0 => (2 * qn + 1) * c <= n
                        /\ n = h * ((2 * qn + 1) * c + (2 * rn - c)) + rest
  <2>1. Doubled(h, rest, qn, rn, c, n)
    BY <1>1, <1>2, <1>3, DoubleExact
  <2>. QED  BY <2>1 DEF Doubled
<1>7. wrap(2 * rn) = 2 * rn
  BY <1>1, <1>2, WrapFits, WordAssumption
<1>8. t.rn < c
  BY <1>1, <1>2, <1>4, <1>7
<1>9. n = t.a * (t.qn * c + t.rn) + rest
  <2>1. CASE h = 0
    <3>1. n = rest
      BY <1>1, <1>2, <1>6, <2>1
    <3>2. t.qn * c + t.rn \in Nat
      BY <1>1, <1>5, MulNumbers
    <3>. QED  BY <1>2, <1>4, <2>1, <3>1, <3>2
  <2>2. CASE h # 0
    <3>1. wrap(2 * qn) = 2 * qn
      <4>1. 2 * qn \in Nat
        BY <1>1
      <4>2. 2 * qn <= MAX_UNSIGNED_VALUE
        BY <1>1, <1>6, <2>2, <4>1, Fits
      <4>. QED  BY <4>1, <4>2, WrapFits
    <3>2. 2 * rn >= c => wrap(2 * qn + 1) = 2 * qn + 1
      <4>. SUFFICES ASSUME 2 * rn >= c PROVE wrap(2 * qn + 1) = 2 * qn + 1
        OBVIOUS
      <4>1. 2 * qn + 1 \in Nat
        BY <1>1
      <4>2. 2 * qn + 1 <= MAX_UNSIGNED_VALUE
        BY <1>1, <1>6, <2>2, <4>1, Fits
      <4>. QED  BY <4>1, <4>2, WrapFits
    <3>3. CASE 2 * rn >= c
      <4>1. t.qn = 2 * qn + 1 /\ t.rn = 2 * rn - c
        BY <1>4, <1>7, <3>1, <3>2, <3>3
      <4>. QED  BY <1>4, <1>6, <3>3, <4>1
    <3>4. CASE ~(2 * rn >= c)
      <4>1. t.qn = 2 * qn /\ t.rn = 2 * rn
        BY <1>4, <1>7, <3>1, <3>4
      <4>. QED  BY <1>4, <1>6, <4>1
    <3>. QED  BY <3>3, <3>4
  <2>. QED  BY <2>1, <2>2
<1>10. n = t.a * (t.qn * c + t.rn) + (t.quo * c + t.rem)
  BY <1>4, <1>9 DEF rest
<1>. QED  BY <1>4, <1>8, <1>10 DEF LoopInv, t, h

\* A round keeps the invariant and halves a.
LEMMA MulStepExact ==
  ASSUME NEW s \in MulState, NEW c \in Long \ {0}, 2 * c <= MAX_UNSIGNED_VALUE + 1,
         NEW n \in Nat, n \div c <= MAX_UNSIGNED_VALUE, LoopInv(s, n, c)
  PROVE  LoopInv(mulStep(s, c), n, c) /\ mulStep(s, c).a = s.a \div 2
<1>1. CASE s.a = 0
  <2>1. mulStep(s, c) = s
    BY <1>1 DEF mulStep
  <2>. QED  BY <1>1, <2>1
<1>2. CASE s.a # 0
  <2>. DEFINE t == addTerm(s, c)
  <2>1. t \in MulState /\ t.a = s.a /\ t.qn = s.qn /\ t.rn = s.rn
    BY AddTermType
  <2>2. /\ s.quo <= t.quo /\ t.rem < c
        /\ n = (2 * (s.a \div 2)) * (s.qn * c + s.rn) + (t.quo * c + t.rem)
    BY <1>2, AddTermExact
  <2>3. s.rn < c
    BY DEF LoopInv
  <2>4. s.quo \in Nat /\ t.quo \in Nat
    BY <2>1, MulNumbers
  <2>5. mulStep(s, c) = doubleTerm(t, c)
    BY <1>2, <2>2, <2>4 DEF mulStep
  <2>. HIDE DEF t
  <2>6. /\ t.rn < c
        /\ n = (2 * (t.a \div 2)) * (t.qn * c + t.rn) + (t.quo * c + t.rem)
    BY <2>1, <2>2, <2>3
  <2>7. LoopInv(doubleTerm(t, c), n, c) /\ doubleTerm(t, c).a = t.a \div 2
    BY <2>1, <2>2, <2>6, DoubleTermExact
  <2>. QED  BY <2>1, <2>5, <2>7
<1>. QED  BY <1>1, <1>2

\* The loop starts with the whole product to come.
LEMMA MulStartExact ==
  ASSUME NEW a \in Long, NEW b \in Long, NEW c \in Long \ {0}
  PROVE  LoopInv(mulStart(a, b, c), a * b, c) /\ mulStart(a, b, c).a = a
<1>. DEFINE q == b \div c
            r == b % c
            s == mulStart(a, b, c)
<1>1. a \in Nat /\ b \in Nat /\ c \in Nat \ {0}
  BY WordAssumption DEF Long
<1>2. q \in Nat /\ r \in Nat /\ r < c /\ b = q * c + r
  BY <1>1, Division
<1>3. s.a = a /\ s.quo = 0 /\ s.rem = 0 /\ s.qn = q /\ s.rn = r
  BY DEF mulStart
<1>. HIDE DEF q, r, s
<1>4. a * b = a * (q * c + r) + (0 * c + 0)
  BY <1>1, <1>2
<1>5. a * b = s.a * (s.qn * c + s.rn) + (s.quo * c + s.rem)
  BY <1>3, <1>4
<1>. QED  BY <1>1, <1>2, <1>3, <1>5 DEF LoopInv, s

\* multiplyDivide is exact for a divisor in the lower half of the range and a quotient
\* that fits, although the product may not fit.
LEMMA MulExact ==
  ASSUME NEW a \in Long, NEW b \in Long, NEW c \in Long \ {0},
         2 * c <= MAX_UNSIGNED_VALUE + 1, (a * b) \div c <= MAX_UNSIGNED_VALUE
  PROVE  multiplyDivide(a, b, c) = [quo |-> (a * b) \div c, rem |-> (a * b) % c]
<1>. DEFINE n == a * b
<1>0. n \in Nat /\ n \div c <= MAX_UNSIGNED_VALUE
  BY WordAssumption DEF Long
<1>1. PICK f \in [0 .. WordBits -> MulState] :
          /\ f[0] = mulStart(a, b, c)
          /\ \A k \in 1 .. WordBits : f[k] = mulStep(f[k - 1], c)
          /\ mulLoop(a, b, c) = f[WordBits]
  BY MulLoop
<1>2. LoopInv(f[0], n, c) /\ f[0].a = a
  BY <1>1, MulStartExact
<1>. HIDE DEF n
<1>. DEFINE T == {k \in 0 .. WordBits :
                     ~(LoopInv(f[k], n, c) /\ f[k].a < powerOfTwo[WordBits - k])}
<1>3. T = {}
  <2>. SUFFICES ASSUME T # {} PROVE FALSE
    OBVIOUS
  <2>1. PICK m \in T : \A j \in T : m <= j
    <3>1. T \subseteq Nat
      OBVIOUS
    <3>. QED  BY <3>1, LeastNatural
  <2>2. m # 0
    <3>1. a < powerOfTwo[WordBits] /\ WordBits - 0 = WordBits
      <4>1. WordBits \in 0 .. WordBits
        BY WordAssumption
      <4>2. powerOfTwo[WordBits] \in Nat
        BY <4>1, PowerPositive
      <4>. QED  BY <4>2, WordAssumption DEF Long
    <3>. QED  BY <1>2, <2>1, <3>1
  <2>3. m - 1 \in 0 .. WordBits /\ m \in 1 .. WordBits /\ m - 1 \notin T
    BY <2>1, <2>2, WordAssumption
  <2>. DEFINE s == f[m - 1]
              i == WordBits - m
  <2>4. s \in MulState /\ LoopInv(s, n, c) /\ s.a < powerOfTwo[WordBits - (m - 1)]
    BY <2>3
  <2>5. f[m] = mulStep(s, c)
    BY <1>1, <2>3
  <2>6. LoopInv(mulStep(s, c), n, c) /\ mulStep(s, c).a = s.a \div 2
    <3>. HIDE DEF s
    <3>. QED  BY <1>0, <2>4, MulStepExact
  <2>7. i + 1 \in 1 .. WordBits /\ i \in 0 .. WordBits /\ WordBits - (m - 1) = i + 1
        /\ i + 1 - 1 = i
    BY <2>3, WordAssumption
  <2>8. powerOfTwo[i + 1] = 2 * powerOfTwo[i] /\ powerOfTwo[i] \in Nat
    <3>. HIDE DEF i
    <3>1. powerOfTwo[i + 1] = 2 * powerOfTwo[i + 1 - 1]
      BY <2>7, PowerOfTwo
    <3>. QED  BY <2>7, <3>1, PowerPositive
  <2>9. s.a < powerOfTwo[i + 1]
    BY <2>4, <2>7
  <2>. HIDE DEF s, i
  <2>10. s.a \in Nat
    BY <2>4, MulNumbers
  <2>11. s.a \div 2 < powerOfTwo[i]
    BY <2>8, <2>9, <2>10
  <2>12. LoopInv(f[m], n, c) /\ f[m].a < powerOfTwo[i]
    BY <2>5, <2>6, <2>11
  <2>. QED  BY <2>1, <2>12 DEF i
<1>4. WordBits \in 0 .. WordBits /\ WordBits - WordBits = 0
  BY WordAssumption
<1>. DEFINE s == f[WordBits]
<1>5. s \in MulState /\ LoopInv(s, n, c) /\ s.a < 1
  BY <1>3, <1>4, PowerOfTwo
<1>. HIDE DEF s, T
<1>6. s.a = 0 /\ s.quo \in Nat /\ s.rem \in Nat /\ s.qn \in Nat /\ s.rn \in Nat
  BY <1>5, MulNumbers
<1>7. s.rem < c /\ n = s.quo * c + s.rem
  <2>1. s.rem < c /\ n = s.a * (s.qn * c + s.rn) + (s.quo * c + s.rem)
    BY <1>5 DEF LoopInv
  <2>2. c \in Nat
    BY WordAssumption DEF Long
  <2>. DEFINE rest == s.qn * c + s.rn
              found == s.quo * c + s.rem
  <2>3. s.qn * c \in Nat /\ s.quo * c \in Nat
    BY <1>6, <2>2
  <2>a. rest \in Nat /\ found \in Nat
    BY <1>6, <2>3
  <2>4. n = s.a * rest + found
    BY <2>1
  <2>. HIDE DEF rest, found
  <2>5. n = found
    BY <1>6, <2>a, <2>4
  <2>. QED  BY <2>1, <2>5 DEF found
<1>8. c \in Nat \ {0}
  BY WordAssumption DEF Long
<1>9. n \div c = s.quo /\ n % c = s.rem
  BY <1>0, <1>6, <1>7, <1>8, DivisionUnique
<1>10. multiplyDivide(a, b, c) = [quo |-> s.quo, rem |-> s.rem]
  BY <1>1 DEF multiplyDivide, s
<1>. QED  BY <1>9, <1>10 DEF n

\* Rounding up and to the nearest: the numbers.
LEMMA RoundNumbers ==
  ASSUME NEW n \in Nat, NEW c \in Nat \ {0}, NEW q \in Nat, NEW r \in Nat, r < c, n = q * c + r
  PROVE  /\ (n + c - 1) \div c = IF r = 0 THEN q ELSE q + 1
         /\ (2 * n + c) \div (2 * c) = IF 2 * r >= c THEN q + 1 ELSE q
<1>. DEFINE up == n + c - 1
            twice == 2 * n + c
            d == 2 * c
<1>1. up \in Nat /\ twice \in Nat /\ d \in Nat \ {0} /\ q * c \in Nat
  OBVIOUS
<1>2. (q + 1) * c = q * c + c /\ q * d = 2 * (q * c) /\ (q + 1) * d = 2 * (q * c) + 2 * c
  OBVIOUS
<1>3. (2 * n + c) \div (2 * c) = IF 2 * r >= c THEN q + 1 ELSE q
  <2>1. CASE 2 * r >= c
    <3>1. twice = (q + 1) * d + (2 * r - c) /\ 2 * r - c \in Nat /\ 2 * r - c < d
      BY <1>1, <1>2, <2>1
    <3>2. twice \div d = q + 1
      <4>. HIDE DEF twice, d
      <4>. QED  BY <1>1, <3>1, DivisionUnique
    <3>. QED  BY <2>1, <3>2
  <2>2. CASE ~(2 * r >= c)
    <3>1. twice = q * d + (2 * r + c) /\ 2 * r + c \in Nat /\ 2 * r + c < d
      BY <1>1, <1>2, <2>2
    <3>2. twice \div d = q
      <4>. HIDE DEF twice, d
      <4>. QED  BY <1>1, <3>1, DivisionUnique
    <3>. QED  BY <2>2, <3>2
  <2>. QED  BY <2>1, <2>2
<1>4. CASE r = 0
  <2>1. up = q * c + (c - 1) /\ c - 1 \in Nat /\ c - 1 < c
    BY <1>4
  <2>2. up \div c = q
    <3>. HIDE DEF up
    <3>. QED  BY <1>1, <2>1, DivisionUnique
  <2>. QED  BY <1>3, <1>4, <2>2
<1>5. CASE r # 0
  <2>1. up = (q + 1) * c + (r - 1) /\ r - 1 \in Nat /\ r - 1 < c
    BY <1>2, <1>5
  <2>2. up \div c = q + 1
    <3>. HIDE DEF up
    <3>. QED  BY <1>1, <2>1, DivisionUnique
  <2>. QED  BY <1>3, <1>5, <2>2
<1>. QED  BY <1>4, <1>5

=============================================================================
