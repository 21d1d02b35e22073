------------------------------- MODULE Ratios -------------------------------
(***************************************************************************)
(* Exact integer and ratio arithmetic of packages/pay/src/utils.ts.        *)
(*                                                                         *)
(* The classes Int and Ratio wrap unbounded bigints, so no width is        *)
(* modelled here; the places where the code caps an amount at MAX_U64 are  *)
(* explicit in the modules that use these operators.  A ratio is the       *)
(* record [a, b] of its numerator and its (positive) denominator.          *)
(***************************************************************************)
EXTENDS Naturals

CONSTANTS
    undefined,  \* the absent value of an optional field or parameter
    MaxU64      \* Int.MAX_U64, the greatest amount an ILP packet can carry

ASSUME UndefinedAssumption == undefined \notin Nat
ASSUME MaxU64Assumption == MaxU64 \in Nat \ {0}

OptionalAmount == Nat \cup {undefined}

PositiveInt == Nat \ {0}

Ratio == [a : Nat, b : PositiveInt]

PositiveRatio == [a : PositiveInt, b : PositiveInt]

RatioOf(a, b) == [a |-> a, b |-> b]

-----------------------------------------------------------------------------
(* Int *)

saturatingSubtract(n, m) == IF n >= m THEN n - m ELSE 0

divideCeil(n, d) == (n + d - 1) \div d

multiplyFloor(n, r) == (n * r.a) \div r.b

multiplyCeil(n, r) == divideCeil(n * r.a, r.b)

orLesser(n, m) == IF m = undefined \/ n <= m THEN n ELSE m

orGreater(n, m) == IF m = undefined \/ n >= m THEN n ELSE m

-----------------------------------------------------------------------------
(* Ratio *)

reciprocal(r) == IF r.a > 0 THEN RatioOf(r.b, r.a) ELSE undefined

isLessThan(r, s) == r.a * s.b < r.b * s.a

isLessThanOrEqualTo(r, s) == r.a * s.b <= r.b * s.a

=============================================================================
