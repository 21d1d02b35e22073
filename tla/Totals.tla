------------------------------- MODULE Totals -------------------------------
(***************************************************************************)
(* The sum of the first n entries of a function from 1, 2, ... to numbers, *)
(* as the ledgers of the components state it.                              *)
(***************************************************************************)
EXTENDS Integers

Total(v, n) ==
    LET sum[k \in 0 .. n] == IF k = 0 THEN 0 ELSE sum[k - 1] + v[k]
    IN  sum[n]

=============================================================================
