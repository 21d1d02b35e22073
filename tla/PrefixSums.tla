----------------------------- MODULE PrefixSums -----------------------------
(***************************************************************************)
(* Sums of a list of natural numbers, without recursion: the total is the  *)
(* last value of a function of prefix sums.  The proofs of the ledgers     *)
(* carry such a sum through the steps of the system: extended by a new     *)
(* entry, reduced when an entry is settled, and 0 only when all are.       *)
(* Every list has such a function, and its last value is the Total that    *)
(* the ledgers speak of.                                                   *)
(***************************************************************************)
EXTENDS Integers, Totals, WellFoundedInduction, TLAPS

IsPrefixSum(f, v, n) ==
    /\ f[0] = 0
    /\ \A k \in 1 .. n : f[k] = f[k - 1] + v[k]
    /\ \A a, b \in 0 .. n : a <= b => f[a] <= f[b]

\* The first n entries of v add up to total.
SumIs(v, n, total) ==
    \E f \in [0 .. n -> Nat] : IsPrefixSum(f, v, n) /\ f[n] = total

\* No entries add up to 0.
LEMMA SumEmpty ==
  ASSUME NEW v
  PROVE  SumIs(v, 0, 0)
<1>. DEFINE f == [k \in 0 .. 0 |-> 0]
<1>1. f \in [0 .. 0 -> Nat] /\ IsPrefixSum(f, v, 0) /\ f[0] = 0
  BY DEF IsPrefixSum
<1>. QED  BY <1>1 DEF SumIs

\* Equal entries have equal sums.
LEMMA SumSame ==
  ASSUME NEW n \in Nat, NEW v, NEW u, NEW total, SumIs(v, n, total),
         \A k \in 1 .. n : u[k] = v[k]
  PROVE  SumIs(u, n, total)
BY DEF SumIs, IsPrefixSum

\* One more entry is added to the sum.
LEMMA SumExtend ==
  ASSUME NEW n \in Nat, NEW v \in [1 .. n -> Nat], NEW total, SumIs(v, n, total),
         NEW u \in [1 .. n + 1 -> Nat], \A k \in 1 .. n : u[k] = v[k]
  PROVE  SumIs(u, n + 1, total + u[n + 1])
<1>1. PICK f \in [0 .. n -> Nat] : IsPrefixSum(f, v, n) /\ f[n] = total
  BY DEF SumIs
<1>. DEFINE g == [k \in 0 .. n + 1 |-> IF k <= n THEN f[k] ELSE f[n] + u[n + 1]]
<1>2. n + 1 \in 1 .. n + 1 /\ u[n + 1] \in Nat /\ f[n] \in Nat
  OBVIOUS
<1>3. g \in [0 .. n + 1 -> Nat]
  BY <1>2
<1>4. g[0] = 0 /\ g[n + 1] = total + u[n + 1]
  BY <1>1, <1>2 DEF IsPrefixSum
<1>5. ASSUME NEW k \in 1 .. n + 1
      PROVE  g[k] = g[k - 1] + u[k]
  <2>1. CASE k <= n
    <3>1. k \in 1 .. n /\ k - 1 \in 0 .. n
      BY <2>1
    <3>2. f[k] = f[k - 1] + u[k]
      BY <3>1, <1>1 DEF IsPrefixSum
    <3>. QED  BY <2>1, <3>1, <3>2
  <2>2. CASE k = n + 1
    BY <1>2, <2>2
  <2>. QED  BY <2>1, <2>2
<1>6. ASSUME NEW a \in 0 .. n + 1, NEW b \in 0 .. n + 1, a <= b
      PROVE  g[a] <= g[b]
  <2>1. CASE b <= n
    <3>1. a \in 0 .. n /\ b \in 0 .. n
      BY <1>6, <2>1
    <3>2. f[a] <= f[b]
      BY <1>1, <1>6, <3>1 DEF IsPrefixSum
    <3>. QED  BY <3>1, <3>2
  <2>2. CASE a <= n /\ b = n + 1
    <3>1. f[a] <= f[n] /\ f[a] \in Nat
      BY <1>1, <2>2 DEF IsPrefixSum
    <3>. QED  BY <1>2, <2>2, <3>1
  <2>3. CASE a = n + 1 /\ b = n + 1
    BY <1>3, <2>3
  <2>. QED  BY <1>6, <2>1, <2>2, <2>3
<1>. HIDE DEF g
<1>7. IsPrefixSum(g, u, n + 1)
  BY <1>4, <1>5, <1>6 DEF IsPrefixSum
<1>. QED  BY <1>3, <1>4, <1>7 DEF SumIs

\* An entry is part of the total, and setting it to 0 takes exactly it back.
LEMMA SumSettle ==
  ASSUME NEW n \in Nat, NEW v \in [1 .. n -> Nat], NEW total, SumIs(v, n, total),
         NEW i \in 1 .. n, NEW u \in [1 .. n -> Nat],
         u[i] = 0, \A k \in 1 .. n : k # i => u[k] = v[k]
  PROVE  total \in Nat /\ v[i] <= total /\ SumIs(u, n, total - v[i])
<1>1. PICK f \in [0 .. n -> Nat] : IsPrefixSum(f, v, n) /\ f[n] = total
  BY DEF SumIs
<1>. DEFINE x == v[i]
            g == [k \in 0 .. n |-> IF k < i THEN f[k] ELSE f[k] - x]
<1>2. x \in Nat /\ i \in Nat /\ i - 1 \in 0 .. n /\ i \in 0 .. n /\ n \in 0 .. n
  OBVIOUS
<1>3. f[i] = f[i - 1] + x
  BY <1>1 DEF IsPrefixSum
<1>4. \A k \in 0 .. n : f[k] \in Nat
  OBVIOUS
<1>5. \A k \in 0 .. n : k >= i => f[i] <= f[k]
  BY <1>1, <1>2 DEF IsPrefixSum
<1>6. ASSUME NEW k \in 0 .. n, k >= i
      PROVE  f[k] - x \in Nat /\ f[i - 1] <= f[k] - x
  <2>1. f[k] \in Nat /\ f[i] \in Nat /\ f[i - 1] \in Nat /\ f[i] <= f[k]
    BY <1>2, <1>4, <1>5, <1>6
  <2>. HIDE DEF x, g
  <2>. QED  BY SMTT(20), <1>2, <1>3, <2>1
<1>7. total \in Nat /\ x <= total
  BY <1>1, <1>2, <1>4, <1>6
<1>8. g \in [0 .. n -> Nat]
  BY SMTT(20), <1>2, <1>4, <1>6
<1>9. g[0] = 0 /\ g[n] = total - x
  BY <1>1, <1>2 DEF IsPrefixSum
<1>10. ASSUME NEW k \in 1 .. n
       PROVE  g[k] = g[k - 1] + u[k]
  <2>1. k \in 0 .. n /\ k - 1 \in 0 .. n /\ f[k] \in Nat /\ f[k - 1] \in Nat /\ v[k] \in Nat
    BY <1>4
  <2>2. f[k] = f[k - 1] + v[k]
    BY <1>1 DEF IsPrefixSum
  <2>3. CASE k < i
    BY <1>2, <2>1, <2>2, <2>3
  <2>4. CASE k = i
    BY <1>2, <2>1, <2>2, <2>4
  <2>5. CASE k > i
    <3>1. u[k] = v[k]
      BY <2>5
    <3>2. g[k] = f[k] - x /\ g[k - 1] = f[k - 1] - x
      BY SMTT(20), <1>2, <2>1, <2>5
    <3>3. f[k] - x = (f[k - 1] - x) + v[k]
      <4>. HIDE DEF x, g
      <4>. QED  BY <1>2, <2>1, <2>2
    <3>. QED  BY <3>1, <3>2, <3>3
  <2>. QED  BY <1>2, <2>3, <2>4, <2>5
<1>11. ASSUME NEW a \in 0 .. n, NEW b \in 0 .. n, a <= b
       PROVE  g[a] <= g[b]
  <2>1. f[a] \in Nat /\ f[b] \in Nat /\ f[a] <= f[b]
    BY <1>1, <1>4, <1>11 DEF IsPrefixSum
  <2>2. CASE b < i
    BY <1>2, <1>11, <2>1, <2>2
  <2>3. CASE a < i /\ b >= i
    <3>1. f[a] <= f[i - 1] /\ f[i - 1] \in Nat
      BY <1>1, <1>2, <1>4, <2>3 DEF IsPrefixSum
    <3>2. f[i - 1] <= f[b] - x
      BY <1>6, <2>3
    <3>. QED  BY <1>2, <2>1, <2>3, <3>1, <3>2
  <2>4. CASE a >= i
    BY <1>2, <1>11, <2>1, <2>4
  <2>. QED  BY <1>2, <2>2, <2>3, <2>4
<1>. HIDE DEF g
<1>12. IsPrefixSum(g, u, n)
  BY <1>9, <1>10, <1>11 DEF IsPrefixSum
<1>. QED  BY <1>7, <1>8, <1>9, <1>12 DEF SumIs

\* Raising an entry from 0 adds it to the total.
LEMMA SumRaise ==
  ASSUME NEW n \in Nat, NEW v \in [1 .. n -> Nat], NEW total, SumIs(v, n, total),
         NEW i \in 1 .. n, NEW u \in [1 .. n -> Nat],
         v[i] = 0, \A k \in 1 .. n : k # i => u[k] = v[k]
  PROVE  SumIs(u, n, total + u[i])
<1>1. PICK f \in [0 .. n -> Nat] : IsPrefixSum(f, v, n) /\ f[n] = total
  BY DEF SumIs
<1>. DEFINE x == u[i]
            g == [k \in 0 .. n |-> IF k < i THEN f[k] ELSE f[k] + x]
<1>2. x \in Nat /\ i \in Nat /\ n \in 0 .. n /\ \A k \in 0 .. n : f[k] \in Nat
  OBVIOUS
<1>3. g \in [0 .. n -> Nat]
  BY <1>2
<1>4. g[0] = 0 /\ g[n] = total + x
  BY <1>1, <1>2 DEF IsPrefixSum
<1>5. ASSUME NEW k \in 1 .. n
      PROVE  g[k] = g[k - 1] + u[k]
  <2>1. k \in 0 .. n /\ k - 1 \in 0 .. n /\ f[k] \in Nat /\ f[k - 1] \in Nat /\ v[k] \in Nat
    BY <1>2
  <2>2. f[k] = f[k - 1] + v[k]
    BY <1>1 DEF IsPrefixSum
  <2>3. CASE k < i
    BY <1>2, <2>1, <2>2, <2>3
  <2>4. CASE k = i
    <3>1. f[k] = f[k - 1] /\ g[k] = f[k] + x /\ g[k - 1] = f[k - 1]
      BY <1>2, <2>1, <2>2, <2>4
    <3>. QED  BY <1>2, <2>1, <2>4, <3>1
  <2>5. CASE k > i
    <3>1. u[k] = v[k]
      BY <2>5
    <3>2. g[k] = f[k] + x /\ g[k - 1] = f[k - 1] + x
      BY SMTT(20), <1>2, <2>1, <2>5
    <3>3. f[k] + x = (f[k - 1] + x) + v[k]
      <4>. HIDE DEF x, g
      <4>. QED  BY <1>2, <2>1, <2>2
    <3>. QED  BY <3>1, <3>2, <3>3
  <2>. QED  BY <1>2, <2>3, <2>4, <2>5
<1>6. ASSUME NEW a \in 0 .. n, NEW b \in 0 .. n, a <= b
      PROVE  g[a] <= g[b]
  <2>1. f[a] \in Nat /\ f[b] \in Nat /\ f[a] <= f[b]
    BY <1>1, <1>2, <1>6 DEF IsPrefixSum
  <2>2. g[a] = (IF a < i THEN f[a] ELSE f[a] + x) /\ g[b] = (IF b < i THEN f[b] ELSE f[b] + x)
    OBVIOUS
  <2>. HIDE DEF x, g
  <2>. QED  BY SMTT(20), <1>2, <1>6, <2>1, <2>2
<1>. HIDE DEF g
<1>7. IsPrefixSum(g, u, n)
  BY <1>4, <1>5, <1>6 DEF IsPrefixSum
<1>. QED  BY <1>3, <1>4, <1>7 DEF SumIs

\* A total of 0 is a sum of zeros.
LEMMA SumZero ==
  ASSUME NEW n \in Nat, NEW v \in [1 .. n -> Nat], SumIs(v, n, 0), NEW i \in 1 .. n
  PROVE  v[i] = 0
<1>1. PICK f \in [0 .. n -> Nat] : IsPrefixSum(f, v, n) /\ f[n] = 0
  BY DEF SumIs
<1>2. i - 1 \in 0 .. n /\ i \in 0 .. n /\ n \in 0 .. n
  OBVIOUS
<1>3. f[i - 1] \in Nat /\ f[i] \in Nat /\ v[i] \in Nat
  BY <1>2
<1>4. f[i] = f[i - 1] + v[i]
  BY <1>1 DEF IsPrefixSum
<1>5. \A a, b \in 0 .. n : a <= b => f[a] <= f[b]
  BY <1>1 DEF IsPrefixSum
<1>6. f[i] <= f[n]
  BY <1>2, <1>5
<1>. QED  BY <1>1, <1>3, <1>4, <1>6

-----------------------------------------------------------------------------
(* Total *)

\* A set of natural numbers has a least one: what is claimed of all numbers up to n
\* is shown by taking the least one it fails for.
LEMMA LeastNatural ==
  ASSUME NEW T, T \subseteq Nat, T # {}
  PROVE  \E x \in T : \A y \in T : x <= y
<1>1. PICK x \in T : \A y \in T : ~(<<y, x>> \in OpToRel(<, Nat))
  BY NatLessThanWellFounded, WFMin
<1>2. \A y \in T : ~(y < x)
  BY <1>1 DEF OpToRel
<1>. QED  BY <1>2

\* Every list of naturals has a sum.
LEMMA SumExists ==
  ASSUME NEW n \in Nat, NEW v \in [1 .. n -> Nat]
  PROVE  \E total \in Nat : SumIs(v, n, total)
<1>. DEFINE part(m) == [k \in 1 .. m |-> v[k]]
            T == {m \in 0 .. n : ~\E total \in Nat : SumIs(part(m), m, total)}
<1>1. T = {}
  <2>. SUFFICES ASSUME T # {} PROVE FALSE
    OBVIOUS
  <2>1. PICK m \in T : \A j \in T : m <= j
    <3>. HIDE DEF part
    <3>1. T \subseteq Nat
      OBVIOUS
    <3>. QED  BY <3>1, LeastNatural
  <2>2. m # 0
    BY SumEmpty
  <2>. DEFINE i == m - 1
  <2>3. i \in Nat /\ i \in 0 .. n /\ i \notin T /\ m = i + 1 /\ m \in 0 .. n
    <3>. HIDE DEF part
    <3>. QED  BY <2>1, <2>2
  <2>4. PICK total \in Nat : SumIs(part(i), i, total)
    <3>. HIDE DEF part
    <3>. QED  BY <2>3
  <2>5. /\ part(i) \in [1 .. i -> Nat] /\ part(i + 1) \in [1 .. i + 1 -> Nat]
        /\ \A k \in 1 .. i : part(i + 1)[k] = part(i)[k]
    BY <2>3
  <2>6. SumIs(part(i + 1), i + 1, total + part(i + 1)[i + 1])
    <3>. HIDE DEF part, i
    <3>. QED  BY <2>3, <2>4, <2>5, SumExtend
  <2>7. total + part(i + 1)[i + 1] \in Nat
    <3>1. i + 1 \in 1 .. i + 1
      BY <2>3
    <3>. HIDE DEF part, i
    <3>. QED  BY <2>4, <2>5, <3>1
  <2>8. m \notin T
    <3>. HIDE DEF part, i
    <3>. QED  BY <2>3, <2>6, <2>7
  <2>. QED  BY <2>1, <2>8
<1>2. n \in 0 .. n
  OBVIOUS
<1>3. PICK total \in Nat : SumIs(part(n), n, total)
  <2>. HIDE DEF part
  <2>. QED  BY <1>1, <1>2
<1>4. \A k \in 1 .. n : v[k] = part(n)[k]
  OBVIOUS
<1>5. SumIs(v, n, total)
  <2>. HIDE DEF part
  <2>. QED  BY <1>3, <1>4, SumSame
<1>. QED  BY <1>3, <1>5

\* The sum of a list is its Total.
LEMMA SumIsTotal ==
  ASSUME NEW n \in Nat, NEW v, NEW total, SumIs(v, n, total)
  PROVE  total = Total(v, n)
<1>1. PICK f \in [0 .. n -> Nat] : IsPrefixSum(f, v, n) /\ f[n] = total
  BY DEF SumIs
<1>2. f = [k \in 0 .. n |-> IF k = 0 THEN 0 ELSE f[k - 1] + v[k]]
  <2>1. \A k \in 0 .. n : f[k] = IF k = 0 THEN 0 ELSE f[k - 1] + v[k]
    BY <1>1 DEF IsPrefixSum
  <2>. QED  BY <2>1
<1>3. PICK g : g = [k \in 0 .. n |-> IF k = 0 THEN 0 ELSE g[k - 1] + v[k]] /\ Total(v, n) = g[n]
  BY <1>2 DEF Total
<1>. DEFINE T == {k \in 0 .. n : g[k] # f[k]}
<1>4. T = {}
  <2>. SUFFICES ASSUME T # {} PROVE FALSE
    OBVIOUS
  <2>1. PICK m \in T : \A j \in T : m <= j
    <3>1. T \subseteq Nat
      OBVIOUS
    <3>. QED  BY <3>1, LeastNatural
  <2>2. m # 0
    <3>1. 0 \in 0 .. n
      OBVIOUS
    <3>2. g[0] = 0 /\ f[0] = 0
      BY <1>1, <1>3, <3>1 DEF IsPrefixSum
    <3>. QED  BY <2>1, <3>2
  <2>3. m - 1 \in 0 .. n /\ m \in 1 .. n /\ m - 1 \notin T
    BY <2>1, <2>2
  <2>4. g[m - 1] = f[m - 1]
    BY <2>3
  <2>5. g[m] = g[m - 1] + v[m] /\ f[m] = f[m - 1] + v[m]
    BY <1>1, <1>3, <2>3 DEF IsPrefixSum
  <2>. QED  BY <2>1, <2>4, <2>5
<1>. QED  BY <1>1, <1>3, <1>4

\* Total is the sum.
LEMMA TotalIsSum ==
  ASSUME NEW n \in Nat, NEW v \in [1 .. n -> Nat]
  PROVE  Total(v, n) \in Nat /\ SumIs(v, n, Total(v, n))
BY SumExists, SumIsTotal

\* Nothing adds up to 0.
LEMMA TotalEmpty ==
  ASSUME NEW v \in [1 .. 0 -> Nat]
  PROVE  Total(v, 0) = 0
BY SumEmpty, SumIsTotal

\* One more entry is added to the total.
LEMMA TotalExtend ==
  ASSUME NEW n \in Nat, NEW v \in [1 .. n -> Nat],
         NEW u \in [1 .. n + 1 -> Nat], \A k \in 1 .. n : u[k] = v[k]
  PROVE  Total(u, n + 1) = Total(v, n) + u[n + 1]
<1>. DEFINE total == Total(v, n)
            m == n + 1
<1>1. m \in Nat /\ u \in [1 .. m -> Nat]
  OBVIOUS
<1>2. SumIs(v, n, total)
  BY TotalIsSum
<1>3. SumIs(u, m, total + u[m])
  <2>. HIDE DEF total
  <2>. QED  BY <1>2, SumExtend
<1>. HIDE DEF m
<1>4. Total(u, m) = total + u[m]
  BY <1>1, <1>3, SumIsTotal
<1>. QED  BY <1>4 DEF m

\* An entry that changes changes the total by as much.
LEMMA TotalChange ==
  ASSUME NEW n \in Nat, NEW v \in [1 .. n -> Nat], NEW i \in 1 .. n,
         NEW u \in [1 .. n -> Nat], \A k \in 1 .. n : k # i => u[k] = v[k]
  PROVE  Total(u, n) = Total(v, n) - v[i] + u[i] /\ v[i] <= Total(v, n)
<1>. DEFINE w == [v EXCEPT ![i] = 0]
<1>1. w \in [1 .. n -> Nat] /\ w[i] = 0 /\ \A k \in 1 .. n : k # i => w[k] = v[k] /\ u[k] = w[k]
  OBVIOUS
<1>. HIDE DEF w
<1>2. Total(v, n) \in Nat /\ v[i] <= Total(v, n) /\ SumIs(w, n, Total(v, n) - v[i])
  BY <1>1, TotalIsSum, SumSettle
<1>3. SumIs(u, n, (Total(v, n) - v[i]) + u[i])
  BY <1>1, <1>2, SumRaise
<1>. QED  BY <1>2, <1>3, SumIsTotal

\* Zeros add up to 0.
LEMMA TotalZeros ==
  ASSUME NEW n \in Nat, NEW v \in [1 .. n -> Nat], \A k \in 1 .. n : v[k] = 0
  PROVE  Total(v, n) = 0
<1>. DEFINE f == [k \in 0 .. n |-> 0]
<1>1. f \in [0 .. n -> Nat] /\ IsPrefixSum(f, v, n) /\ f[n] = 0
  BY DEF IsPrefixSum
<1>. HIDE DEF f
<1>2. SumIs(v, n, 0)
  BY <1>1 DEF SumIs
<1>. QED  BY <1>2, SumIsTotal

\* If all entries but one are 0 the total is that one.
LEMMA TotalSingle ==
  ASSUME NEW n \in Nat, NEW v \in [1 .. n -> Nat], NEW i \in 1 .. n,
         \A k \in 1 .. n : k # i => v[k] = 0
  PROVE  Total(v, n) = v[i]
<1>. DEFINE w == [k \in 1 .. n |-> 0]
<1>1. w \in [1 .. n -> Nat] /\ w[i] = 0 /\ \A k \in 1 .. n : w[k] = 0 /\ (k # i => v[k] = w[k])
  OBVIOUS
<1>. HIDE DEF w
<1>2. Total(w, n) = 0
  BY <1>1, TotalZeros
<1>3. v[i] \in Nat
  OBVIOUS
<1>. QED  BY <1>1, <1>2, <1>3, TotalChange

\* The totals of the prefixes of a list.
LEMMA TotalPrefixes ==
  ASSUME NEW n \in Nat, NEW v \in [1 .. n -> Nat]
  PROVE  /\ Total(v, 0) = 0
         /\ \A k \in 0 .. n : Total(v, k) \in Nat
         /\ \A k \in 1 .. n : Total(v, k) = Total(v, k - 1) + v[k]
<1>1. PICK f \in [0 .. n -> Nat] : IsPrefixSum(f, v, n)
  BY SumExists DEF SumIs
<1>2. ASSUME NEW k \in 0 .. n
      PROVE  Total(v, k) = f[k]
  <2>. DEFINE g == [j \in 0 .. k |-> f[j]]
  <2>1. g \in [0 .. k -> Nat] /\ g[k] = f[k] /\ k \in Nat
    OBVIOUS
  <2>2. IsPrefixSum(g, v, k)
    <3>1. g[0] = 0
      BY <1>1 DEF IsPrefixSum
    <3>2. \A j \in 1 .. k : g[j] = g[j - 1] + v[j]
      BY <1>1 DEF IsPrefixSum
    <3>3. \A a, b \in 0 .. k : a <= b => g[a] <= g[b]
      BY <1>1 DEF IsPrefixSum
    <3>. QED  BY <3>1, <3>2, <3>3 DEF IsPrefixSum
  <2>. HIDE DEF g
  <2>3. SumIs(v, k, f[k])
    BY <2>1, <2>2 DEF SumIs
  <2>. QED  BY <2>1, <2>3, SumIsTotal
<1>3. \A k \in 1 .. n : k \in 0 .. n /\ k - 1 \in 0 .. n
  OBVIOUS
<1>4. f[0] = 0 /\ \A k \in 1 .. n : f[k] = f[k - 1] + v[k]
  BY <1>1 DEF IsPrefixSum
<1>5. 0 \in 0 .. n
  OBVIOUS
<1>. QED  BY <1>2, <1>3, <1>4, <1>5

\* The total of the sums is the sum of the totals.
LEMMA TotalPlus ==
  ASSUME NEW n \in Nat, NEW v \in [1 .. n -> Nat], NEW w \in [1 .. n -> Nat],
         NEW u, \A k \in 1 .. n : u[k] = v[k] + w[k]
  PROVE  Total(u, n) = Total(v, n) + Total(w, n)
<1>1. PICK f \in [0 .. n -> Nat] : IsPrefixSum(f, v, n) /\ f[n] = Total(v, n)
  BY TotalIsSum DEF SumIs
<1>2. PICK g \in [0 .. n -> Nat] : IsPrefixSum(g, w, n) /\ g[n] = Total(w, n)
  BY TotalIsSum DEF SumIs
<1>. DEFINE h == [k \in 0 .. n |-> f[k] + g[k]]
<1>3. h \in [0 .. n -> Nat] /\ h[n] = Total(v, n) + Total(w, n)
  BY <1>1, <1>2
<1>4. IsPrefixSum(h, u, n)
  <2>1. h[0] = 0
    BY <1>1, <1>2 DEF IsPrefixSum
  <2>2. ASSUME NEW k \in 1 .. n
        PROVE  h[k] = h[k - 1] + u[k]
    <3>1. k \in 0 .. n /\ k - 1 \in 0 .. n
      OBVIOUS
    <3>2. f[k] = f[k - 1] + v[k] /\ g[k] = g[k - 1] + w[k]
      BY <1>1, <1>2 DEF IsPrefixSum
    <3>3. f[k - 1] \in Nat /\ g[k - 1] \in Nat /\ v[k] \in Nat /\ w[k] \in Nat
      BY <3>1
    <3>4. h[k] = f[k] + g[k] /\ h[k - 1] = f[k - 1] + g[k - 1]
      BY <3>1
    <3>. QED  BY <3>2, <3>3, <3>4
  <2>3. ASSUME NEW a \in 0 .. n, NEW b \in 0 .. n, a <= b
        PROVE  h[a] <= h[b]
    <3>1. f[a] <= f[b] /\ g[a] <= g[b]
      BY <1>1, <1>2, <2>3 DEF IsPrefixSum
    <3>. QED  BY <3>1
  <2>. QED  BY <2>1, <2>2, <2>3 DEF IsPrefixSum
<1>. HIDE DEF h
<1>5. SumIs(u, n, Total(v, n) + Total(w, n))
  BY <1>3, <1>4 DEF SumIs
<1>. QED  BY <1>5, SumIsTotal

\* Filling a packet: each entry takes what is wanted, but no more than the ones before
\* it leave of the maximum, so that all together keep within it.
LEMMA TotalFilled ==
  ASSUME NEW n \in Nat, NEW v \in [1 .. n -> Nat], NEW max \in Nat, NEW u \in [1 .. n -> Nat],
         \A k \in 1 .. n :
            u[k] = IF Total(v, k - 1) < max
                   THEN IF v[k] < max - Total(v, k - 1) THEN v[k] ELSE max - Total(v, k - 1)
                   ELSE 0
  PROVE  Total(u, n) <= max
<1>. DEFINE T == {k \in 0 .. n : ~(Total(u, k) = IF Total(v, k) < max THEN Total(v, k) ELSE max)}
<1>0. /\ Total(v, 0) = 0 /\ Total(u, 0) = 0
      /\ \A k \in 0 .. n : Total(v, k) \in Nat /\ Total(u, k) \in Nat
      /\ \A k \in 1 .. n : Total(v, k) = Total(v, k - 1) + v[k] /\ Total(u, k) = Total(u, k - 1) + u[k]
  BY TotalPrefixes
<1>1. T = {}
  <2>. SUFFICES ASSUME T # {} PROVE FALSE
    OBVIOUS
  <2>1. PICK m \in T : \A j \in T : m <= j
    <3>1. T \subseteq Nat
      OBVIOUS
    <3>. QED  BY <3>1, LeastNatural
  <2>2. m # 0
    BY <1>0, <2>1
  <2>3. m - 1 \in 0 .. n /\ m \in 1 .. n /\ m - 1 \notin T
    BY <2>1, <2>2
  <2>. DEFINE tv == Total(v, m - 1)
              tu == Total(u, m - 1)
  <2>4. tv \in Nat /\ tu \in Nat /\ v[m] \in Nat /\ u[m] \in Nat
    BY <1>0, <2>3
  <2>5. tu = IF tv < max THEN tv ELSE max
    BY <2>3
  <2>6. Total(v, m) = tv + v[m] /\ Total(u, m) = tu + u[m]
    BY <1>0, <2>3
  <2>7. u[m] = IF tv < max THEN IF v[m] < max - tv THEN v[m] ELSE max - tv ELSE 0
    BY <2>3
  <2>. HIDE DEF tv, tu
  <2>8. Total(u, m) = IF Total(v, m) < max THEN Total(v, m) ELSE max
    BY <2>4, <2>5, <2>6, <2>7
  <2>. QED  BY <2>1, <2>8
<1>2. n \in 0 .. n
  OBVIOUS
<1>3. Total(u, n) = IF Total(v, n) < max THEN Total(v, n) ELSE max
  BY <1>1, <1>2
<1>. QED  BY <1>0, <1>2, <1>3

\* The bounds of a quotient rounded down, in terms of its parts.
Rounded(q, s, divisor, factor, slack) ==
    divisor * q <= factor * s /\ factor * s <= divisor * q + slack

\* Two quotients rounded down lose at most what each of them loses.
LEMMA RoundedPlus ==
  ASSUME NEW q \in Nat, NEW r \in Nat, NEW s \in Nat, NEW t \in Nat, NEW divisor \in Nat,
         NEW factor \in Nat, NEW x \in Nat, NEW y \in Nat,
         Rounded(q, s, divisor, factor, x), Rounded(r, t, divisor, factor, y)
  PROVE  Rounded(q + r, s + t, divisor, factor, x + y)
<1>. DEFINE dq == divisor * q  dr == divisor * r  fs == factor * s  ft == factor * t
<1>1. divisor * (q + r) = dq + dr /\ factor * (s + t) = fs + ft
  OBVIOUS
<1>2. dq \in Nat /\ dr \in Nat /\ fs \in Nat /\ ft \in Nat
  OBVIOUS
<1>3. dq <= fs /\ fs <= dq + x /\ dr <= ft /\ ft <= dr + y
  BY DEF Rounded
<1>. HIDE DEF dq, dr, fs, ft
<1>4. dq + dr <= fs + ft /\ fs + ft <= (dq + dr) + (x + y)
  BY <1>2, <1>3
<1>. QED  BY <1>1, <1>4 DEF Rounded

\* Shares rounded down: together they lose at most the slack of each.
LEMMA TotalRounded ==
  ASSUME NEW n \in Nat, NEW q \in [1 .. n -> Nat], NEW s \in [1 .. n -> Nat],
         NEW divisor \in Nat, NEW factor \in Nat, NEW slack \in Nat,
         \A k \in 1 .. n : Rounded(q[k], s[k], divisor, factor, slack)
  PROVE  Rounded(Total(q, n), Total(s, n), divisor, factor, n * slack)
<1>. DEFINE Good(k) == Rounded(Total(q, k), Total(s, k), divisor, factor, k * slack)
            T == {k \in 0 .. n : ~Good(k)}
<1>0. /\ Total(q, 0) = 0 /\ Total(s, 0) = 0
      /\ \A k \in 0 .. n : Total(q, k) \in Nat /\ Total(s, k) \in Nat
      /\ \A k \in 1 .. n : Total(q, k) = Total(q, k - 1) + q[k] /\ Total(s, k) = Total(s, k - 1) + s[k]
  BY TotalPrefixes
<1>1. T = {}
  <2>. SUFFICES ASSUME T # {} PROVE FALSE
    OBVIOUS
  <2>1. PICK m \in T : \A j \in T : m <= j
    <3>1. T \subseteq Nat
      OBVIOUS
    <3>. QED  BY <3>1, LeastNatural
  <2>2. m # 0
    <3>1. Rounded(0, 0, divisor, factor, 0 * slack)
      BY DEF Rounded
    <3>2. Good(0)
      BY <1>0, <3>1
    <3>. QED  BY <2>1, <3>2
  <2>3. m - 1 \in 0 .. n /\ m \in 1 .. n /\ m - 1 \notin T
    BY <2>1, <2>2
  <2>. DEFINE tq == Total(q, m - 1)
              ts == Total(s, m - 1)
              x == (m - 1) * slack
  <2>4. tq \in Nat /\ ts \in Nat /\ q[m] \in Nat /\ s[m] \in Nat /\ x \in Nat
    BY <1>0, <2>3
  <2>5. Rounded(tq, ts, divisor, factor, x)
    BY <2>3
  <2>6. Total(q, m) = tq + q[m] /\ Total(s, m) = ts + s[m]
    BY <1>0, <2>3
  <2>7. Rounded(q[m], s[m], divisor, factor, slack)
    BY <2>3
  <2>8. m * slack = x + slack
    BY <2>3
  <2>. HIDE DEF tq, ts, x
  <2>9. Rounded(tq + q[m], ts + s[m], divisor, factor, x + slack)
    BY <2>4, <2>5, <2>7, RoundedPlus
  <2>10. Good(m)
    BY <2>6, <2>8, <2>9
  <2>. QED  BY <2>1, <2>10
<1>2. n \in 0 .. n
  OBVIOUS
<1>. QED  BY <1>1, <1>2

=============================================================================
