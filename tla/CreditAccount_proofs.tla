------------------------ MODULE CreditAccount_proofs ------------------------
(***************************************************************************)
(* The books of an AI credit account, for every number of lots, tasks and  *)
(* clawbacks, every amount and every order of grants, reversals, plan      *)
(* changes, adjustments, reservations and settlements.                     *)
(***************************************************************************)
EXTENDS CreditAccount, FiniteSetTheorems, WellFoundedInduction, TLAPS

-----------------------------------------------------------------------------
(* Totals of a column (module Sums).  Induction is by least counterexample: the  *)
(* least number that violates a claim contradicts the claim for its predecessor. *)

\* Every nonempty set of natural numbers has a least element.
LEMMA LeastElement ==
    ASSUME NEW T, T \subseteq Nat, T # {}
    PROVE  \E x \in T : \A y \in T : x <= y
<1>1. PICK x \in T : \A y \in T : ~ (<<y, x>> \in OpToRel(<, Nat))
  BY NatLessThanWellFounded, WFMin
<1>2. ASSUME NEW y \in T PROVE ~ (y < x)
  <2>1. y \in Nat /\ x \in Nat
    OBVIOUS
  <2>2. QED
    BY <1>1, <2>1, Zenon DEF OpToRel
<1>3. QED
  BY <1>2

\* Induction over 0 .. n, with the claim given as the set of numbers it holds for.
LEMMA Induct ==
    ASSUME NEW n \in Nat, NEW G, 0 \in G,
           \A k \in 1 .. n : k - 1 \in G => k \in G
    PROVE  \A k \in 0 .. n : k \in G
<1> DEFINE Bad == {k \in 0 .. n : k \notin G}
<1>1. SUFFICES ASSUME Bad # {} PROVE FALSE
  OBVIOUS
<1>2. Bad \subseteq Nat
  OBVIOUS
<1>3. PICK k \in Bad : \A j \in Bad : k <= j
  <2> HIDE DEF Bad
  <2> QED BY <1>1, <1>2, LeastElement
<1>4. k \in 0 .. n /\ k \notin G
  BY <1>3
<1>5. k # 0
  BY <1>4
<1>6. k - 1 \in 0 .. n /\ k - 1 \notin Bad
  <2> HIDE DEF Bad
  <2> QED BY <1>3, <1>4, <1>5
<1>7. k - 1 \in G
  BY <1>6
<1>8. QED
  BY <1>4, <1>5, <1>7

IntsUpTo(f, n) == \A i \in 1 .. n : f[i] \in Int

IsPrefixSum(p, f, n) ==
    /\ p \in [0 .. n -> Int]
    /\ p[0] = 0
    /\ \A i \in 1 .. n : p[i] = p[i - 1] + f[i]

LEMMA PrefixSumExists ==
    ASSUME NEW n \in Nat, NEW f, IntsUpTo(f, n)
    PROVE  \E p : IsPrefixSum(p, f, n)
<1> DEFINE G == {k \in 0 .. n : \E p : IsPrefixSum(p, f, k)}
<1>1. 0 \in G
  <2>1. IsPrefixSum([i \in 0 .. 0 |-> 0], f, 0)
    BY DEF IsPrefixSum
  <2>2. QED
    BY <2>1
<1>2. ASSUME NEW k \in 1 .. n, k - 1 \in G PROVE k \in G
  <2>1. PICK p : IsPrefixSum(p, f, k - 1)
    BY <1>2
  <2>2. /\ p \in [0 .. k - 1 -> Int]
        /\ p[0] = 0
        /\ \A i \in 1 .. k - 1 : p[i] = p[i - 1] + f[i]
    BY <2>1 DEF IsPrefixSum
  <2> DEFINE q == [i \in 0 .. k |-> IF i = k THEN p[k - 1] + f[k] ELSE p[i]]
  <2>3. q \in [0 .. k -> Int] /\ q[0] = 0
    BY <2>2 DEF IntsUpTo
  <2>4. ASSUME NEW i \in 1 .. k PROVE q[i] = q[i - 1] + f[i]
    <3>1. CASE i = k
      BY <3>1
    <3>2. CASE i # k
      <4>1. i \in 1 .. k - 1 /\ i \in 0 .. k /\ i - 1 \in 0 .. k /\ i - 1 # k
        BY <3>2
      <4>2. QED
        BY <4>1, <3>2, <2>2
    <3>3. QED
      BY <3>1, <3>2
  <2>5. IsPrefixSum(q, f, k)
    <3> HIDE DEF q
    <3> QED BY <2>3, <2>4 DEF IsPrefixSum
  <2>6. QED
    BY <2>5
<1>3. \A k \in 0 .. n : k \in G
  <2> HIDE DEF G
  <2> QED BY <1>1, <1>2, Induct
<1>4. QED
  BY <1>3

LEMMA SumIsPrefixSum ==
    ASSUME NEW n \in Nat, NEW f, NEW p, IsPrefixSum(p, f, n)
    PROVE  SumTo(f, n) = p[n]
<1> DEFINE Eq(s) == s = [i \in 0 .. n |-> IF i = 0 THEN 0 ELSE s[i - 1] + f[i]]
           t == CHOOSE s : Eq(s)
           G == {k \in 0 .. n : t[k] = p[k]}
<1>1. Eq(p)
  BY DEF IsPrefixSum
<1>2. Eq(t)
  BY <1>1
<1>3. t[0] = 0 /\ \A i \in 1 .. n : t[i] = t[i - 1] + f[i]
  <2> HIDE DEF t
  <2> QED BY <1>2
<1>4. p[0] = 0 /\ \A i \in 1 .. n : p[i] = p[i - 1] + f[i]
  BY DEF IsPrefixSum
<1>5. 0 \in G /\ \A k \in 1 .. n : k - 1 \in G => k \in G
  <2> HIDE DEF t
  <2> QED BY <1>3, <1>4
<1>6. \A k \in 0 .. n : k \in G
  <2> HIDE DEF G
  <2> QED BY <1>5, Induct
<1>7. t[n] = p[n]
  <2> HIDE DEF t
  <2> QED BY <1>6
<1>8. SumTo(f, n) = t[n]
  BY DEF SumTo
<1>9. QED
  BY <1>7, <1>8

\* The recursion a total satisfies.
LEMMA SumStep ==
    ASSUME NEW n \in Nat, NEW f, IntsUpTo(f, n)
    PROVE  /\ SumTo(f, n) \in Int
           /\ SumTo(f, 0) = 0
           /\ \A k \in 1 .. n : SumTo(f, k) = SumTo(f, k - 1) + f[k]
<1>1. PICK p : IsPrefixSum(p, f, n)
  BY PrefixSumExists
<1>2. ASSUME NEW k \in 0 .. n PROVE SumTo(f, k) = p[k]
  <2> DEFINE q == [i \in 0 .. k |-> p[i]]
  <2>1. IsPrefixSum(q, f, k)
    BY <1>1 DEF IsPrefixSum
  <2>2. q[k] = p[k]
    OBVIOUS
  <2> HIDE DEF q
  <2>3. QED
    BY <2>1, <2>2, SumIsPrefixSum
<1>3. QED
  BY <1>1, <1>2 DEF IsPrefixSum

\* A total of amounts is an amount.
LEMMA SumNat ==
    ASSUME NEW n \in Nat, NEW f, \A i \in 1 .. n : f[i] \in Nat
    PROVE  SumTo(f, n) \in Nat
<1> DEFINE G == {k \in 0 .. n : SumTo(f, k) \in Nat}
<1>1. /\ SumTo(f, 0) = 0
      /\ \A k \in 1 .. n : SumTo(f, k) = SumTo(f, k - 1) + f[k]
  BY SumStep DEF IntsUpTo
<1>2. 0 \in G /\ \A k \in 1 .. n : k - 1 \in G => k \in G
  BY <1>1
<1>3. \A k \in 0 .. n : k \in G
  <2> HIDE DEF G
  <2> QED BY <1>2, Induct
<1>4. QED
  BY <1>3

\* A column of zeros totals zero.
LEMMA SumZero ==
    ASSUME NEW n \in Nat, NEW f, \A i \in 1 .. n : f[i] = 0
    PROVE  SumTo(f, n) = 0
<1> DEFINE G == {k \in 0 .. n : SumTo(f, k) = 0}
<1>1. /\ SumTo(f, 0) = 0
      /\ \A k \in 1 .. n : SumTo(f, k) = SumTo(f, k - 1) + f[k]
  BY SumStep DEF IntsUpTo
<1>2. 0 \in G
  BY <1>1
<1>3. \A k \in 1 .. n : k - 1 \in G => k \in G
  BY <1>1
<1> HIDE DEF G
<1>4. \A k \in 0 .. n : k \in G
  BY <1>2, <1>3, Induct
<1>5. QED
  BY <1>4 DEF G

\* A total moves by what one entry moves.
LEMMA SumChange ==
    ASSUME NEW n \in Nat, NEW f, NEW g, NEW j \in 1 .. n,
           IntsUpTo(f, n), IntsUpTo(g, n),
           \A i \in 1 .. n : i # j => g[i] = f[i]
    PROVE  SumTo(g, n) = SumTo(f, n) + g[j] - f[j]
<1> DEFINE d(k) == IF k < j THEN 0 ELSE g[j] - f[j]
           G == {k \in 0 .. n : SumTo(f, k) \in Int /\ SumTo(g, k) = SumTo(f, k) + d(k)}
<1>1. /\ SumTo(f, 0) = 0
      /\ \A k \in 1 .. n : SumTo(f, k) = SumTo(f, k - 1) + f[k]
      /\ SumTo(g, 0) = 0
      /\ \A k \in 1 .. n : SumTo(g, k) = SumTo(g, k - 1) + g[k]
  BY SumStep
<1>2. 0 \in G
  BY <1>1
<1>3. ASSUME NEW k \in 1 .. n, k - 1 \in G PROVE k \in G
  <2>1. g[k] \in Int /\ f[k] \in Int /\ g[j] \in Int /\ f[j] \in Int
    BY DEF IntsUpTo
  <2>2. k # j => g[k] = f[k]
    OBVIOUS
  <2>3. QED
    BY <1>1, <1>3, <2>1, <2>2
<1>4. \A k \in 0 .. n : k \in G
  <2> HIDE DEF G
  <2> QED BY <1>2, <1>3, Induct
<1>5. QED
  BY <1>4

\* Equal entries have equal totals; smaller entries have a smaller total.
LEMMA SumMonotone ==
    ASSUME NEW n \in Nat, NEW f, NEW g, IntsUpTo(f, n), IntsUpTo(g, n),
           \A i \in 1 .. n : f[i] <= g[i]
    PROVE  SumTo(f, n) <= SumTo(g, n)
<1> DEFINE G == {k \in 0 .. n : /\ SumTo(f, k) \in Int
                                /\ SumTo(g, k) \in Int
                                /\ SumTo(f, k) <= SumTo(g, k)}
<1>1. /\ SumTo(f, 0) = 0
      /\ \A k \in 1 .. n : SumTo(f, k) = SumTo(f, k - 1) + f[k]
      /\ SumTo(g, 0) = 0
      /\ \A k \in 1 .. n : SumTo(g, k) = SumTo(g, k - 1) + g[k]
  BY SumStep
<1>2. 0 \in G
  BY <1>1
<1>3. ASSUME NEW k \in 1 .. n, k - 1 \in G PROVE k \in G
  <2>1. g[k] \in Int /\ f[k] \in Int
    BY DEF IntsUpTo
  <2>2. QED
    BY <1>1, <1>3, <2>1
<1>4. \A k \in 0 .. n : k \in G
  <2> HIDE DEF G
  <2> QED BY <1>2, <1>3, Induct
<1>5. QED
  BY <1>4

\* The total of sums is the sum of the totals.
LEMMA SumAdd ==
    ASSUME NEW n \in Nat, NEW f, NEW g, NEW h, IntsUpTo(f, n), IntsUpTo(g, n),
           \A i \in 1 .. n : h[i] = f[i] + g[i]
    PROVE  SumTo(h, n) = SumTo(f, n) + SumTo(g, n)
<1> DEFINE G == {k \in 0 .. n : /\ SumTo(f, k) \in Int
                                /\ SumTo(g, k) \in Int
                                /\ SumTo(h, k) = SumTo(f, k) + SumTo(g, k)}
<1>0. IntsUpTo(h, n)
  BY DEF IntsUpTo
<1>1. /\ SumTo(f, 0) = 0
      /\ \A k \in 1 .. n : SumTo(f, k) = SumTo(f, k - 1) + f[k]
      /\ SumTo(g, 0) = 0
      /\ \A k \in 1 .. n : SumTo(g, k) = SumTo(g, k - 1) + g[k]
      /\ SumTo(h, 0) = 0
      /\ \A k \in 1 .. n : SumTo(h, k) = SumTo(h, k - 1) + h[k]
  BY <1>0, SumStep
<1>2. 0 \in G
  BY <1>1
<1>3. ASSUME NEW k \in 1 .. n, k - 1 \in G PROVE k \in G
  <2>1. g[k] \in Int /\ f[k] \in Int /\ h[k] = f[k] + g[k]
    BY DEF IntsUpTo
  <2>2. QED
    BY <1>1, <1>3, <2>1
<1>4. \A k \in 0 .. n : k \in G
  <2> HIDE DEF G
  <2> QED BY <1>2, <1>3, Induct
<1>5. QED
  BY <1>4

\* Entries that are equal have equal totals.
LEMMA SumSame ==
    ASSUME NEW n \in Nat, NEW f, NEW g, IntsUpTo(f, n), \A i \in 1 .. n : g[i] = f[i]
    PROVE  SumTo(g, n) = SumTo(f, n)
<1>1. IntsUpTo(g, n) /\ \A i \in 1 .. n : f[i] <= g[i] /\ g[i] <= f[i]
  BY DEF IntsUpTo
<1>2. SumTo(f, n) <= SumTo(g, n) /\ SumTo(g, n) <= SumTo(f, n)
  BY <1>1, SumMonotone
<1>3. SumTo(f, n) \in Int /\ SumTo(g, n) \in Int
  BY <1>1, SumStep
<1>4. QED
  BY <1>2, <1>3

\* The total of differences is the difference of the totals.
LEMMA SumSubtract ==
    ASSUME NEW n \in Nat, NEW f, NEW g, NEW h, IntsUpTo(f, n), IntsUpTo(g, n),
           \A i \in 1 .. n : h[i] = f[i] - g[i]
    PROVE  SumTo(h, n) = SumTo(f, n) - SumTo(g, n)
<1>1. IntsUpTo(h, n) /\ \A i \in 1 .. n : f[i] = h[i] + g[i]
  BY DEF IntsUpTo
<1>2. SumTo(f, n) = SumTo(h, n) + SumTo(g, n)
  BY <1>1, SumAdd
<1>3. SumTo(f, n) \in Int /\ SumTo(g, n) \in Int /\ SumTo(h, n) \in Int
  BY <1>1, SumStep
<1>4. QED
  BY <1>2, <1>3

\* A column that has one entry totals that entry.
LEMMA SumSingle ==
    ASSUME NEW n \in Nat, NEW f, NEW j \in 1 .. n, f[j] \in Int,
           \A i \in 1 .. n : i # j => f[i] = 0
    PROVE  SumTo(f, n) = f[j]
<1> DEFINE z == [i \in 1 .. n |-> 0]
<1>1. IntsUpTo(f, n) /\ IntsUpTo(z, n) /\ \A i \in 1 .. n : z[i] = 0
  BY DEF IntsUpTo
<1> HIDE DEF z
<1>2. SumTo(z, n) = 0 /\ z[j] = 0
  BY <1>1, SumZero
<1>3. SumTo(f, n) = SumTo(z, n) + f[j] - z[j]
  BY <1>1, SumChange
<1>4. QED
  BY <1>2, <1>3

\* No amount exceeds the total it is part of.
LEMMA SumCovers ==
    ASSUME NEW n \in Nat, NEW f, \A i \in 1 .. n : f[i] \in Nat, NEW j \in 1 .. n
    PROVE  f[j] <= SumTo(f, n)
<1> DEFINE g == [i \in 1 .. n |-> IF i = j THEN f[j] ELSE 0]
<1>1. IntsUpTo(f, n) /\ IntsUpTo(g, n) /\ \A i \in 1 .. n : g[i] <= f[i]
  BY DEF IntsUpTo
<1>2. g[j] = f[j] /\ g[j] \in Int /\ \A i \in 1 .. n : i # j => g[i] = 0
  OBVIOUS
<1> HIDE DEF g
<1>3. SumTo(g, n) = g[j] /\ SumTo(g, n) <= SumTo(f, n)
  BY <1>1, <1>2, SumSingle, SumMonotone
<1>4. QED
  BY <1>2, <1>3

\* The total of what each entry adds to the one before is what was added in all.
LEMMA SumTelescopes ==
    ASSUME NEW n \in Nat, NEW f, NEW g, \A i \in 0 .. n : g[i] \in Int,
           \A i \in 1 .. n : f[i] = g[i] - g[i - 1]
    PROVE  SumTo(f, n) = g[n] - g[0]
<1> DEFINE G == {k \in 0 .. n : SumTo(f, k) = g[k] - g[0]}
<1>0. IntsUpTo(f, n)
  BY DEF IntsUpTo
<1>1. SumTo(f, 0) = 0 /\ \A k \in 1 .. n : SumTo(f, k) = SumTo(f, k - 1) + f[k]
  BY <1>0, SumStep
<1>2. 0 \in G
  BY <1>1
<1>3. ASSUME NEW k \in 1 .. n, k - 1 \in G PROVE k \in G
  BY <1>1, <1>3
<1>4. \A k \in 0 .. n : k \in G
  <2> HIDE DEF G
  <2> QED BY <1>2, <1>3, Induct
<1>5. QED
  BY <1>4

USE ConstantsAssumption

-----------------------------------------------------------------------------
(* Taking an amount out of a row of pots *)

LEMMA LeastOf ==
    ASSUME NEW m \in Int, NEW n \in Int
    PROVE  /\ Least(m, n) \in {m, n} /\ Least(m, n) \in Int
           /\ Least(m, n) <= m /\ Least(m, n) <= n
           /\ m \in Nat /\ n \in Nat => Least(m, n) \in Nat
  BY DEF Least

LEMMA NaturalOf ==
    ASSUME NEW m \in Int
    PROVE  /\ Natural(m) \in Nat /\ Natural(m) >= m
           /\ m >= 0 => Natural(m) = m
           /\ m <= 0 => Natural(m) = 0
  BY DEF Natural

\* A waterfall takes no more than a pot has, and in all the lesser of what is
\* wanted and what there is.
LEMMA WaterfallFits ==
    ASSUME NEW n \in Nat, NEW want \in Nat, NEW pot, \A i \in 1 .. n : pot[i] \in Nat,
           NEW w, \A i \in 1 .. n : w[i] = Waterfall(want, pot, i)
    PROVE  /\ \A i \in 1 .. n : w[i] \in Nat /\ w[i] <= pot[i]
           /\ SumTo(w, n) = Least(want, SumTo(pot, n))
           /\ SumTo(pot, n) \in Nat
<1>0. IntsUpTo(pot, n)
  BY DEF IntsUpTo
<1>1. /\ SumTo(pot, 0) = 0 /\ SumTo(pot, n) \in Nat
      /\ \A k \in 1 .. n : SumTo(pot, k) = SumTo(pot, k - 1) + pot[k]
      /\ \A k \in 0 .. n : SumTo(pot, k) \in Nat
  <2>1. \A k \in 0 .. n : SumTo(pot, k) \in Nat
    BY SumNat
  <2> QED BY <1>0, <2>1, SumStep
<1>2. \A i \in 1 .. n : w[i] \in Nat /\ w[i] <= pot[i]
  BY <1>1 DEF Waterfall, Least, Natural
<1>3. /\ SumTo(w, 0) = 0
      /\ \A k \in 1 .. n : SumTo(w, k) = SumTo(w, k - 1) + w[k]
  BY <1>2, SumStep DEF IntsUpTo
<1> DEFINE G == {k \in 0 .. n : SumTo(w, k) = Least(want, SumTo(pot, k))}
<1>4. 0 \in G
  BY <1>1, <1>3 DEF Least
<1>5. ASSUME NEW k \in 1 .. n, k - 1 \in G PROVE k \in G
  <2>1. k - 1 \in 0 .. n /\ SumTo(pot, k - 1) \in Nat /\ pot[k] \in Nat
    BY <1>1
  <2>2. w[k] = Least(pot[k], Natural(want - SumTo(pot, k - 1)))
    BY DEF Waterfall
  <2> QED BY <1>1, <1>3, <1>5, <2>1, <2>2 DEF Least, Natural
<1>6. \A k \in 0 .. n : k \in G
  <2> HIDE DEF G
  <2> QED BY <1>4, <1>5, Induct
<1> QED BY <1>1, <1>2, <1>6

\* take[i] is what the i-th pot gives when those with a higher number go first.
NewestFirst(n, want, free, seq, newer, take) ==
    /\ n \in Nat /\ want \in Nat
    /\ \A i \in 1 .. n : free[i] \in Nat /\ seq[i] \in 0 .. n
    /\ \A i, j \in 1 .. n : i # j /\ seq[i] = seq[j] => free[i] = 0 \/ free[j] = 0
    /\ \A i, m \in 1 .. n : newer[i][m] = IF seq[m] > seq[i] THEN free[m] ELSE 0
    /\ \A i \in 1 .. n : take[i] = Least(free[i], Natural(want - SumTo(newer[i], n)))

\* A walk from the highest number down takes no more than there is, either.
LEMMA NewestFirstFits ==
    ASSUME NEW n, NEW want, NEW free, NEW seq, NEW newer, NEW take,
           NewestFirst(n, want, free, seq, newer, take)
    PROVE  /\ \A i \in 1 .. n : take[i] \in Nat /\ take[i] <= free[i]
           /\ SumTo(take, n) = Least(want, SumTo(free, n))
<1> USE DEF NewestFirst
<1> DEFINE A(v) == [m \in 1 .. n |-> IF seq[m] > v THEN free[m] ELSE 0]
           B(v) == [m \in 1 .. n |-> IF seq[m] > v THEN take[m] ELSE 0]
           G == {s \in 0 .. n + 1 : SumTo(B(n - s), n) = Least(want, SumTo(A(n - s), n))}
<1>1. ASSUME NEW v \in Int
      PROVE  /\ \A i \in 1 .. n : A(v)[i] = IF seq[i] > v THEN free[i] ELSE 0
             /\ SumTo(A(v), n) \in Nat
  <2>1. \A i \in 1 .. n : A(v)[i] \in Nat
    OBVIOUS
  <2>2. SumTo(A(v), n) \in Nat
    BY <2>1, SumNat
  <2> QED BY <2>2
<1>0. ASSUME NEW i \in 1 .. n
      PROVE  take[i] = Least(free[i], Natural(want - SumTo(A(seq[i]), n)))
  <2>1. seq[i] \in Int
    OBVIOUS
  <2>2. \A m \in 1 .. n : A(seq[i])[m] \in Nat
    OBVIOUS
  <2>3. \A m \in 1 .. n : newer[i][m] = A(seq[i])[m]
    OBVIOUS
  <2> HIDE DEF A
  <2>4. IntsUpTo(A(seq[i]), n)
    BY <2>2 DEF IntsUpTo
  <2>5. SumTo(newer[i], n) = SumTo(A(seq[i]), n)
    BY <2>3, <2>4, SumSame
  <2> QED BY <2>5
<1>2. ASSUME NEW i \in 1 .. n
      PROVE  take[i] \in Nat /\ take[i] <= free[i]
  <2>1. seq[i] \in Int
    OBVIOUS
  <2>2. SumTo(A(seq[i]), n) \in Nat
    BY <1>1, <2>1
  <2>3. take[i] = Least(free[i], Natural(want - SumTo(A(seq[i]), n)))
    BY <1>0
  <2> HIDE DEF A
  <2> QED BY <2>2, <2>3 DEF Least, Natural
<1>3. ASSUME NEW v \in Int
      PROVE  \A i \in 1 .. n : B(v)[i] = IF seq[i] > v THEN take[i] ELSE 0
  OBVIOUS
<1>4. 0 \in G
  <2>1. \A i \in 1 .. n : A(n)[i] = 0 /\ B(n)[i] = 0
    OBVIOUS
  <2>2. SumTo(A(n), n) = 0 /\ SumTo(B(n), n) = 0
    <3> HIDE DEF A, B
    <3> QED BY <2>1, SumZero
  <2> HIDE DEF A, B
  <2> QED BY <2>2 DEF Least
<1>5. ASSUME NEW s \in 1 .. n + 1, s - 1 \in G PROVE s \in G
  <2> DEFINE v == n - s + 1
             C == [m \in 1 .. n |-> IF seq[m] = v THEN free[m] ELSE 0]
             D == [m \in 1 .. n |-> IF seq[m] = v THEN take[m] ELSE 0]
  <2>1. v \in Int /\ v = n - (s - 1) /\ n - s = v - 1 /\ n - s \in Int
    OBVIOUS
  <2>2. SumTo(B(v), n) = Least(want, SumTo(A(v), n))
    BY <1>5, <2>1
  <2>3. \A i \in 1 .. n : C[i] = (IF seq[i] = v THEN free[i] ELSE 0) /\ C[i] \in Nat
    OBVIOUS
  <2>4. \A i \in 1 .. n : D[i] = (IF seq[i] = v THEN take[i] ELSE 0) /\ D[i] \in Nat
    BY <1>2
  <2>5. \A i \in 1 .. n : /\ A(v)[i] \in Int /\ B(v)[i] \in Int
                          /\ A(n - s)[i] = A(v)[i] + C[i]
                          /\ B(n - s)[i] = B(v)[i] + D[i]
    <3> SUFFICES ASSUME NEW i \in 1 .. n
                 PROVE  /\ A(v)[i] \in Int /\ B(v)[i] \in Int
                        /\ A(n - s)[i] = A(v)[i] + C[i]
                        /\ B(n - s)[i] = B(v)[i] + D[i]
      OBVIOUS
    <3>1. seq[i] \in Int /\ free[i] \in Nat /\ take[i] \in Nat
      BY <1>2
    <3>2. /\ A(v)[i] = IF seq[i] > v THEN free[i] ELSE 0
          /\ A(n - s)[i] = IF seq[i] > v - 1 THEN free[i] ELSE 0
          /\ B(v)[i] = IF seq[i] > v THEN take[i] ELSE 0
          /\ B(n - s)[i] = IF seq[i] > v - 1 THEN take[i] ELSE 0
      BY <1>1, <1>3, <2>1
    <3>3. C[i] = (IF seq[i] = v THEN free[i] ELSE 0) /\ D[i] = (IF seq[i] = v THEN take[i] ELSE 0)
      BY <2>3, <2>4
    <3> HIDE DEF A, B, C, D, v
    <3>4. CASE seq[i] > v
      BY <2>1, <3>1, <3>2, <3>3, <3>4
    <3>5. CASE seq[i] = v
      BY <2>1, <3>1, <3>2, <3>3, <3>5
    <3>6. CASE seq[i] < v
      BY <2>1, <3>1, <3>2, <3>3, <3>6
    <3> QED BY <2>1, <3>1, <3>4, <3>5, <3>6
  <2>6. /\ SumTo(A(n - s), n) = SumTo(A(v), n) + SumTo(C, n)
        /\ SumTo(B(n - s), n) = SumTo(B(v), n) + SumTo(D, n)
    <3> HIDE DEF A, B, C, D, v
    <3>1. IntsUpTo(A(v), n) /\ IntsUpTo(B(v), n) /\ IntsUpTo(C, n) /\ IntsUpTo(D, n)
      BY <2>3, <2>4, <2>5 DEF IntsUpTo
    <3>2. /\ n \in Nat
          /\ \A i \in 1 .. n : A(n - s)[i] = A(v)[i] + C[i]
          /\ \A i \in 1 .. n : B(n - s)[i] = B(v)[i] + D[i]
      BY <2>5
    <3>3. SumTo(A(n - s), n) = SumTo(A(v), n) + SumTo(C, n)
      BY ONLY <3>1, <3>2, SumAdd
    <3>4. SumTo(B(n - s), n) = SumTo(B(v), n) + SumTo(D, n)
      BY ONLY <3>1, <3>2, SumAdd
    <3> QED BY <3>3, <3>4
  <2>7. CASE \E j \in 1 .. n : seq[j] = v /\ free[j] > 0
    <3>1. PICK j \in 1 .. n : seq[j] = v /\ free[j] > 0
      BY <2>7
    <3>2. \A i \in 1 .. n : i # j => C[i] = 0 /\ D[i] = 0
      <4> SUFFICES ASSUME NEW i \in 1 .. n, i # j, seq[i] = v
                   PROVE  free[i] = 0 /\ take[i] = 0
        BY <2>3, <2>4
      <4>1. free[i] = 0
        BY <3>1
      <4> QED BY <1>2, <4>1
    <3>3. SumTo(C, n) = free[j] /\ SumTo(D, n) = take[j]
      <4>1. C[j] = free[j] /\ D[j] = take[j] /\ C[j] \in Int /\ D[j] \in Int
        BY <2>3, <2>4, <3>1
      <4> HIDE DEF C, D
      <4> QED BY <3>2, <4>1, SumSingle
    <3>4. take[j] = Least(free[j], Natural(want - SumTo(A(v), n)))
      <4>1. take[j] = Least(free[j], Natural(want - SumTo(A(seq[j]), n)))
        BY <1>0
      <4> QED BY <3>1, <4>1
    <3>5. SumTo(A(v), n) \in Nat /\ free[j] \in Nat
      BY <1>1, <2>1
    <3> HIDE DEF A, B, C, D, v
    <3>6. SumTo(B(n - s), n) = Least(want, SumTo(A(n - s), n))
      <4>1. Least(want, SumTo(A(v), n)) + Least(free[j], Natural(want - SumTo(A(v), n)))
              = Least(want, SumTo(A(v), n) + free[j])
        <5>1. PICK x \in Nat : x = SumTo(A(v), n)
          BY <3>5
        <5>2. PICK y \in Nat : y = free[j]
          BY <3>5
        <5>3. Least(want, x) + Least(y, Natural(want - x)) = Least(want, x + y)
          BY DEF Least, Natural
        <5> QED BY <5>1, <5>2, <5>3
      <4> QED BY <2>2, <2>6, <3>3, <3>4, <4>1
    <3> QED BY <3>6
  <2>8. CASE \A j \in 1 .. n : seq[j] = v => free[j] = 0
    <3>1. \A i \in 1 .. n : C[i] = 0 /\ D[i] = 0
      BY <1>2, <2>3, <2>4, <2>8
    <3>2. SumTo(C, n) = 0 /\ SumTo(D, n) = 0
      <4> HIDE DEF C, D
      <4> QED BY <3>1, SumZero
    <3>3. SumTo(A(v), n) \in Nat
      BY <1>1, <2>1
    <3> HIDE DEF A, B, C, D, v
    <3>4. SumTo(B(n - s), n) = Least(want, SumTo(A(n - s), n))
      BY <2>2, <2>6, <3>2, <3>3 DEF Least
    <3> QED BY <3>4
  <2> QED BY <2>7, <2>8
<1>6. n + 1 \in G
  <2>1. \A s \in 0 .. n + 1 : s \in G
    <3>1. n + 1 \in Nat
      OBVIOUS
    <3> HIDE DEF G
    <3> QED BY <1>4, <1>5, <3>1, Induct
  <2> HIDE DEF G
  <2> QED BY <2>1
<1>7. \A i \in 1 .. n : A(-1)[i] = free[i] /\ B(-1)[i] = take[i]
  OBVIOUS
<1>8. SumTo(B(-1), n) = Least(want, SumTo(A(-1), n))
  <2>1. n - (n + 1) = -1
    OBVIOUS
  <2> QED BY <1>6, <2>1
<1>9. SumTo(B(-1), n) = SumTo(take, n) /\ SumTo(A(-1), n) = SumTo(free, n)
  <2>1. IntsUpTo(take, n) /\ IntsUpTo(free, n)
    BY <1>2 DEF IntsUpTo
  <2> HIDE DEF A, B
  <2> QED BY <1>7, <2>1, SumSame
<1> QED BY <1>2, <1>8, <1>9
-----------------------------------------------------------------------------
(* What every transaction keeps of an account *)

\* What clawbacks took out of a lot, at once or when a task released it.
Clawed(a, l) == SumTo([k \in Claws |-> a.claw[k].took[l] + a.claw[k].paid[l]], MaxClaw)

\* A lot has what it holds, its books balance, it got back no more than was
\* taken of it, and a row that was never inserted is empty.
LotIsSound(a, l) ==
    /\ a.lot[l].held <= a.lot[l].remaining
    /\ a.lot[l].granted + a.back.restored[l] + a.back.returned[l]
          = a.lot[l].remaining + a.lot[l].expired + a.lot[l].spent
            + a.lot[l].repaid + Clawed(a, l)
    /\ a.back.restored[l] <= TakenFrom(a, l)
    /\ a.back.returned[l] <= PaidFrom(a, l)
    /\ Exists(a, l) \/ (/\ a.lot[l].granted = 0
                       /\ a.back.restored[l] = 0 /\ a.back.returned[l] = 0)

\* Lots are numbered in the order they were inserted in.
SeqIsSound(a) ==
    /\ \A l, m \in Lots : Exists(a, l) /\ a.lot[l].seq = a.lot[m].seq => l = m
    /\ \A l \in Lots : a.lot[l].seq <= Cardinality({m \in Lots : Exists(a, m)})

ClawIsSound(a, k) ==
    LET c == a.claw[k]
    IN  /\ c.state = "none" => c = NoClaw /\ a.back.released[k] = 0
        /\ c.want = Total(c.took) + Total(c.paid) + c.pending + a.back.released[k]
                    + c.debt + c.dropped
        /\ c.dropped > 0 => c.source = "reversal" /\ c.unit \in Annual
        /\ \A l \in Lots : c.source # "plan_change" /\ a.lot[l].unit # c.unit
                              => c.took[l] = 0 /\ c.paid[l] = 0

DebtMade(a) == SumTo([k \in Claws |-> a.claw[k].debt], MaxClaw)
Repaid(a) == Total([l \in Lots |-> a.lot[l].repaid])

Sound(a) ==
    /\ a \in Account
    /\ \A l \in Lots : LotIsSound(a, l)
    /\ SeqIsSound(a)
    /\ \A k \in Claws : ClawIsSound(a, k)
    /\ \A u \in Units : ChargedBeyond(a, u) >= 0
    /\ a.debt = DebtMade(a) - Repaid(a) - a.forgiven

\* Only the payment that earned unit was taken back.
Alone(a, unit) ==
    \A k \in Claws : a.claw[k].state = "none"
                        \/ (a.claw[k].source = "reversal" /\ a.claw[k].unit = unit)

HeldOf(a, unit) == Total([l \in Lots |-> IF l \in OfUnit(a, unit) THEN a.lot[l].held ELSE 0])

\* What left the unit's lots on the customer's work and did not come back, and
\* what was undone of the unit's charges.
UsedOf(a, unit) ==
    Total([l \in Lots |-> IF l \in OfUnit(a, unit)
                          THEN a.lot[l].spent + a.lot[l].repaid - a.back.returned[l] ELSE 0])
        + a.back.excused[unit] + a.back.undone[unit]

\* What clawbacks charged for good.
Charged(a) == SumTo([k \in Claws |-> a.claw[k].debt + a.claw[k].dropped], MaxClaw)

\* A payment taken back alone is charged what its lots were used for, and what
\* it claims beyond that is what they hold.
Worth(a) ==
    \A u \in Units : Alone(a, u) =>
        /\ Charged(a) <= UsedOf(a, u)
        /\ Charged(a) + PendingClaimTotal(a) <= HeldOf(a, u) + UsedOf(a, u)

\* A task's charge and holds are what its lots say.
TasksAreSound ==
    /\ \A l \in Lots :
          /\ acct.lot[l].held = SumTo([t \in Tasks |-> IF t \in Open THEN hold[t][l] ELSE 0], MaxTask)
          /\ acct.lot[l].spent = SumTo([t \in Tasks |-> taken[t][l]], MaxTask)
    /\ \A t \in Open : Total(hold[t]) = task[t].reserved
    /\ \A t \in Tasks : task[t].state # "settled" => \A l \in Lots : taken[t][l] = 0

-----------------------------------------------------------------------------
(* Types *)

LEMMA Sizes == MaxLot \in Nat /\ MaxTask \in Nat /\ MaxClaw \in Nat
  OBVIOUS

LEMMA LotTypes ==
    ASSUME NEW q \in Lot
    PROVE  /\ q.unit \in Units \cup {None} /\ q.rank \in {0, 1}
           /\ q.ends \in Nat /\ q.seq \in 0 .. MaxLot
           /\ q.granted \in Nat /\ q.remaining \in Nat /\ q.held \in Nat
           /\ q.expired \in Nat /\ q.spent \in Nat /\ q.repaid \in Nat
  BY DEF Lot

LEMMA ClawTypes ==
    ASSUME NEW c \in Claw
    PROVE  /\ c.state \in {"none", "applied"} /\ c.source \in {"plan_change", "reversal", "cover"}
           /\ c.unit \in Units \cup {None} /\ c.want \in Nat
           /\ c.took \in [Lots -> Nat] /\ c.paid \in [Lots -> Nat]
           /\ c.pending \in Nat /\ c.debt \in Nat /\ c.dropped \in Nat
           /\ \A l \in Lots : c.took[l] \in Nat /\ c.paid[l] \in Nat
           /\ Total(c.took) \in Nat /\ Total(c.paid) \in Nat
<1>1. /\ c.state \in {"none", "applied"} /\ c.source \in {"plan_change", "reversal", "cover"}
      /\ c.unit \in Units \cup {None} /\ c.want \in Nat
      /\ c.took \in [Lots -> Nat] /\ c.paid \in [Lots -> Nat]
      /\ c.pending \in Nat /\ c.debt \in Nat /\ c.dropped \in Nat
  BY DEF Claw
<1>2. \A l \in Lots : c.took[l] \in Nat /\ c.paid[l] \in Nat
  BY <1>1
<1>3. Total(c.took) \in Nat /\ Total(c.paid) \in Nat
  BY <1>2, Sizes, SumNat DEF Total, Lots
<1> QED BY <1>1, <1>2, <1>3

LEMMA AccountTypes ==
    ASSUME NEW a \in Account
    PROVE  /\ a.lot \in [Lots -> Lot] /\ a.claw \in [Claws -> Claw]
           /\ a.debt \in Nat /\ a.forgiven \in Nat /\ a.back \in Back
           /\ \A l \in Lots : a.lot[l] \in Lot
           /\ \A k \in Claws : a.claw[k] \in Claw
  BY DEF Account

LEMMA BackTypes ==
    ASSUME NEW a \in Account
    PROVE  /\ \A k \in Claws : a.back.released[k] \in Nat
           /\ \A l \in Lots : a.back.restored[l] \in Nat /\ a.back.returned[l] \in Nat
           /\ \A u \in Units : a.back.excused[u] \in Nat /\ a.back.undone[u] \in Nat
<1>1. a.back \in Back
  BY AccountTypes
<1> QED BY <1>1 DEF Back

LEMMA AmountTypes ==
    ASSUME NEW a \in Account
    PROVE  /\ \A l \in Lots : Clawed(a, l) \in Nat
           /\ DebtMade(a) \in Nat /\ Repaid(a) \in Nat /\ Charged(a) \in Nat
           /\ PendingClaimTotal(a) \in Nat /\ HeldMicro(a) \in Nat
           /\ \A u : HeldOf(a, u) \in Nat
           /\ \A u \in Units : UsedOf(a, u) \in Int
<1>1. \A l \in Lots : /\ a.lot[l].held \in Nat /\ a.lot[l].spent \in Nat
                      /\ a.lot[l].repaid \in Nat
  BY AccountTypes, LotTypes
<1>2. \A k \in Claws : /\ a.claw[k].pending \in Nat /\ a.claw[k].debt \in Nat
                       /\ a.claw[k].dropped \in Nat
                       /\ \A l \in Lots : a.claw[k].took[l] \in Nat /\ a.claw[k].paid[l] \in Nat
  BY AccountTypes, ClawTypes
<1>3. ASSUME NEW f, \A l \in 1 .. MaxLot : f[l] \in Nat PROVE Total(f) \in Nat
  BY <1>3, Sizes, SumNat DEF Total
<1>4. ASSUME NEW f, \A k \in 1 .. MaxClaw : f[k] \in Nat PROVE SumTo(f, MaxClaw) \in Nat
  BY <1>4, Sizes, SumNat
<1>5. \A l \in Lots : Clawed(a, l) \in Nat
  <2> SUFFICES ASSUME NEW l \in Lots PROVE Clawed(a, l) \in Nat
    OBVIOUS
  <2> DEFINE f == [k \in Claws |-> a.claw[k].took[l] + a.claw[k].paid[l]]
  <2>1. \A k \in 1 .. MaxClaw : f[k] \in Nat
    BY <1>2 DEF Claws
  <2> HIDE DEF f
  <2>2. SumTo(f, MaxClaw) \in Nat
    BY <1>4, <2>1
  <2> QED BY <2>2 DEF f, Clawed
<1>6. DebtMade(a) \in Nat /\ Charged(a) \in Nat /\ PendingClaimTotal(a) \in Nat
  <2> DEFINE f == [k \in Claws |-> a.claw[k].debt]
             g == [k \in Claws |-> a.claw[k].debt + a.claw[k].dropped]
             h == [k \in Claws |-> a.claw[k].pending]
  <2>1. \A k \in 1 .. MaxClaw : f[k] \in Nat /\ g[k] \in Nat /\ h[k] \in Nat
    BY <1>2 DEF Claws
  <2> HIDE DEF f, g, h
  <2>2. SumTo(f, MaxClaw) \in Nat /\ SumTo(g, MaxClaw) \in Nat /\ SumTo(h, MaxClaw) \in Nat
    BY <1>4, <2>1
  <2> QED BY <2>2 DEF f, g, h, DebtMade, Charged, PendingClaimTotal
<1>7. Repaid(a) \in Nat /\ HeldMicro(a) \in Nat
  <2> DEFINE f == [l \in Lots |-> a.lot[l].repaid]
             g == [l \in Lots |-> a.lot[l].held]
  <2>1. \A l \in 1 .. MaxLot : f[l] \in Nat /\ g[l] \in Nat
    BY <1>1 DEF Lots
  <2> HIDE DEF f, g
  <2>2. Total(f) \in Nat /\ Total(g) \in Nat
    BY <1>3, <2>1
  <2> QED BY <2>2 DEF f, g, Repaid, HeldMicro
<1>8. ASSUME NEW u PROVE HeldOf(a, u) \in Nat
  <2> DEFINE f == [l \in Lots |-> IF l \in OfUnit(a, u) THEN a.lot[l].held ELSE 0]
  <2>1. \A l \in 1 .. MaxLot : f[l] \in Nat
    BY <1>1 DEF Lots
  <2> HIDE DEF f
  <2>2. Total(f) \in Nat
    BY <1>3, <2>1
  <2> QED BY <2>2 DEF f, HeldOf
<1>9. ASSUME NEW u \in Units PROVE UsedOf(a, u) \in Int
  <2> DEFINE g == [l \in Lots |-> IF l \in OfUnit(a, u)
                                  THEN a.lot[l].spent + a.lot[l].repaid - a.back.returned[l]
                                  ELSE 0]
  <2>1. \A l \in Lots : a.back.returned[l] \in Nat
    BY BackTypes
  <2>2. \A l \in 1 .. MaxLot : g[l] \in Int
    BY <1>1, <2>1 DEF Lots
  <2> HIDE DEF g
  <2>3. Total(g) \in Int
    BY <2>2, Sizes, SumStep DEF Total, IntsUpTo
  <2>4. a.back.excused[u] \in Nat /\ a.back.undone[u] \in Nat
    BY BackTypes
  <2> QED BY <2>3, <2>4 DEF g, UsedOf
<1> QED BY <1>5, <1>6, <1>7, <1>8, <1>9

\* What a lot was taken of and paid of other charges is all that clawbacks and
\* debt had of it.
LEMMA TakenAndPaid ==
    ASSUME NEW a \in Account, NEW l \in Lots
    PROVE  /\ TakenFrom(a, l) \in Nat /\ PaidFrom(a, l) \in Nat
           /\ TakenFrom(a, l) + PaidFrom(a, l) = Clawed(a, l) + a.lot[l].repaid
<1> DEFINE f == [k \in Claws |-> a.claw[k].took[l]
                                  + IF a.claw[k].unit = a.lot[l].unit THEN a.claw[k].paid[l] ELSE 0]
           g == [k \in Claws |-> IF a.claw[k].unit = a.lot[l].unit THEN 0 ELSE a.claw[k].paid[l]]
           h == [k \in Claws |-> a.claw[k].took[l] + a.claw[k].paid[l]]
<1>1. ASSUME NEW k \in Claws PROVE f[k] \in Nat /\ g[k] \in Nat /\ h[k] = f[k] + g[k]
  <2>1. a.claw[k].took[l] \in Nat /\ a.claw[k].paid[l] \in Nat
    BY AccountTypes, ClawTypes
  <2> QED BY <2>1
<1>2. \A k \in 1 .. MaxClaw : f[k] \in Nat /\ g[k] \in Nat /\ h[k] = f[k] + g[k]
  BY <1>1 DEF Claws
<1>3. a.lot[l].repaid \in Nat
  BY AccountTypes, LotTypes
<1> HIDE DEF f, g, h
<1>4. SumTo(f, MaxClaw) \in Nat /\ SumTo(g, MaxClaw) \in Nat
  BY <1>2, Sizes, SumNat
<1>5. SumTo(h, MaxClaw) = SumTo(f, MaxClaw) + SumTo(g, MaxClaw)
  BY <1>2, Sizes, SumAdd DEF IntsUpTo
<1> QED BY <1>3, <1>4, <1>5 DEF f, g, h, TakenFrom, PaidFrom, Clawed

\* What a unit's clawbacks charged is an amount; its parts are.
LEMMA BilledTypes ==
    ASSUME NEW a \in Account, NEW u
    PROVE  /\ \A k \in Claws : Total([l \in Lots |-> IF l \in OfUnit(a, u) THEN 0
                                                     ELSE a.claw[k].paid[l]]) \in Nat
           /\ BilledOf(a, u) \in Nat /\ ClaimsOf(a, u) \in Nat /\ DebtOf(a, u) \in Nat
<1> DEFINE elsewhere(k) == Total([l \in Lots |-> IF l \in OfUnit(a, u) THEN 0
                                                 ELSE a.claw[k].paid[l]])
           f == [k \in Claws |-> IF a.claw[k].unit = u
                                 THEN a.claw[k].debt + a.claw[k].dropped + elsewhere(k) ELSE 0]
           g == [k \in Claws |-> IF a.claw[k].unit = u THEN a.claw[k].pending ELSE 0]
           h == [k \in Claws |-> IF a.claw[k].unit = u THEN a.claw[k].debt ELSE 0]
<1>1. \A k \in Claws : /\ a.claw[k].debt \in Nat /\ a.claw[k].dropped \in Nat
                       /\ a.claw[k].pending \in Nat
                       /\ \A l \in Lots : a.claw[k].paid[l] \in Nat
  BY AccountTypes, ClawTypes
<1>2. ASSUME NEW k \in Claws PROVE elsewhere(k) \in Nat
  <2> DEFINE e == [l \in Lots |-> IF l \in OfUnit(a, u) THEN 0 ELSE a.claw[k].paid[l]]
  <2>1. \A l \in 1 .. MaxLot : e[l] \in Nat
    BY <1>1 DEF Lots
  <2> HIDE DEF e
  <2>2. SumTo(e, MaxLot) \in Nat
    BY <2>1, Sizes, SumNat
  <2> QED BY <2>2 DEF e, Total
<1>3. \A k \in 1 .. MaxClaw : f[k] \in Nat /\ g[k] \in Nat /\ h[k] \in Nat
  <2> HIDE DEF elsewhere
  <2> QED BY <1>1, <1>2 DEF Claws
<1>4. /\ BilledOf(a, u) = SumTo(f, MaxClaw) /\ ClaimsOf(a, u) = SumTo(g, MaxClaw)
      /\ DebtOf(a, u) = SumTo(h, MaxClaw)
  BY DEF BilledOf, ClaimsOf, DebtOf
<1> HIDE DEF f, g, h
<1>5. SumTo(f, MaxClaw) \in Nat /\ SumTo(g, MaxClaw) \in Nat /\ SumTo(h, MaxClaw) \in Nat
  BY <1>3, Sizes, SumNat
<1> QED BY <1>2, <1>4, <1>5

\* Charges only grow while rows keep their unit and what was taken of them.
ChargesKept(a, b) ==
    /\ b.back = a.back
    /\ \A l \in Lots :
          /\ b.lot[l].repaid >= a.lot[l].repaid
          /\ \/ b.lot[l].unit = a.lot[l].unit
             \/ /\ a.lot[l].repaid = 0
                /\ \A k \in Claws : a.claw[k].took[l] = 0 /\ a.claw[k].paid[l] = 0
    /\ \A k \in Claws :
          \/ a.claw[k] = NoClaw
          \/ /\ b.claw[k].unit = a.claw[k].unit
             /\ b.claw[k].debt >= a.claw[k].debt /\ b.claw[k].dropped >= a.claw[k].dropped
             /\ \A l \in Lots : /\ b.claw[k].took[l] >= a.claw[k].took[l]
                                /\ b.claw[k].paid[l] >= a.claw[k].paid[l]

LEMMA ChargesGrow ==
    ASSUME NEW a \in Account, NEW b \in Account, ChargesKept(a, b)
    PROVE  /\ \A l \in Lots : TakenFrom(a, l) <= TakenFrom(b, l) /\ PaidFrom(a, l) <= PaidFrom(b, l)
           /\ \A u \in Units : ChargedBeyond(a, u) <= ChargedBeyond(b, u)
<1>1. \A k \in Claws : /\ a.claw[k].debt \in Nat /\ a.claw[k].dropped \in Nat
                       /\ b.claw[k].debt \in Nat /\ b.claw[k].dropped \in Nat
                       /\ \A l \in Lots : /\ a.claw[k].took[l] \in Nat /\ a.claw[k].paid[l] \in Nat
                                          /\ b.claw[k].took[l] \in Nat /\ b.claw[k].paid[l] \in Nat
  BY AccountTypes, ClawTypes
<1>2. /\ NoClaw.debt = 0 /\ NoClaw.dropped = 0
      /\ \A l \in Lots : NoClaw.took[l] = 0 /\ NoClaw.paid[l] = 0
  BY DEF NoClaw
<1>3. ASSUME NEW l \in Lots
      PROVE  TakenFrom(a, l) <= TakenFrom(b, l) /\ PaidFrom(a, l) <= PaidFrom(b, l)
  <2> DEFINE f == [k \in Claws |-> a.claw[k].took[l]
                                    + IF a.claw[k].unit = a.lot[l].unit THEN a.claw[k].paid[l] ELSE 0]
             g == [k \in Claws |-> b.claw[k].took[l]
                                    + IF b.claw[k].unit = b.lot[l].unit THEN b.claw[k].paid[l] ELSE 0]
             p == [k \in Claws |-> IF a.claw[k].unit = a.lot[l].unit THEN 0 ELSE a.claw[k].paid[l]]
             q == [k \in Claws |-> IF b.claw[k].unit = b.lot[l].unit THEN 0 ELSE b.claw[k].paid[l]]
  <2>1. ASSUME NEW k \in Claws
        PROVE  /\ f[k] \in Nat /\ g[k] \in Nat /\ f[k] <= g[k]
               /\ p[k] \in Nat /\ q[k] \in Nat /\ p[k] <= q[k]
    <3>1. /\ a.claw[k].took[l] \in Nat /\ a.claw[k].paid[l] \in Nat
          /\ b.claw[k].took[l] \in Nat /\ b.claw[k].paid[l] \in Nat
      BY <1>1
    <3>2. CASE a.claw[k].took[l] = 0 /\ a.claw[k].paid[l] = 0
      BY <3>1, <3>2
    <3>3. CASE /\ b.lot[l].unit = a.lot[l].unit /\ b.claw[k].unit = a.claw[k].unit
               /\ b.claw[k].took[l] >= a.claw[k].took[l]
               /\ b.claw[k].paid[l] >= a.claw[k].paid[l]
      BY <3>1, <3>3
    <3>4. a.claw[k] = NoClaw => a.claw[k].took[l] = 0 /\ a.claw[k].paid[l] = 0
      BY <1>2
    <3> QED BY <3>2, <3>3, <3>4 DEF ChargesKept
  <2>2. \A k \in 1 .. MaxClaw : /\ f[k] \in Nat /\ g[k] \in Nat /\ f[k] <= g[k]
                                /\ p[k] \in Nat /\ q[k] \in Nat /\ p[k] <= q[k]
    BY <2>1 DEF Claws
  <2>3. a.lot[l].repaid \in Nat /\ b.lot[l].repaid \in Nat /\ a.lot[l].repaid <= b.lot[l].repaid
    BY AccountTypes, LotTypes DEF ChargesKept
  <2> HIDE DEF f, g, p, q
  <2>4. SumTo(f, MaxClaw) <= SumTo(g, MaxClaw) /\ SumTo(p, MaxClaw) <= SumTo(q, MaxClaw)
    BY <2>2, Sizes, SumMonotone DEF IntsUpTo
  <2>5. SumTo(p, MaxClaw) \in Nat /\ SumTo(q, MaxClaw) \in Nat
    BY <2>2, Sizes, SumNat
  <2> QED BY <2>3, <2>4, <2>5 DEF f, g, p, q, TakenFrom, PaidFrom
<1>4. ASSUME NEW u \in Units PROVE ChargedBeyond(a, u) <= ChargedBeyond(b, u)
  <2> DEFINE ea(k) == Total([l \in Lots |-> IF l \in OfUnit(a, u) THEN 0 ELSE a.claw[k].paid[l]])
             eb(k) == Total([l \in Lots |-> IF l \in OfUnit(b, u) THEN 0 ELSE b.claw[k].paid[l]])
             f == [k \in Claws |-> IF a.claw[k].unit = u
                                   THEN a.claw[k].debt + a.claw[k].dropped + ea(k) ELSE 0]
             g == [k \in Claws |-> IF b.claw[k].unit = u
                                   THEN b.claw[k].debt + b.claw[k].dropped + eb(k) ELSE 0]
  <2>1. ASSUME NEW k \in Claws PROVE ea(k) \in Nat /\ eb(k) \in Nat
    BY BilledTypes
  <2>2. ASSUME NEW k \in Claws, a.claw[k] = NoClaw \/ \A l \in Lots : b.claw[k].paid[l] >= a.claw[k].paid[l]
        PROVE  ea(k) <= eb(k) \/ a.claw[k] = NoClaw
    <3> SUFFICES ASSUME a.claw[k] # NoClaw PROVE ea(k) <= eb(k)
      OBVIOUS
    <3> DEFINE p == [l \in Lots |-> IF l \in OfUnit(a, u) THEN 0 ELSE a.claw[k].paid[l]]
               q == [l \in Lots |-> IF l \in OfUnit(b, u) THEN 0 ELSE b.claw[k].paid[l]]
    <3>1. ASSUME NEW l \in Lots PROVE p[l] \in Nat /\ q[l] \in Nat /\ p[l] <= q[l]
      <4>1. a.claw[k].paid[l] \in Nat /\ b.claw[k].paid[l] \in Nat /\ b.claw[k].paid[l] >= a.claw[k].paid[l]
        BY <1>1, <2>2
      <4>2. b.lot[l].unit = a.lot[l].unit \/ a.claw[k].paid[l] = 0
        BY DEF ChargesKept
      <4> QED BY <4>1, <4>2 DEF OfUnit
    <3>2. \A l \in 1 .. MaxLot : p[l] \in Nat /\ q[l] \in Nat /\ p[l] <= q[l]
      BY <3>1 DEF Lots
    <3> HIDE DEF p, q
    <3>3. SumTo(p, MaxLot) <= SumTo(q, MaxLot)
      BY <3>2, Sizes, SumMonotone DEF IntsUpTo
    <3> QED BY <3>3 DEF p, q, Total
  <2>3. ASSUME NEW k \in Claws PROVE f[k] \in Nat /\ g[k] \in Nat /\ f[k] <= g[k]
    <3> HIDE DEF ea, eb
    <3>1. /\ ea(k) \in Nat /\ eb(k) \in Nat
          /\ a.claw[k].debt \in Nat /\ a.claw[k].dropped \in Nat
          /\ b.claw[k].debt \in Nat /\ b.claw[k].dropped \in Nat
      BY <1>1, <2>1
    <3>2. CASE a.claw[k] = NoClaw
      <4>1. u # None /\ NoClaw.unit = None
        BY DEF NoClaw
      <4> QED BY <3>1, <3>2, <4>1
    <3>3. CASE a.claw[k] # NoClaw
      <4>1. /\ b.claw[k].unit = a.claw[k].unit
            /\ b.claw[k].debt >= a.claw[k].debt /\ b.claw[k].dropped >= a.claw[k].dropped
            /\ \A l \in Lots : b.claw[k].paid[l] >= a.claw[k].paid[l]
        BY <3>3 DEF ChargesKept
      <4>2. ea(k) <= eb(k)
        BY <2>2, <3>3, <4>1
      <4> QED BY <3>1, <4>1, <4>2
    <3> QED BY <3>2, <3>3
  <2>4. \A k \in 1 .. MaxClaw : f[k] \in Nat /\ g[k] \in Nat /\ f[k] <= g[k]
    <3> HIDE DEF f, g
    <3> QED BY <2>3 DEF Claws
  <2>5. BilledOf(a, u) = SumTo(f, MaxClaw) /\ BilledOf(b, u) = SumTo(g, MaxClaw)
    BY DEF BilledOf
  <2> HIDE DEF f, g
  <2>6. SumTo(f, MaxClaw) <= SumTo(g, MaxClaw) /\ SumTo(f, MaxClaw) \in Nat /\ SumTo(g, MaxClaw) \in Nat
    BY <2>4, Sizes, SumMonotone, SumNat DEF IntsUpTo
  <2>7. b.back = a.back /\ a.back.excused[u] \in Nat /\ a.back.undone[u] \in Nat
    BY BackTypes DEF ChargesKept
  <2> QED BY <2>5, <2>6, <2>7 DEF ChargedBeyond
<1> QED BY <1>3, <1>4

\* What may be taken back of a unit's charges, and what was given into a lot.
LEMMA ChargedTypes ==
    ASSUME NEW a \in Account, NEW u \in Units
    PROVE  ChargedBeyond(a, u) \in Int
  BY BilledTypes, BackTypes DEF ChargedBeyond

LEMMA GivenTypes ==
    ASSUME NEW a \in Account, NEW l \in Lots
    PROVE  GivenInto(a, l) \in Nat
<1>1. a.back.restored[l] \in Nat /\ a.back.returned[l] \in Nat /\ a.lot[l].granted \in Nat
  BY BackTypes, AccountTypes, LotTypes
<1> QED BY <1>1 DEF GivenInto

\* What a sound account is, of one that has the lots of another.
LEMMA SoundAgain ==
    ASSUME NEW a, NEW b, Sound(a), b \in Account,
           \A l \in Lots :
              /\ b.lot[l].seq = a.lot[l].seq /\ b.lot[l].granted = a.lot[l].granted
              /\ b.lot[l].held <= b.lot[l].remaining
              /\ b.lot[l].granted + b.back.restored[l] + b.back.returned[l]
                 = b.lot[l].remaining + b.lot[l].expired + b.lot[l].spent + b.lot[l].repaid
                    + Clawed(b, l)
              /\ b.back.restored[l] <= TakenFrom(b, l)
              /\ b.back.returned[l] <= PaidFrom(b, l)
              /\ ~ Exists(a, l) => b.back.restored[l] = 0 /\ b.back.returned[l] = 0,
           \A k \in Claws : ClawIsSound(b, k),
           \A u \in Units : ChargedBeyond(b, u) >= 0,
           b.debt = DebtMade(b) - Repaid(b) - b.forgiven
    PROVE  Sound(b)
<1>1. \A l \in Lots : LotIsSound(b, l)
  BY DEF Sound, LotIsSound, Exists
<1>2. SeqIsSound(b)
  <2>1. \A l \in Lots : Exists(b, l) <=> Exists(a, l)
    BY DEF Exists
  <2>2. {m \in Lots : Exists(b, m)} = {m \in Lots : Exists(a, m)}
    BY <2>1
  <2>3. SeqIsSound(a)
    BY DEF Sound
  <2> QED BY <2>1, <2>2, <2>3 DEF SeqIsSound
<1> QED BY <1>1, <1>2 DEF Sound

\* An account stays sound when each lot's books and the debt's do, and nothing
\* is given back.
LEMMA StaysSound ==
    ASSUME NEW a, NEW b, Sound(a), b \in Account, ChargesKept(a, b),
           \A l \in Lots :
              /\ b.lot[l].seq = a.lot[l].seq /\ b.lot[l].granted = a.lot[l].granted
              /\ b.lot[l].held <= b.lot[l].remaining
              /\ b.lot[l].remaining + b.lot[l].expired + b.lot[l].spent + b.lot[l].repaid
                    + Clawed(b, l)
                 = a.lot[l].remaining + a.lot[l].expired + a.lot[l].spent + a.lot[l].repaid
                    + Clawed(a, l),
           \A k \in Claws : ClawIsSound(b, k),
           b.debt - DebtMade(b) + Repaid(b) + b.forgiven
              = a.debt - DebtMade(a) + Repaid(a) + a.forgiven
    PROVE  Sound(b)
<1>1. /\ a \in Account /\ b.back = a.back
      /\ DebtMade(a) \in Nat /\ Repaid(a) \in Nat /\ a.debt \in Nat /\ a.forgiven \in Nat
      /\ DebtMade(b) \in Nat /\ Repaid(b) \in Nat /\ b.debt \in Nat /\ b.forgiven \in Nat
  BY AmountTypes, AccountTypes DEF Sound, ChargesKept
<1>2. b.debt = DebtMade(b) - Repaid(b) - b.forgiven
  BY <1>1 DEF Sound
<1>3. ASSUME NEW l \in Lots
      PROVE  /\ b.lot[l].granted + b.back.restored[l] + b.back.returned[l]
                = b.lot[l].remaining + b.lot[l].expired + b.lot[l].spent + b.lot[l].repaid
                   + Clawed(b, l)
             /\ b.back.restored[l] <= TakenFrom(b, l) /\ b.back.returned[l] <= PaidFrom(b, l)
             /\ ~ Exists(a, l) => b.back.restored[l] = 0 /\ b.back.returned[l] = 0
  <2>1. LotIsSound(a, l)
    BY DEF Sound
  <2>2. TakenFrom(a, l) <= TakenFrom(b, l) /\ PaidFrom(a, l) <= PaidFrom(b, l)
    BY <1>1, ChargesGrow
  <2>3. /\ TakenFrom(a, l) \in Nat /\ PaidFrom(a, l) \in Nat
        /\ TakenFrom(b, l) \in Nat /\ PaidFrom(b, l) \in Nat
        /\ a.back.restored[l] \in Nat /\ a.back.returned[l] \in Nat
    BY <1>1, TakenAndPaid, BackTypes
  <2> QED BY <1>1, <2>1, <2>2, <2>3 DEF LotIsSound
<1>4. ASSUME NEW u \in Units PROVE ChargedBeyond(b, u) >= 0
  <2>1. ChargedBeyond(a, u) >= 0 /\ ChargedBeyond(a, u) <= ChargedBeyond(b, u)
    BY <1>1, ChargesGrow DEF Sound
  <2>2. ChargedBeyond(a, u) \in Int /\ ChargedBeyond(b, u) \in Int
    BY <1>1, ChargedTypes
  <2> QED BY <2>1, <2>2
<1> QED BY <1>2, <1>3, <1>4, SoundAgain

-----------------------------------------------------------------------------
(* Steps that move lots only: expiry and the repayment of debt *)

LEMMA ClawsSame ==
    ASSUME NEW a, NEW b, a \in Account, b.claw = a.claw
    PROVE  /\ \A l \in Lots : Clawed(b, l) = Clawed(a, l)
           /\ DebtMade(b) = DebtMade(a) /\ Charged(b) = Charged(a)
           /\ PendingClaimTotal(b) = PendingClaimTotal(a)
           /\ \A u : Alone(b, u) <=> Alone(a, u)
  BY DEF Clawed, DebtMade, Charged, PendingClaimTotal, Alone

LEMMA LotsOnly ==
    ASSUME NEW a, NEW b, Sound(a), b \in Account,
           b.claw = a.claw, b.forgiven = a.forgiven, b.back = a.back,
           \A l \in Lots :
              /\ b.lot[l].seq = a.lot[l].seq /\ b.lot[l].granted = a.lot[l].granted
              /\ b.lot[l].unit = a.lot[l].unit /\ b.lot[l].repaid >= a.lot[l].repaid
              /\ b.lot[l].held <= b.lot[l].remaining
              /\ b.lot[l].remaining + b.lot[l].expired + b.lot[l].spent + b.lot[l].repaid
                 = a.lot[l].remaining + a.lot[l].expired + a.lot[l].spent + a.lot[l].repaid,
           b.debt + Repaid(b) = a.debt + Repaid(a)
    PROVE  Sound(b)
<1>1. a \in Account
  BY DEF Sound
<1>2. /\ \A l \in Lots : Clawed(b, l) = Clawed(a, l) /\ Clawed(a, l) \in Nat
      /\ DebtMade(b) = DebtMade(a)
  BY <1>1, ClawsSame, AmountTypes
<1>3. \A k \in Claws : ClawIsSound(b, k)
  <2> SUFFICES ASSUME NEW k \in Claws PROVE ClawIsSound(b, k)
    OBVIOUS
  <2>1. ClawIsSound(a, k)
    BY DEF Sound
  <2> QED BY <2>1 DEF ClawIsSound
<1>4. ASSUME NEW l \in Lots
      PROVE  b.lot[l].remaining + b.lot[l].expired + b.lot[l].spent + b.lot[l].repaid
                + Clawed(b, l)
             = a.lot[l].remaining + a.lot[l].expired + a.lot[l].spent + a.lot[l].repaid
                + Clawed(a, l)
  BY <1>2
<1>5. /\ DebtMade(a) \in Nat /\ Repaid(a) \in Nat /\ a.debt \in Nat /\ a.forgiven \in Nat
      /\ Repaid(b) \in Nat /\ b.debt \in Nat
  BY <1>1, AmountTypes, AccountTypes
<1>6. b.debt - DebtMade(b) + Repaid(b) + b.forgiven
         = a.debt - DebtMade(a) + Repaid(a) + a.forgiven
  BY <1>2, <1>5
<1>7. ChargesKept(a, b)
  <2>1. ASSUME NEW k \in Claws
        PROVE  /\ a.claw[k].debt >= a.claw[k].debt /\ a.claw[k].dropped >= a.claw[k].dropped
               /\ \A l \in Lots : /\ a.claw[k].took[l] >= a.claw[k].took[l]
                                  /\ a.claw[k].paid[l] >= a.claw[k].paid[l]
    BY <1>1, AccountTypes, ClawTypes
  <2> QED BY <2>1 DEF ChargesKept
<1> QED BY <1>3, <1>4, <1>6, <1>7, StaysSound

LEMMA FreeTypes ==
    ASSUME NEW a, Sound(a)
    PROVE  \A l \in Lots : /\ Free(a, l) \in Nat /\ Free(a, l) <= a.lot[l].remaining
                           /\ Free(a, l) <= EverHeld(a, l) /\ EverHeld(a, l) \in Nat
                           /\ Spendable(a)[l] \in Nat /\ Spendable(a)[l] <= Free(a, l)
                           /\ a.lot[l].granted = 0 => EverHeld(a, l) = 0
                           /\ EverHeld(a, l) = a.lot[l].granted - a.lot[l].expired
                           /\ a.lot[l].remaining <= a.lot[l].granted
<1> SUFFICES ASSUME NEW l \in Lots
             PROVE  /\ Free(a, l) \in Nat /\ Free(a, l) <= a.lot[l].remaining
                    /\ Free(a, l) <= EverHeld(a, l) /\ EverHeld(a, l) \in Nat
                    /\ Spendable(a)[l] \in Nat /\ Spendable(a)[l] <= Free(a, l)
                    /\ a.lot[l].granted = 0 => EverHeld(a, l) = 0
                    /\ EverHeld(a, l) = a.lot[l].granted - a.lot[l].expired
                    /\ a.lot[l].remaining <= a.lot[l].granted
  OBVIOUS
<1>1. a \in Account /\ a.lot[l] \in Lot /\ LotIsSound(a, l) /\ Clawed(a, l) \in Nat
  BY AccountTypes, AmountTypes DEF Sound
<1>2. Free(a, l) \in Nat /\ Free(a, l) <= a.lot[l].remaining
  BY <1>1, LotTypes DEF Free, LotIsSound
<1>5. a.lot[l].remaining + a.lot[l].expired + a.lot[l].spent <= a.lot[l].granted
  <2>1. /\ TakenFrom(a, l) \in Nat /\ PaidFrom(a, l) \in Nat
        /\ TakenFrom(a, l) + PaidFrom(a, l) = Clawed(a, l) + a.lot[l].repaid
        /\ a.back.restored[l] \in Nat /\ a.back.returned[l] \in Nat
    BY <1>1, TakenAndPaid, BackTypes
  <2> QED BY <1>1, <2>1, LotTypes DEF LotIsSound
<1>3. /\ EverHeld(a, l) \in Nat /\ Free(a, l) <= EverHeld(a, l)
      /\ a.lot[l].granted = 0 => EverHeld(a, l) = 0
      /\ EverHeld(a, l) = a.lot[l].granted - a.lot[l].expired
  BY <1>1, <1>5, LotTypes DEF Free, LotIsSound, EverHeld, Natural
<1>4. Spendable(a)[l] = IF Done(a, l) THEN 0 ELSE Free(a, l)
  BY DEF Spendable
<1>6. a.lot[l].remaining <= a.lot[l].granted
  BY <1>1, <1>5, LotTypes
<1> QED BY <1>2, <1>3, <1>4, <1>6

LEMMA ExpireKeeps ==
    ASSUME NEW a, Sound(a), NEW b, b = ExpireDueLots(a)
    PROVE  /\ Sound(b) /\ b.claw = a.claw /\ b.debt = a.debt /\ b.back = a.back
           /\ \A l \in Lots :
                 /\ b.lot[l].rank = a.lot[l].rank /\ b.lot[l].granted = a.lot[l].granted
                 /\ b.lot[l].seq = a.lot[l].seq
                 /\ b.lot[l].unit = a.lot[l].unit /\ b.lot[l].held = a.lot[l].held
                 /\ b.lot[l].spent = a.lot[l].spent /\ b.lot[l].repaid = a.lot[l].repaid
                 /\ b.lot[l].remaining <= a.lot[l].remaining
<1> DEFINE gone(l) == IF Done(a, l) THEN Free(a, l) ELSE 0
           row == [l \in Lots |-> [a.lot[l] EXCEPT !.remaining = @ - gone(l),
                                                  !.expired = @ + gone(l)]]
<1>1. a \in Account /\ \A l \in Lots : a.lot[l] \in Lot
  BY AccountTypes DEF Sound
<1>2. ASSUME NEW l \in Lots
      PROVE  /\ row[l] \in Lot /\ row[l].unit = a.lot[l].unit /\ row[l].seq = a.lot[l].seq
             /\ row[l].rank = a.lot[l].rank
             /\ row[l].granted = a.lot[l].granted /\ row[l].held = a.lot[l].held
             /\ row[l].spent = a.lot[l].spent /\ row[l].repaid = a.lot[l].repaid
             /\ row[l].remaining <= a.lot[l].remaining
             /\ row[l].held <= row[l].remaining
             /\ row[l].remaining + row[l].expired = a.lot[l].remaining + a.lot[l].expired
  <2>1. a.lot[l] \in Lot /\ LotIsSound(a, l) /\ Free(a, l) \in Nat
    BY <1>1, FreeTypes DEF Sound
  <2>2. PICK g \in Nat : g = gone(l)
    BY <2>1
  <2>3. g <= a.lot[l].remaining /\ g <= a.lot[l].remaining - a.lot[l].held
    BY <2>1, <2>2, LotTypes DEF Free, LotIsSound
  <2>4. row[l] = [a.lot[l] EXCEPT !.remaining = @ - g, !.expired = @ + g]
    BY <2>2
  <2> HIDE DEF row, gone
  <2>5. /\ row[l] \in Lot /\ row[l].unit = a.lot[l].unit /\ row[l].seq = a.lot[l].seq
        /\ row[l].rank = a.lot[l].rank
        /\ row[l].granted = a.lot[l].granted /\ row[l].held = a.lot[l].held
        /\ row[l].spent = a.lot[l].spent /\ row[l].repaid = a.lot[l].repaid
        /\ row[l].remaining = a.lot[l].remaining - g
        /\ row[l].expired = a.lot[l].expired + g
    <3>1. PICK q \in Lot : q = a.lot[l]
      BY <2>1
    <3>2. PICK r : r = row[l]
      OBVIOUS
    <3>3. q.remaining - g \in Nat /\ q.expired + g \in Nat
      BY <2>3, <3>1, LotTypes
    <3>6. PICK m \in Nat : m = q.remaining - g
      BY <3>3
    <3>7. PICK n \in Nat : n = q.expired + g
      BY <3>3
    <3>5. r = [q EXCEPT !.remaining = m, !.expired = n]
      BY <2>4, <3>1, <3>2, <3>6, <3>7
    <3>4. /\ r \in Lot /\ r.unit = q.unit /\ r.seq = q.seq /\ r.rank = q.rank
          /\ r.granted = q.granted /\ r.held = q.held /\ r.spent = q.spent
          /\ r.repaid = q.repaid
          /\ r.remaining = q.remaining - g /\ r.expired = q.expired + g
      <4>1. /\ r \in Lot /\ r.unit = q.unit /\ r.seq = q.seq /\ r.rank = q.rank
            /\ r.granted = q.granted /\ r.held = q.held /\ r.spent = q.spent
            /\ r.repaid = q.repaid /\ r.remaining = m /\ r.expired = n
        BY <3>5 DEF Lot
      <4> QED BY <3>6, <3>7, <4>1
    <3> QED BY <3>1, <3>2, <3>4
  <2> QED BY <2>1, <2>3, <2>5, LotTypes
<1>3. b = [a EXCEPT !.lot = row]
  BY DEF ExpireDueLots
<1>4. row \in [Lots -> Lot]
  BY <1>2
<1> HIDE DEF row, gone
<1>5. /\ b \in Account /\ b.lot = row /\ b.claw = a.claw /\ b.debt = a.debt
      /\ b.forgiven = a.forgiven /\ b.back = a.back
  BY <1>1, <1>3, <1>4 DEF Account
<1>6. Repaid(b) = Repaid(a)
  <2>1. \A l \in Lots : b.lot[l].repaid = a.lot[l].repaid
    BY <1>2, <1>5
  <2> QED BY <2>1 DEF Repaid
<1>7. ASSUME NEW l \in Lots
      PROVE  b.lot[l].remaining + b.lot[l].expired + b.lot[l].spent + b.lot[l].repaid
             = a.lot[l].remaining + a.lot[l].expired + a.lot[l].spent + a.lot[l].repaid
  <2>1. a.lot[l] \in Lot /\ row[l] \in Lot
    BY <1>1, <1>2
  <2> QED BY <1>2, <1>5, <2>1, LotTypes
<1>9. \A l \in Lots : b.lot[l].repaid >= a.lot[l].repaid
  <2> SUFFICES ASSUME NEW l \in Lots PROVE b.lot[l].repaid >= a.lot[l].repaid
    OBVIOUS
  <2>1. b.lot[l].repaid = a.lot[l].repaid /\ a.lot[l].repaid \in Nat
    BY <1>1, <1>2, <1>5, LotTypes
  <2> QED BY <2>1
<1>10. b.debt + Repaid(b) = a.debt + Repaid(a)
  BY <1>5, <1>6
<1>8. Sound(b)
  BY <1>2, <1>5, <1>7, <1>9, <1>10, LotsOnly
<1> QED BY <1>2, <1>5, <1>8

LEMMA SettleDebtKeeps ==
    ASSUME NEW a, Sound(a), NEW b, b = SettleDebtFromFree(a)
    PROVE  /\ Sound(b) /\ b.claw = a.claw /\ b.back = a.back
           /\ \A l \in Lots :
                 /\ b.lot[l].rank = a.lot[l].rank /\ b.lot[l].granted = a.lot[l].granted
                 /\ b.lot[l].seq = a.lot[l].seq
                 /\ b.lot[l].unit = a.lot[l].unit /\ b.lot[l].held = a.lot[l].held
                 /\ b.lot[l].spent = a.lot[l].spent /\ b.lot[l].repaid >= a.lot[l].repaid
                 /\ b.lot[l].remaining <= a.lot[l].remaining
           /\ b.debt > 0 => SpendableMicro(b) = 0
<1> DEFINE pot == Spendable(a)
           repay == [l \in Lots |-> Waterfall(a.debt, pot, l)]
           row == [l \in Lots |-> [a.lot[l] EXCEPT !.remaining = @ - repay[l],
                                                  !.repaid = @ + repay[l]]]
<1>1. a \in Account /\ a.debt \in Nat /\ \A l \in Lots : a.lot[l] \in Lot
  BY AccountTypes DEF Sound
<1>2. \A l \in Lots : pot[l] \in Nat /\ pot[l] <= Free(a, l)
  BY FreeTypes
<1>3. b = [a EXCEPT !.debt = @ - Total(repay), !.lot = row]
  BY DEF SettleDebtFromFree
<1>4. \A l \in Lots : repay[l] = Waterfall(a.debt, pot, l)
  OBVIOUS
<1> HIDE DEF repay, pot
<1>5. /\ \A l \in Lots : repay[l] \in Nat /\ repay[l] <= pot[l]
      /\ Total(repay) = Least(a.debt, Total(pot))
      /\ Total(pot) \in Nat /\ Total(repay) \in Nat
  <2>1. \A l \in 1 .. MaxLot : pot[l] \in Nat
    BY <1>2 DEF Lots
  <2>2. \A l \in 1 .. MaxLot : repay[l] = Waterfall(a.debt, pot, l)
    BY <1>4 DEF Lots
  <2>3. /\ \A i \in 1 .. MaxLot : repay[i] \in Nat /\ repay[i] <= pot[i]
        /\ SumTo(repay, MaxLot) = Least(a.debt, SumTo(pot, MaxLot))
        /\ SumTo(pot, MaxLot) \in Nat
    BY <1>1, <2>1, <2>2, Sizes, WaterfallFits
  <2>4. SumTo(repay, MaxLot) \in Nat
    BY <2>3, Sizes, SumNat
  <2> QED BY <2>3, <2>4 DEF Total, Lots
<1>6. ASSUME NEW l \in Lots
      PROVE  /\ row[l] \in Lot /\ row[l].unit = a.lot[l].unit /\ row[l].seq = a.lot[l].seq
             /\ row[l].ends = a.lot[l].ends /\ row[l].expired = a.lot[l].expired
             /\ row[l].granted = a.lot[l].granted /\ row[l].held = a.lot[l].held
             /\ row[l].spent = a.lot[l].spent /\ row[l].rank = a.lot[l].rank
             /\ row[l].held <= row[l].remaining
             /\ row[l].remaining = a.lot[l].remaining - repay[l]
             /\ row[l].repaid = a.lot[l].repaid + repay[l]
  <2>1. a.lot[l] \in Lot /\ LotIsSound(a, l)
    BY <1>1 DEF Sound
  <2>2. repay[l] \in Nat /\ repay[l] <= a.lot[l].remaining - a.lot[l].held
    BY <1>2, <1>5, <2>1, LotTypes DEF Free
  <2>3. PICK q \in Lot : q = a.lot[l]
    BY <2>1
  <2>4. PICK m \in Nat : m = q.remaining - repay[l]
    BY <2>2, <2>3, LotTypes
  <2>5. PICK n \in Nat : n = q.repaid + repay[l]
    BY <2>2, <2>3, LotTypes
  <2>6. row[l] = [q EXCEPT !.remaining = m, !.repaid = n]
    BY <2>3, <2>4, <2>5
  <2>7. PICK r : r = row[l]
    OBVIOUS
  <2> HIDE DEF row
  <2>8. r = [q EXCEPT !.remaining = m, !.repaid = n]
    BY <2>6, <2>7
  <2>9. /\ r \in Lot /\ r.unit = q.unit /\ r.ends = q.ends /\ r.seq = q.seq
        /\ r.granted = q.granted /\ r.held = q.held /\ r.spent = q.spent /\ r.rank = q.rank
        /\ r.expired = q.expired /\ r.remaining = m /\ r.repaid = n
    BY <2>8 DEF Lot
  <2>10. m = a.lot[l].remaining - repay[l] /\ n = a.lot[l].repaid + repay[l]
    BY <2>3, <2>4, <2>5
  <2>11. r.held <= r.remaining
    BY <2>1, <2>2, <2>3, <2>9, <2>10, LotTypes
  <2> QED BY <2>3, <2>7, <2>9, <2>10, <2>11
<1>7. row \in [Lots -> Lot]
  BY <1>6
<1> HIDE DEF row
<1>8. /\ b \in Account /\ b.lot = row /\ b.claw = a.claw /\ b.debt = a.debt - Total(repay)
      /\ b.forgiven = a.forgiven /\ b.back = a.back
  <2>1. PICK d \in Nat : d = a.debt - Total(repay)
    BY <1>1, <1>5 DEF Least
  <2>2. b = [a EXCEPT !.debt = d, !.lot = row]
    BY <1>3, <2>1
  <2>3. /\ b \in Account /\ b.lot = row /\ b.claw = a.claw /\ b.debt = d
        /\ b.forgiven = a.forgiven /\ b.back = a.back
    BY <1>1, <1>7, <2>2 DEF Account
  <2> QED BY <2>1, <2>3
<1>9. Repaid(b) = Repaid(a) + Total(repay)
  <2> DEFINE f == [l \in Lots |-> a.lot[l].repaid]
             g == [l \in Lots |-> b.lot[l].repaid]
  <2>1. \A l \in 1 .. MaxLot : f[l] \in Nat /\ repay[l] \in Nat /\ g[l] = f[l] + repay[l]
    <3> SUFFICES ASSUME NEW l \in Lots
                 PROVE  f[l] \in Nat /\ repay[l] \in Nat /\ g[l] = f[l] + repay[l]
      BY DEF Lots
    <3> QED BY <1>1, <1>5, <1>6, <1>8, LotTypes
  <2> HIDE DEF f, g
  <2>2. IntsUpTo(f, MaxLot) /\ IntsUpTo(repay, MaxLot)
    BY <2>1 DEF IntsUpTo
  <2>3. SumTo(g, MaxLot) = SumTo(f, MaxLot) + SumTo(repay, MaxLot)
    BY <2>1, <2>2, Sizes, SumAdd
  <2> QED BY <2>3 DEF f, g, Repaid, Total
<1>10. ASSUME NEW l \in Lots
      PROVE  b.lot[l].remaining + b.lot[l].expired + b.lot[l].spent + b.lot[l].repaid
             = a.lot[l].remaining + a.lot[l].expired + a.lot[l].spent + a.lot[l].repaid
  <2>1. a.lot[l] \in Lot /\ row[l] \in Lot /\ repay[l] \in Nat
    BY <1>1, <1>5, <1>6
  <2> QED BY <1>6, <1>8, <2>1, LotTypes
<1>13. ASSUME NEW l \in Lots
      PROVE  b.lot[l].repaid >= a.lot[l].repaid /\ b.lot[l].remaining <= a.lot[l].remaining
  <2>1. a.lot[l] \in Lot /\ repay[l] \in Nat /\ b.lot[l] = row[l]
    BY <1>1, <1>5, <1>8
  <2> QED BY <1>6, <2>1, LotTypes
<1>11. Sound(b)
  <2>1. b.debt + Repaid(b) = a.debt + Repaid(a)
    BY <1>1, <1>5, <1>8, <1>9, AmountTypes
  <2> QED BY <1>6, <1>8, <1>10, <1>13, <2>1, LotsOnly
<1>12. ASSUME b.debt > 0 PROVE SpendableMicro(b) = 0
  <2>1. Total(repay) = Total(pot)
    BY <1>1, <1>5, <1>8, <1>12 DEF Least
  <2>2. ASSUME NEW l \in Lots PROVE Spendable(b)[l] = pot[l] - repay[l]
    <3>1. a.lot[l] \in Lot /\ b.lot[l] = row[l]
      BY <1>1, <1>8
    <3>2. Done(b, l) <=> Done(a, l)
      BY <1>6, <3>1 DEF Done
    <3>3. Free(b, l) = Free(a, l) - repay[l]
      BY <1>5, <1>6, <3>1, LotTypes DEF Free
    <3>4. pot[l] = IF Done(a, l) THEN 0 ELSE Free(a, l)
      BY DEF pot, Spendable
    <3>5. Spendable(b)[l] = IF Done(b, l) THEN 0 ELSE Free(b, l)
      BY DEF Spendable
    <3>6. repay[l] \in Nat /\ repay[l] <= pot[l]
      BY <1>5
    <3> QED BY <3>2, <3>3, <3>4, <3>5, <3>6
  <2>3. \A l \in 1 .. MaxLot : /\ Spendable(b)[l] = pot[l] - repay[l]
                               /\ pot[l] \in Nat /\ repay[l] \in Nat
    BY <1>2, <1>5, <2>2 DEF Lots
  <2>4. IntsUpTo(pot, MaxLot) /\ IntsUpTo(repay, MaxLot)
    BY <2>3 DEF IntsUpTo
  <2>5. SumTo(Spendable(b), MaxLot) = SumTo(pot, MaxLot) - SumTo(repay, MaxLot)
    BY <2>3, <2>4, Sizes, SumSubtract
  <2> QED BY <1>5, <2>1, <2>5 DEF SpendableMicro, Total
<1> QED BY <1>6, <1>8, <1>11, <1>12, <1>13

\* A row that was never inserted is empty, and no clawback took anything from it.
LEMMA UnusedRow ==
    ASSUME NEW a, Sound(a), NEW l \in Lots, ~ Exists(a, l)
    PROVE  /\ a.lot[l].granted = 0 /\ a.lot[l].remaining = 0 /\ a.lot[l].held = 0
           /\ a.lot[l].spent = 0 /\ a.lot[l].repaid = 0 /\ Clawed(a, l) = 0
           /\ \A k \in Claws : a.claw[k].took[l] = 0 /\ a.claw[k].paid[l] = 0
           /\ a.back.restored[l] = 0 /\ a.back.returned[l] = 0
           /\ GivenInto(a, l) = 0 /\ Free(a, l) = 0
<1>1. a \in Account /\ a.lot[l] \in Lot /\ LotIsSound(a, l) /\ Clawed(a, l) \in Nat
  BY AccountTypes, AmountTypes DEF Sound
<1>2. /\ a.lot[l].granted = 0 /\ a.lot[l].remaining = 0 /\ a.lot[l].held = 0
      /\ a.lot[l].spent = 0 /\ a.lot[l].repaid = 0 /\ Clawed(a, l) = 0
  <2>1. a.lot[l].granted = 0
    BY <1>1 DEF LotIsSound
  <2>2. 0 = a.lot[l].remaining + a.lot[l].expired + a.lot[l].spent + a.lot[l].repaid
            + Clawed(a, l)
    BY <1>1, <2>1 DEF LotIsSound
  <2>3. /\ a.lot[l].remaining = 0 /\ a.lot[l].spent = 0 /\ a.lot[l].repaid = 0
        /\ Clawed(a, l) = 0
    <3>1. PICK q \in Lot, c \in Nat : q = a.lot[l] /\ c = Clawed(a, l)
      BY <1>1
    <3>2. PICK m \in Nat, x \in Nat, s \in Nat, r \in Nat :
             m = q.remaining /\ x = q.expired /\ s = q.spent /\ r = q.repaid
      BY LotTypes
    <3>3. 0 = m + x + s + r + c
      BY ONLY <2>2, <3>1, <3>2
    <3>4. m = 0 /\ s = 0 /\ r = 0 /\ c = 0
      BY ONLY <3>3
    <3> QED BY ONLY <3>1, <3>2, <3>4
  <2>4. a.lot[l].held = 0
    BY <1>1, <2>3, LotTypes DEF LotIsSound
  <2> QED BY <2>1, <2>3, <2>4
<1>3. ASSUME NEW k \in Claws PROVE a.claw[k].took[l] = 0 /\ a.claw[k].paid[l] = 0
  <2> DEFINE f == [j \in Claws |-> a.claw[j].took[l] + a.claw[j].paid[l]]
  <2>1. \A j \in Claws : a.claw[j].took[l] \in Nat /\ a.claw[j].paid[l] \in Nat
    BY <1>1, AccountTypes, ClawTypes
  <2>2. \A j \in 1 .. MaxClaw : f[j] \in Nat
    BY <2>1 DEF Claws
  <2>3. k \in 1 .. MaxClaw /\ f[k] = a.claw[k].took[l] + a.claw[k].paid[l]
    BY DEF Claws
  <2>4. SumTo(f, MaxClaw) = 0
    BY <1>2 DEF Clawed
  <2> HIDE DEF f
  <2>5. f[k] <= 0
    BY <2>2, <2>3, <2>4, Sizes, SumCovers
  <2> QED BY <2>1, <2>3, <2>5
<1>4. a.back.restored[l] = 0 /\ a.back.returned[l] = 0
  BY <1>1 DEF LotIsSound
<1>5. GivenInto(a, l) = 0 /\ Free(a, l) = 0
  BY <1>2, <1>4 DEF GivenInto, Free
<1> QED BY <1>2, <1>3, <1>4, <1>5

\* What only a task changes, and claims that stand on held credit.
Keeps(a, b) ==
    /\ \A l \in Lots : b.lot[l].held = a.lot[l].held /\ b.lot[l].spent = a.lot[l].spent
    /\ \A k \in Claws : a.claw[k].state = "applied" =>
          /\ b.claw[k].state = "applied" /\ b.claw[k].unit = a.claw[k].unit
          /\ b.claw[k].debt = a.claw[k].debt /\ b.claw[k].pending <= a.claw[k].pending
    /\ PendingClaimTotal(b) > PendingClaimTotal(a) => PendingClaimTotal(b) <= HeldMicro(b)

\* What is free in a lot and was not given into it.
Own(a, l) == Free(a, l) - GivenInto(a, l)

\* No lot gains free credit but what is given into it, and a new claim or debt
\* finds no other in its lots.
Lowers(a, b) ==
    /\ \A l \in Lots :
          /\ Own(b, l) <= Own(a, l) /\ GivenInto(b, l) >= GivenInto(a, l)
          /\ Exists(a, l) => Exists(b, l) /\ b.lot[l].unit = a.lot[l].unit
    /\ \A k \in Claws :
          a.claw[k].state = "none" /\ b.claw[k].pending + b.claw[k].debt > 0
             => \A l \in OfUnit(b, b.claw[k].unit) : Free(b, l) <= GivenInto(b, l) - GivenInto(a, l)

LEMMA OwnTypes ==
    ASSUME NEW a, Sound(a), NEW l \in Lots
    PROVE  Own(a, l) \in Int /\ Free(a, l) \in Nat /\ GivenInto(a, l) \in Nat
<1>1. Free(a, l) \in Nat /\ GivenInto(a, l) \in Nat
  BY FreeTypes, GivenTypes DEF Sound
<1> QED BY <1>1 DEF Own

LEMMA HeldSame ==
    ASSUME NEW a, NEW b, \A l \in Lots : b.lot[l].held = a.lot[l].held
    PROVE  HeldMicro(b) = HeldMicro(a)
  BY DEF HeldMicro

LEMMA KeepsOn ==
    ASSUME NEW a, NEW b, NEW c, a \in Account, b \in Account, c \in Account,
           Keeps(a, b), Keeps(b, c)
    PROVE  Keeps(a, c)
<1>1. /\ PendingClaimTotal(a) \in Nat /\ PendingClaimTotal(b) \in Nat
      /\ PendingClaimTotal(c) \in Nat /\ HeldMicro(b) \in Nat /\ HeldMicro(c) \in Nat
  BY AmountTypes
<1>2. HeldMicro(c) = HeldMicro(b)
  BY HeldSame DEF Keeps
<1>3. PendingClaimTotal(c) > PendingClaimTotal(a) => PendingClaimTotal(c) <= HeldMicro(c)
  BY <1>1, <1>2 DEF Keeps
<1>4. ASSUME NEW k \in Claws, a.claw[k].state = "applied"
      PROVE  /\ c.claw[k].state = "applied" /\ c.claw[k].unit = a.claw[k].unit
             /\ c.claw[k].debt = a.claw[k].debt /\ c.claw[k].pending <= a.claw[k].pending
  <2>1. /\ b.claw[k].state = "applied" /\ b.claw[k].unit = a.claw[k].unit
        /\ b.claw[k].debt = a.claw[k].debt /\ b.claw[k].pending <= a.claw[k].pending
    BY <1>4 DEF Keeps
  <2>2. /\ c.claw[k].state = "applied" /\ c.claw[k].unit = b.claw[k].unit
        /\ c.claw[k].debt = b.claw[k].debt /\ c.claw[k].pending <= b.claw[k].pending
    BY <2>1 DEF Keeps
  <2>3. /\ a.claw[k].pending \in Nat /\ b.claw[k].pending \in Nat /\ c.claw[k].pending \in Nat
    BY AccountTypes, ClawTypes
  <2> QED BY <2>1, <2>2, <2>3
<1> QED BY <1>3, <1>4 DEF Keeps

LEMMA LowersOn ==
    ASSUME NEW a, NEW b, NEW c, Sound(a), Sound(b), Sound(c),
           Lowers(a, b), Lowers(b, c), Keeps(b, c)
    PROVE  Lowers(a, c)
<1>1. ASSUME NEW l \in Lots
      PROVE  /\ Own(c, l) <= Own(a, l) /\ GivenInto(c, l) >= GivenInto(a, l)
             /\ Exists(a, l) => Exists(c, l) /\ c.lot[l].unit = a.lot[l].unit
  <2>1. Own(b, l) <= Own(a, l) /\ GivenInto(b, l) >= GivenInto(a, l)
    BY DEF Lowers
  <2>2. Own(c, l) <= Own(b, l) /\ GivenInto(c, l) >= GivenInto(b, l)
    BY DEF Lowers
  <2>3. /\ Own(a, l) \in Int /\ Own(b, l) \in Int /\ Own(c, l) \in Int
        /\ GivenInto(a, l) \in Nat /\ GivenInto(b, l) \in Nat /\ GivenInto(c, l) \in Nat
    BY OwnTypes
  <2>4. Exists(a, l) => Exists(c, l) /\ c.lot[l].unit = a.lot[l].unit
    BY DEF Lowers
  <2> QED BY <2>1, <2>2, <2>3, <2>4
<1>2. ASSUME NEW k \in Claws, a.claw[k].state = "none",
             c.claw[k].pending + c.claw[k].debt > 0, NEW l \in OfUnit(c, c.claw[k].unit)
      PROVE  Free(c, l) <= GivenInto(c, l) - GivenInto(a, l)
  <2>1. l \in Lots
    BY DEF OfUnit
  <2>2. b.claw[k].state \in {"none", "applied"}
    BY AccountTypes, ClawTypes DEF Sound
  <2>3. /\ Free(a, l) \in Nat /\ Free(b, l) \in Nat /\ Free(c, l) \in Nat
        /\ GivenInto(a, l) \in Nat /\ GivenInto(b, l) \in Nat /\ GivenInto(c, l) \in Nat
        /\ GivenInto(b, l) >= GivenInto(a, l)
    BY <2>1, OwnTypes DEF Lowers
  <2>4. CASE b.claw[k].state = "none"
    <3>1. Free(c, l) <= GivenInto(c, l) - GivenInto(b, l)
      BY <1>2, <2>4 DEF Lowers
    <3> QED BY <2>3, <3>1
  <2>5. CASE b.claw[k].state = "applied"
    <3>1. /\ c.claw[k].unit = b.claw[k].unit /\ c.claw[k].debt = b.claw[k].debt
          /\ c.claw[k].pending <= b.claw[k].pending
      BY <2>5 DEF Keeps
    <3>2. b.claw[k].pending + b.claw[k].debt > 0
      <4>1. /\ b.claw[k].pending \in Nat /\ b.claw[k].debt \in Nat
            /\ c.claw[k].pending \in Nat
        BY AccountTypes, ClawTypes DEF Sound
      <4> QED BY <1>2, <3>1, <4>1
    <3>3. Free(c, l) - GivenInto(c, l) <= Free(b, l) - GivenInto(b, l)
      BY <2>1 DEF Lowers, Own
    <3>4. CASE Exists(b, l)
      <4>1. l \in OfUnit(b, b.claw[k].unit)
        BY <1>2, <2>1, <3>1, <3>4 DEF OfUnit, Lowers
      <4>2. Free(b, l) <= GivenInto(b, l) - GivenInto(a, l)
        BY <1>2, <3>2, <4>1 DEF Lowers
      <4> QED BY <2>3, <3>3, <4>2
    <3>5. CASE ~ Exists(b, l)
      <4>1. ~ Exists(a, l)
        BY <2>1, <3>5 DEF Lowers
      <4>2. Free(b, l) = 0 /\ GivenInto(b, l) = 0 /\ GivenInto(a, l) = 0
        BY <2>1, <3>5, <4>1, UnusedRow
      <4> QED BY <2>3, <3>3, <4>2
    <3> QED BY <3>4, <3>5
  <2> QED BY <2>2, <2>4, <2>5
<1> QED BY <1>1, <1>2 DEF Lowers

\* What a step that leaves the clawbacks alone does.
LEMMA ClawlessKeeps ==
    ASSUME NEW a, NEW b, Sound(a), b.claw = a.claw,
           \A l \in Lots : b.lot[l].held = a.lot[l].held /\ b.lot[l].spent = a.lot[l].spent
    PROVE  Keeps(a, b)
<1>1. PendingClaimTotal(b) = PendingClaimTotal(a) /\ PendingClaimTotal(a) \in Nat
  BY ClawsSame, AmountTypes DEF Sound
<1>2. \A k \in Claws : a.claw[k].pending <= a.claw[k].pending
  <2>1. \A k \in Claws : a.claw[k].pending \in Nat
    BY AccountTypes, ClawTypes DEF Sound
  <2> QED BY <2>1
<1> QED BY <1>1, <1>2 DEF Keeps

LEMMA ClawlessLowers ==
    ASSUME NEW a, NEW b, Sound(a), Sound(b), b.claw = a.claw, b.back = a.back,
           \A l \in Lots : /\ b.lot[l].unit = a.lot[l].unit /\ b.lot[l].held = a.lot[l].held
                           /\ b.lot[l].rank = a.lot[l].rank
                           /\ b.lot[l].granted = a.lot[l].granted
                           /\ b.lot[l].seq = a.lot[l].seq
                           /\ b.lot[l].remaining <= a.lot[l].remaining
    PROVE  Lowers(a, b)
<1>1. ASSUME NEW l \in Lots
      PROVE  /\ Own(b, l) <= Own(a, l) /\ GivenInto(b, l) >= GivenInto(a, l)
             /\ Exists(a, l) => Exists(b, l) /\ b.lot[l].unit = a.lot[l].unit
  <2>1. a.lot[l] \in Lot /\ b.lot[l] \in Lot
    BY AccountTypes DEF Sound
  <2>2. Free(b, l) <= Free(a, l)
    BY <2>1, LotTypes DEF Free
  <2>3. GivenInto(b, l) = GivenInto(a, l)
    BY DEF GivenInto
  <2>4. Free(a, l) \in Nat /\ Free(b, l) \in Nat /\ GivenInto(a, l) \in Nat
    BY OwnTypes
  <2>5. Own(b, l) <= Own(a, l) /\ GivenInto(b, l) >= GivenInto(a, l)
    BY <2>2, <2>3, <2>4 DEF Own
  <2> QED BY <2>5 DEF Exists
<1>2. ASSUME NEW k \in Claws, a.claw[k].state = "none"
      PROVE  b.claw[k].pending + b.claw[k].debt = 0
  <2>1. b.claw[k] = NoClaw
    BY <1>2 DEF Sound, ClawIsSound
  <2> QED BY <2>1 DEF NoClaw
<1>3. ASSUME NEW k \in Claws, a.claw[k].state = "none",
             b.claw[k].pending + b.claw[k].debt > 0
      PROVE  FALSE
  BY <1>2, <1>3
<1> QED BY <1>1, <1>3 DEF Lowers

\* A payment's worth only grows with what its lots hold and were used for.
LEMMA WorthGrows ==
    ASSUME NEW a, NEW b, Sound(a), b \in Account, Worth(a), b.claw = a.claw, b.back = a.back,
           \A l \in Lots :
              /\ b.lot[l].held >= a.lot[l].held /\ b.lot[l].spent >= a.lot[l].spent
              /\ b.lot[l].repaid >= a.lot[l].repaid
              /\ \/ b.lot[l].unit = a.lot[l].unit
                 \/ /\ a.lot[l].held = 0 /\ a.lot[l].spent = 0 /\ a.lot[l].repaid = 0
                    /\ a.back.returned[l] = 0
    PROVE  Worth(b)
<1> SUFFICES ASSUME NEW u \in Units, Alone(b, u)
             PROVE  /\ Charged(b) <= UsedOf(b, u)
                    /\ Charged(b) + PendingClaimTotal(b) <= HeldOf(b, u) + UsedOf(b, u)
  BY DEF Worth
<1>1. a \in Account
  BY DEF Sound
<1>2. /\ Charged(b) = Charged(a) /\ PendingClaimTotal(b) = PendingClaimTotal(a)
      /\ Alone(a, u)
  BY <1>1, ClawsSame
<1>3. /\ Charged(a) <= UsedOf(a, u)
      /\ Charged(a) + PendingClaimTotal(a) <= HeldOf(a, u) + UsedOf(a, u)
  BY <1>2 DEF Worth
<1>4. \A l \in Lots :
         /\ a.lot[l].held \in Nat /\ a.lot[l].spent \in Nat /\ a.lot[l].repaid \in Nat
         /\ b.lot[l].held \in Nat /\ b.lot[l].spent \in Nat /\ b.lot[l].repaid \in Nat
  BY <1>1, AccountTypes, LotTypes
<1>5. HeldOf(a, u) <= HeldOf(b, u)
  <2> DEFINE f == [l \in Lots |-> IF l \in OfUnit(a, u) THEN a.lot[l].held ELSE 0]
             g == [l \in Lots |-> IF l \in OfUnit(b, u) THEN b.lot[l].held ELSE 0]
  <2>1. ASSUME NEW l \in Lots PROVE f[l] \in Nat /\ g[l] \in Nat /\ f[l] <= g[l]
    BY <1>4 DEF OfUnit
  <2>2. \A l \in 1 .. MaxLot : f[l] \in Nat /\ g[l] \in Nat /\ f[l] <= g[l]
    BY <2>1 DEF Lots
  <2> HIDE DEF f, g
  <2>3. SumTo(f, MaxLot) <= SumTo(g, MaxLot)
    BY <2>2, Sizes, SumMonotone DEF IntsUpTo
  <2> QED BY <2>3 DEF f, g, HeldOf, Total
<1>6. UsedOf(a, u) <= UsedOf(b, u)
  <2> DEFINE f == [l \in Lots |-> IF l \in OfUnit(a, u)
                                  THEN a.lot[l].spent + a.lot[l].repaid - a.back.returned[l]
                                  ELSE 0]
             g == [l \in Lots |-> IF l \in OfUnit(b, u)
                                  THEN b.lot[l].spent + b.lot[l].repaid - b.back.returned[l]
                                  ELSE 0]
  <2>1. ASSUME NEW l \in Lots PROVE f[l] \in Int /\ g[l] \in Int /\ f[l] <= g[l]
    <3>1. a.back.returned[l] \in Nat /\ b.back.returned[l] = a.back.returned[l]
      BY <1>1, BackTypes
    <3>2. /\ a.lot[l].spent \in Nat /\ a.lot[l].repaid \in Nat
          /\ b.lot[l].spent \in Nat /\ b.lot[l].repaid \in Nat
          /\ b.lot[l].spent >= a.lot[l].spent /\ b.lot[l].repaid >= a.lot[l].repaid
      BY <1>4
    <3>3. CASE b.lot[l].unit = a.lot[l].unit
      BY <3>1, <3>2, <3>3 DEF OfUnit
    <3>4. CASE a.lot[l].spent = 0 /\ a.lot[l].repaid = 0 /\ a.back.returned[l] = 0
      BY <3>1, <3>2, <3>4
    <3> QED BY <3>3, <3>4
  <2>2. \A l \in 1 .. MaxLot : f[l] \in Int /\ g[l] \in Int /\ f[l] <= g[l]
    BY <2>1 DEF Lots
  <2> HIDE DEF f, g
  <2>3. SumTo(f, MaxLot) <= SumTo(g, MaxLot)
    BY <2>2, Sizes, SumMonotone DEF IntsUpTo
  <2>4. /\ UsedOf(a, u) = SumTo(f, MaxLot) + a.back.excused[u] + a.back.undone[u]
        /\ UsedOf(b, u) = SumTo(g, MaxLot) + a.back.excused[u] + a.back.undone[u]
    BY DEF f, g, UsedOf, Total
  <2>5. SumTo(f, MaxLot) \in Int /\ SumTo(g, MaxLot) \in Int
    BY <2>2, Sizes, SumStep DEF IntsUpTo
  <2>6. a.back.excused[u] \in Nat /\ a.back.undone[u] \in Nat
    BY <1>1, BackTypes
  <2> QED BY <2>3, <2>4, <2>5, <2>6
<1>7. /\ Charged(a) \in Nat /\ PendingClaimTotal(a) \in Nat
      /\ HeldOf(a, u) \in Nat /\ UsedOf(a, u) \in Int
      /\ HeldOf(b, u) \in Nat /\ UsedOf(b, u) \in Int
  BY <1>1, AmountTypes
<1> QED BY <1>2, <1>3, <1>5, <1>6, <1>7

LEMMA ExpireSteps ==
    ASSUME NEW a, Sound(a), Worth(a), NEW b, b = ExpireDueLots(a)
    PROVE  /\ Sound(b) /\ Worth(b) /\ Keeps(a, b) /\ b.claw = a.claw
           /\ \A l \in Lots : GivenInto(b, l) = GivenInto(a, l)
<1>1. /\ Sound(b) /\ b.claw = a.claw /\ b.back = a.back
      /\ \A l \in Lots :
            /\ b.lot[l].unit = a.lot[l].unit /\ b.lot[l].held = a.lot[l].held
            /\ b.lot[l].spent = a.lot[l].spent /\ b.lot[l].repaid = a.lot[l].repaid
            /\ a.lot[l] \in Lot
  BY ExpireKeeps, AccountTypes DEF Sound
<1>2. \A l \in Lots :
         /\ b.lot[l].held >= a.lot[l].held /\ b.lot[l].spent >= a.lot[l].spent
         /\ b.lot[l].repaid >= a.lot[l].repaid
  BY <1>1, LotTypes
<1>3. Worth(b)
  BY <1>1, <1>2, WorthGrows DEF Sound
<1>4. Keeps(a, b)
  BY <1>1, ClawlessKeeps
<1>5. \A l \in Lots : GivenInto(b, l) = GivenInto(a, l)
  BY ExpireKeeps DEF GivenInto
<1> QED BY <1>1, <1>3, <1>4, <1>5

LEMMA SettleDebtSteps ==
    ASSUME NEW a, Sound(a), Worth(a), NEW b, b = SettleDebtFromFree(a)
    PROVE  /\ Sound(b) /\ Worth(b) /\ Keeps(a, b) /\ Lowers(a, b) /\ b.claw = a.claw
           /\ b.debt > 0 => SpendableMicro(b) = 0
<1>1. /\ Sound(b) /\ b.claw = a.claw /\ b.back = a.back
      /\ b.debt > 0 => SpendableMicro(b) = 0
      /\ \A l \in Lots :
            /\ b.lot[l].unit = a.lot[l].unit /\ b.lot[l].held = a.lot[l].held
            /\ b.lot[l].spent = a.lot[l].spent /\ b.lot[l].repaid >= a.lot[l].repaid
            /\ b.lot[l].remaining <= a.lot[l].remaining
            /\ a.lot[l] \in Lot
  BY SettleDebtKeeps, AccountTypes DEF Sound
<1>2. \A l \in Lots :
         /\ b.lot[l].held >= a.lot[l].held /\ b.lot[l].spent >= a.lot[l].spent
         /\ b.lot[l].repaid >= a.lot[l].repaid
  BY <1>1, LotTypes
<1>3. Worth(b)
  BY <1>1, <1>2, WorthGrows DEF Sound
<1>4. Keeps(a, b)
  BY <1>1, ClawlessKeeps
<1>5. Lowers(a, b)
  BY <1>1, SettleDebtKeeps, ClawlessLowers
<1> QED BY <1>1, <1>3, <1>4, <1>5

-----------------------------------------------------------------------------
(* Grants *)

\* A new lot gets the next number.
LEMMA NextSeq ==
    ASSUME NEW a, Sound(a), NEW b, NEW j \in Lots, ~ Exists(a, j),
           b.lot[j].seq = 1 + Cardinality({m \in Lots : Exists(a, m)}),
           \A l \in Lots : l # j => b.lot[l].seq = a.lot[l].seq
    PROVE  b.lot[j].seq \in 1 .. MaxLot /\ SeqIsSound(b)
<1>1. PICK S : S = {m \in Lots : Exists(a, m)}
  OBVIOUS
<1>2. IsFiniteSet(Lots) /\ Cardinality(Lots) = MaxLot
  BY Sizes, FS_Interval DEF Lots
<1>3. S \subseteq Lots /\ j \notin S
  BY <1>1
<1>4. IsFiniteSet(S) /\ Cardinality(S) \in Nat
  BY <1>2, <1>3, FS_Subset, FS_CardinalityType
<1>5. IsFiniteSet(S \cup {j}) /\ Cardinality(S \cup {j}) = Cardinality(S) + 1
  BY <1>3, <1>4, FS_AddElement
<1>6. Cardinality(S \cup {j}) <= MaxLot
  BY <1>2, <1>3, FS_Subset
<1>7. b.lot[j].seq = Cardinality(S) + 1 /\ b.lot[j].seq \in 1 .. MaxLot
  BY <1>1, <1>4, <1>5, <1>6, Sizes
<1>8. \A l \in Lots : Exists(b, l) <=> Exists(a, l) \/ l = j
  BY <1>4, <1>7 DEF Exists
<1>9. {m \in Lots : Exists(b, m)} = S \cup {j}
  BY <1>1, <1>3, <1>8
<1>10. SeqIsSound(a) /\ \A l \in Lots : a.lot[l].seq \in 0 .. MaxLot
  BY AccountTypes, LotTypes DEF Sound
<1>11. \A l \in Lots : a.lot[l].seq <= Cardinality(S)
  BY <1>1, <1>10 DEF SeqIsSound
<1>12. ASSUME NEW l \in Lots, NEW m \in Lots, Exists(b, l), b.lot[l].seq = b.lot[m].seq
       PROVE  l = m
  <2>1. CASE l = j
    <3>1. m # j => a.lot[m].seq = Cardinality(S) + 1
      BY <1>7, <1>12, <2>1
    <3> QED BY <1>4, <1>10, <1>11, <2>1, <3>1
  <2>2. CASE l # j /\ m = j
    <3>1. a.lot[l].seq = Cardinality(S) + 1
      BY <1>7, <1>12, <2>2
    <3> QED BY <1>4, <1>10, <1>11, <3>1
  <2>3. CASE l # j /\ m # j
    <3>1. Exists(a, l) /\ a.lot[l].seq = a.lot[m].seq
      BY <1>8, <1>12, <2>3
    <3> QED BY <1>10, <3>1 DEF SeqIsSound
  <2> QED BY <2>1, <2>2, <2>3
<1>13. \A l \in Lots : b.lot[l].seq <= Cardinality(S \cup {j})
  BY <1>4, <1>5, <1>7, <1>10, <1>11
<1>14. SeqIsSound(b)
  <2>1. \A l \in Lots : b.lot[l].seq <= Cardinality({m \in Lots : Exists(b, m)})
    BY <1>9, <1>13
  <2>2. \A l, m \in Lots : Exists(b, l) /\ b.lot[l].seq = b.lot[m].seq => l = m
    BY <1>12
  <2> QED BY <2>1, <2>2 DEF SeqIsSound
<1> QED BY <1>7, <1>14

\* A lot more is credit on top, and a lot that a give-back makes is all given.
LEMMA LotAddedSteps ==
    ASSUME NEW a, Sound(a), Worth(a), now \in Nat, NEW unit \in Units \cup {None},
           NEW rank \in {0, 1}, NEW amounts \in SUBSET Nat, NEW b \in LotAdded(a, unit, rank, amounts)
    PROVE  /\ Sound(b) /\ Worth(b) /\ Keeps(a, b) /\ b.claw = a.claw
           /\ \A l \in Lots : GivenInto(b, l) >= GivenInto(a, l)
           /\ rank = 1 /\ unit \in Units => Lowers(a, b)
<1>0. a \in Account /\ \A l \in Lots : a.lot[l] \in Lot
  BY AccountTypes DEF Sound
<1>1. PICK p \in {l \in Lots : ~ Exists(a, l)} \X (now + 1 .. MaxTime + 1) \X amounts :
         b = InsertLot(a, p[1], unit, rank, p[2], p[3])
  BY DEF LotAdded
<1>2. PICK j \in Lots, e \in Nat, g \in Nat :
         ~ Exists(a, j) /\ b = InsertLot(a, j, unit, rank, e, g)
  <2>1. /\ p[1] \in Lots /\ ~ Exists(a, p[1])
        /\ p[2] \in now + 1 .. MaxTime + 1 /\ p[3] \in amounts
    BY <1>1
  <2>2. p[2] \in Nat
    BY <2>1
  <2>3. p[3] \in Nat
    BY <2>1
  <2> QED BY <1>1, <2>1, <2>2, <2>3
<1> DEFINE new == [NoLot EXCEPT !.unit = unit, !.rank = rank, !.ends = e, !.granted = g,
                                !.remaining = g,
                                !.seq = 1 + Cardinality({m \in Lots : Exists(a, m)})]
<1>3. b = [a EXCEPT !.lot[j] = new]
  BY <1>2 DEF InsertLot
<1>4. /\ new.unit = unit /\ new.rank = rank
      /\ new.ends = e /\ new.granted = g /\ new.remaining = g
      /\ new.seq = 1 + Cardinality({m \in Lots : Exists(a, m)})
      /\ new.held = 0 /\ new.expired = 0 /\ new.spent = 0 /\ new.repaid = 0
      /\ DOMAIN new = {"unit", "rank", "ends", "seq", "granted", "remaining", "held", "expired",
                       "spent", "repaid"}
  BY DEF NoLot
<1>5. \A l \in Lots : b.lot[l] = IF l = j THEN new ELSE a.lot[l]
  BY <1>0, <1>3 DEF Account
<1>6. new.seq \in 1 .. MaxLot /\ SeqIsSound(b)
  <2>1. /\ b.lot[j].seq = 1 + Cardinality({m \in Lots : Exists(a, m)})
        /\ \A l \in Lots : l # j => b.lot[l].seq = a.lot[l].seq
    BY <1>4, <1>5
  <2>2. b.lot[j].seq \in 1 .. MaxLot /\ SeqIsSound(b)
    BY <1>2, <2>1, NextSeq
  <2> QED BY <1>5, <2>2
<1>7. new \in Lot
  <2>1. PICK s \in 0 .. MaxLot : s = 1 + Cardinality({m \in Lots : Exists(a, m)})
    <3>1. new.seq = 1 + Cardinality({m \in Lots : Exists(a, m)})
      BY <1>4
    <3> HIDE DEF new
    <3>2. new.seq \in 0 .. MaxLot
      BY <1>6
    <3> QED BY <3>1, <3>2
  <2>2. PICK q \in Lot : q = NoLot
    <3>1. 0 \in 0 .. MaxLot /\ None \in Units \cup {None}
      BY Sizes
    <3>2. NoLot \in Lot
      BY <3>1 DEF NoLot, Lot
    <3> QED BY <3>2
  <2>3. new = [q EXCEPT !.unit = unit, !.rank = rank, !.ends = e, !.granted = g,
                        !.remaining = g, !.seq = s]
    BY <2>1, <2>2
  <2> HIDE DEF new
  <2> QED BY <2>3 DEF Lot
<1> HIDE DEF new
<1>8. /\ b \in Account /\ b.claw = a.claw /\ b.debt = a.debt /\ b.forgiven = a.forgiven
      /\ b.back = a.back
  <2>1. PICK f : f = [a.lot EXCEPT ![j] = new]
    OBVIOUS
  <2>2. f \in [Lots -> Lot] /\ b = [a EXCEPT !.lot = f]
    BY <1>0, <1>3, <1>7, <2>1 DEF Account
  <2> QED BY <1>0, <2>2 DEF Account
<1>9. /\ a.lot[j].granted = 0 /\ a.lot[j].remaining = 0 /\ a.lot[j].held = 0
      /\ a.lot[j].spent = 0 /\ a.lot[j].repaid = 0 /\ Clawed(a, j) = 0
      /\ \A k \in Claws : a.claw[k].took[j] = 0 /\ a.claw[k].paid[j] = 0
      /\ a.back.restored[j] = 0 /\ a.back.returned[j] = 0
      /\ GivenInto(a, j) = 0 /\ Free(a, j) = 0
  BY <1>2, UnusedRow
<1>10. \A l \in Lots : /\ b.lot[l].held = a.lot[l].held /\ b.lot[l].spent = a.lot[l].spent
                       /\ b.lot[l].repaid = a.lot[l].repaid
                       /\ l # j => b.lot[l] = a.lot[l]
  BY <1>4, <1>5, <1>9
<1>11. /\ \A l \in Lots : Clawed(b, l) = Clawed(a, l)
       /\ DebtMade(b) = DebtMade(a)
  BY <1>0, <1>8, ClawsSame
<1>18. ChargesKept(a, b)
  <2>1. ASSUME NEW k \in Claws
        PROVE  /\ a.claw[k].debt >= a.claw[k].debt /\ a.claw[k].dropped >= a.claw[k].dropped
               /\ \A l \in Lots : /\ a.claw[k].took[l] >= a.claw[k].took[l]
                                  /\ a.claw[k].paid[l] >= a.claw[k].paid[l]
    BY <1>0, AccountTypes, ClawTypes
  <2>2. \A l \in Lots : b.lot[l].repaid >= a.lot[l].repaid
    <3>1. \A l \in Lots : a.lot[l].repaid \in Nat /\ b.lot[l].repaid = a.lot[l].repaid
      BY <1>0, <1>10, LotTypes
    <3> QED BY <3>1
  <2> QED BY <1>8, <1>9, <1>10, <2>1, <2>2 DEF ChargesKept
<1>12. ASSUME NEW l \in Lots PROVE LotIsSound(b, l)
  <2>0. /\ TakenFrom(b, l) \in Nat /\ PaidFrom(b, l) \in Nat
        /\ TakenFrom(a, l) \in Nat /\ PaidFrom(a, l) \in Nat
        /\ a.back.restored[l] \in Nat /\ a.back.returned[l] \in Nat
        /\ TakenFrom(a, l) <= TakenFrom(b, l) /\ PaidFrom(a, l) <= PaidFrom(b, l)
    BY <1>0, <1>8, <1>18, TakenAndPaid, BackTypes, ChargesGrow
  <2>1. CASE l = j
    <3>1. b.lot[l] = new /\ Clawed(b, l) = 0
      BY <1>5, <1>9, <1>11, <2>1
    <3>2. b.back.restored[l] = 0 /\ b.back.returned[l] = 0
      BY <1>8, <1>9, <2>1
    <3> QED BY <1>4, <1>6, <2>0, <3>1, <3>2 DEF LotIsSound, Exists
  <2>2. CASE l # j
    <3>1. b.lot[l] = a.lot[l] /\ Clawed(b, l) = Clawed(a, l) /\ LotIsSound(a, l)
      BY <1>10, <1>11, <2>2 DEF Sound
    <3> QED BY <1>8, <2>0, <3>1 DEF LotIsSound, Exists
  <2> QED BY <2>1, <2>2
<1>13. ASSUME NEW k \in Claws PROVE ClawIsSound(b, k)
  <2>1. b.claw[k] = a.claw[k] /\ ClawIsSound(a, k)
    BY <1>8 DEF Sound
  <2>2. ASSUME NEW l \in Lots, b.claw[k].source # "plan_change", b.lot[l].unit # b.claw[k].unit
        PROVE  b.claw[k].took[l] = 0 /\ b.claw[k].paid[l] = 0
    <3>1. CASE l = j
      BY <1>9, <2>1, <3>1
    <3>2. CASE l # j
      BY <1>10, <2>1, <2>2, <3>2 DEF ClawIsSound
    <3> QED BY <3>1, <3>2
  <2> QED BY <1>8, <2>1, <2>2 DEF ClawIsSound
<1>14. Repaid(b) = Repaid(a)
  BY <1>10 DEF Repaid
<1>15. Sound(b)
  <2>1. a.debt = DebtMade(a) - Repaid(a) - a.forgiven
    BY DEF Sound
  <2>2. ASSUME NEW u \in Units PROVE ChargedBeyond(b, u) >= 0
    <3>1. ChargedBeyond(a, u) >= 0 /\ ChargedBeyond(a, u) <= ChargedBeyond(b, u)
      BY <1>0, <1>8, <1>18, ChargesGrow DEF Sound
    <3>2. ChargedBeyond(a, u) \in Int /\ ChargedBeyond(b, u) \in Int
      BY <1>0, <1>8, ChargedTypes
    <3> QED BY <3>1, <3>2
  <2> QED BY <1>6, <1>8, <1>11, <1>12, <1>13, <1>14, <2>1, <2>2 DEF Sound
<1>16. Worth(b)
  <2>1. ASSUME NEW l \in Lots
        PROVE  /\ b.lot[l].held >= a.lot[l].held /\ b.lot[l].spent >= a.lot[l].spent
               /\ b.lot[l].repaid >= a.lot[l].repaid
               /\ \/ b.lot[l].unit = a.lot[l].unit
                  \/ /\ a.lot[l].held = 0 /\ a.lot[l].spent = 0 /\ a.lot[l].repaid = 0
                     /\ a.back.returned[l] = 0
    BY <1>0, <1>9, <1>10, LotTypes
  <2> QED BY <1>8, <2>1, WorthGrows
<1>17. Keeps(a, b)
  BY <1>8, <1>10, ClawlessKeeps
<1>19. ASSUME NEW l \in Lots, l # j
       PROVE  GivenInto(b, l) = GivenInto(a, l) /\ Free(b, l) = Free(a, l)
  BY <1>8, <1>10, <1>19 DEF GivenInto, Free
<1>20. /\ GivenInto(b, j) \in Nat
       /\ rank = 1 /\ unit \in Units => Free(b, j) = GivenInto(b, j)
  <2>1. b.back.restored[j] = 0 /\ b.back.returned[j] = 0 /\ b.lot[j] = new
    BY <1>5, <1>8, <1>9
  <2>2. GivenInto(b, j) \in Nat
    BY <1>8, GivenTypes
  <2>3. Free(b, j) = g
    BY <1>4, <2>1 DEF Free
  <2>4. rank = 1 /\ unit \in Units => GivenInto(b, j) = g
    BY <1>4, <2>1, ConstantsAssumption DEF GivenInto
  <2> QED BY <2>2, <2>3, <2>4
<1>21. \A l \in Lots : GivenInto(b, l) >= GivenInto(a, l)
  <2> SUFFICES ASSUME NEW l \in Lots PROVE GivenInto(b, l) >= GivenInto(a, l)
    OBVIOUS
  <2>1. GivenInto(a, l) \in Nat
    BY <1>0, GivenTypes
  <2> QED BY <1>9, <1>19, <1>20, <2>1
<1>22. ASSUME rank = 1, unit \in Units PROVE Lowers(a, b)
  <2>1. ASSUME NEW l \in Lots PROVE Own(b, l) <= Own(a, l)
    <3>1. Own(a, l) \in Int /\ Own(b, l) \in Int /\ GivenInto(b, l) \in Nat
      BY <1>15, OwnTypes
    <3>2. CASE l = j
      BY <1>9, <1>20, <1>22, <3>1, <3>2 DEF Own
    <3>3. CASE l # j
      BY <1>19, <3>1, <3>3 DEF Own
    <3> QED BY <3>2, <3>3
  <2>2. \A l \in Lots : Exists(a, l) => Exists(b, l) /\ b.lot[l].unit = a.lot[l].unit
    BY <1>2, <1>10 DEF Exists
  <2>3. ASSUME NEW k \in Claws, a.claw[k].state = "none",
               b.claw[k].pending + b.claw[k].debt > 0
        PROVE  FALSE
    <3>1. b.claw[k] = NoClaw
      BY <1>8, <2>3 DEF Sound, ClawIsSound
    <3> QED BY <2>3, <3>1 DEF NoClaw
  <2> QED BY <1>21, <2>1, <2>2, <2>3 DEF Lowers
<1> QED BY <1>8, <1>15, <1>16, <1>17, <1>21, <1>22

LEMMA GrantSteps ==
    ASSUME NEW a, Sound(a), Worth(a), now \in Nat, NEW unit \in Units \cup {None},
           NEW b \in Granted(a, unit)
    PROVE  /\ Sound(b) /\ Worth(b) /\ Keeps(a, b) /\ b.claw = a.claw
           /\ \A l \in Lots : GivenInto(b, l) >= GivenInto(a, l)
<1>1. PICK rank \in {0, 1} : b \in LotAdded(a, unit, rank, Grants)
  BY DEF Granted
<1>2. Grants \in SUBSET Nat
  BY ConstantsAssumption
<1> QED BY <1>1, <1>2, LotAddedSteps

-----------------------------------------------------------------------------
(* Clawbacks *)

\* Two rows of amounts with one total, one below the other, are the same.
LEMMA SumTight ==
    ASSUME NEW n \in Nat, NEW f, NEW g,
           \A i \in 1 .. n : f[i] \in Nat /\ g[i] \in Nat /\ f[i] <= g[i],
           SumTo(f, n) = SumTo(g, n)
    PROVE  \A i \in 1 .. n : f[i] = g[i]
<1> DEFINE h == [i \in 1 .. n |-> g[i] - f[i]]
<1>1. \A i \in 1 .. n : h[i] = g[i] - f[i] /\ h[i] \in Nat
  OBVIOUS
<1> HIDE DEF h
<1>2. IntsUpTo(f, n) /\ IntsUpTo(g, n)
  BY DEF IntsUpTo
<1>3. SumTo(h, n) = SumTo(g, n) - SumTo(f, n) /\ SumTo(g, n) \in Int
  BY <1>1, <1>2, SumSubtract, SumStep
<1>4. ASSUME NEW i \in 1 .. n PROVE f[i] = g[i]
  <2>1. h[i] <= SumTo(h, n)
    BY <1>1, SumCovers
  <2>2. SumTo(h, n) = 0
    BY <1>3
  <2> QED BY <1>1, <2>1, <2>2
<1> QED BY <1>4

\* The lots in line give what is asked for or all that is free in them.
LEMMA PlanClawbackFits ==
    ASSUME NEW a, Sound(a), NEW targets, NEW want \in Nat,
           NEW take, take = PlanClawback(a, targets, want),
           NEW free, free = [l \in Lots |-> IF l \in targets THEN Free(a, l) ELSE 0]
    PROVE  /\ take \in [Lots -> Nat]
           /\ \A l \in Lots : /\ take[l] <= Free(a, l)
                              /\ l \notin targets => take[l] = 0
           /\ Total(take) \in Nat /\ Total(free) \in Nat
           /\ Total(take) = Least(want, Total(free))
           /\ Total(take) < want => \A l \in Lots : l \in targets => take[l] = Free(a, l)
<1> DEFINE pot == [l \in Lots |-> IF l \in targets THEN Least(Natural(Free(a, l)), EverHeld(a, l))
                                  ELSE 0]
           seq == [l \in Lots |-> a.lot[l].seq]
           above(l) == [m \in Lots |-> IF a.lot[m].seq > a.lot[l].seq THEN pot[m] ELSE 0]
           higher(l) == [m \in 1 .. MaxLot |-> IF seq[m] > seq[l] THEN free[m] ELSE 0]
<1>1. \A l \in Lots : pot[l] = free[l] /\ free[l] \in Nat /\ free[l] <= Free(a, l)
  <2> SUFFICES ASSUME NEW l \in Lots
               PROVE  pot[l] = free[l] /\ free[l] \in Nat /\ free[l] <= Free(a, l)
    OBVIOUS
  <2>1. Free(a, l) \in Nat /\ Free(a, l) <= EverHeld(a, l) /\ EverHeld(a, l) \in Nat
    BY FreeTypes
  <2> QED BY <2>1 DEF Least, Natural
<1>2. ASSUME NEW l \in Lots
      PROVE  take[l] = Least(free[l], Natural(want - SumTo(higher(l), MaxLot)))
  <2>1. take[l] = Least(pot[l], Natural(want - Total(above(l))))
    BY DEF PlanClawback, FromNewest
  <2>2. above(l) = higher(l)
    BY <1>1 DEF Lots
  <2> HIDE DEF pot, above, higher
  <2> QED BY <1>1, <2>1, <2>2 DEF Total
<1>3. \A l \in Lots : seq[l] \in 0 .. MaxLot
  BY AccountTypes, LotTypes DEF Sound
<1>4. ASSUME NEW i \in Lots, NEW j \in Lots, i # j, seq[i] = seq[j]
      PROVE  free[i] = 0 \/ free[j] = 0
  <2>1. ~ Exists(a, i)
    BY <1>4 DEF Sound, SeqIsSound
  <2>2. a.lot[i].granted = 0
    BY <2>1 DEF Sound, LotIsSound
  <2>3. Free(a, i) = 0
    BY <2>2, FreeTypes
  <2> QED BY <2>3
<1>5. /\ \A i \in 1 .. MaxLot : take[i] \in Nat /\ take[i] <= free[i]
      /\ SumTo(take, MaxLot) = Least(want, SumTo(free, MaxLot))
  <2>1. \A i \in 1 .. MaxLot : free[i] \in Nat /\ seq[i] \in 0 .. MaxLot
    BY <1>1, <1>3 DEF Lots
  <2>2. \A i, j \in 1 .. MaxLot : i # j /\ seq[i] = seq[j] => free[i] = 0 \/ free[j] = 0
    BY <1>4 DEF Lots
  <2> DEFINE newer == [l \in Lots |-> higher(l)]
  <2>3. \A i, m \in 1 .. MaxLot : newer[i][m] = IF seq[m] > seq[i] THEN free[m] ELSE 0
    BY DEF Lots
  <2>4. \A i \in 1 .. MaxLot : take[i] = Least(free[i], Natural(want - SumTo(newer[i], MaxLot)))
    BY <1>2 DEF Lots
  <2> HIDE DEF seq, pot, newer
  <2>5. NewestFirst(MaxLot, want, free, seq, newer, take)
    BY <2>1, <2>2, <2>3, <2>4, Sizes DEF NewestFirst
  <2> QED BY <2>5, NewestFirstFits
<1>6. DOMAIN take = Lots /\ take = [l \in Lots |-> take[l]]
  BY DEF PlanClawback, FromNewest
<1> HIDE DEF pot, seq
<1>7. take \in [Lots -> Nat]
  BY <1>5, <1>6 DEF Lots
<1>8. Total(take) \in Nat /\ Total(free) \in Nat
  <2>1. \A i \in 1 .. MaxLot : take[i] \in Nat /\ free[i] \in Nat
    BY <1>1, <1>5 DEF Lots
  <2> QED BY <2>1, Sizes, SumNat DEF Total
<1>9. \A l \in Lots : take[l] <= Free(a, l) /\ (l \notin targets => take[l] = 0)
  <2> SUFFICES ASSUME NEW l \in Lots
               PROVE  take[l] <= Free(a, l) /\ (l \notin targets => take[l] = 0)
    OBVIOUS
  <2>1. take[l] \in Nat /\ take[l] <= free[l]
    BY <1>5 DEF Lots
  <2>2. free[l] \in Nat /\ free[l] <= Free(a, l) /\ Free(a, l) \in Nat
    BY <1>1, FreeTypes
  <2>3. l \notin targets => free[l] = 0
    OBVIOUS
  <2> QED BY <2>1, <2>2, <2>3
<1>10. ASSUME Total(take) < want, NEW l \in Lots, l \in targets PROVE take[l] = Free(a, l)
  <2>1. SumTo(take, MaxLot) = SumTo(free, MaxLot)
    BY <1>5, <1>8, <1>10 DEF Total, Least
  <2>2. \A i \in 1 .. MaxLot : take[i] \in Nat /\ free[i] \in Nat /\ take[i] <= free[i]
    BY <1>1, <1>5 DEF Lots
  <2>3. \A i \in 1 .. MaxLot : take[i] = free[i]
    BY ONLY <2>1, <2>2, Sizes, SumTight
  <2>4. take[l] = free[l]
    BY <2>3 DEF Lots
  <2> QED BY <1>10, <2>4
<1> QED BY <1>5, <1>7, <1>8, <1>9, <1>10 DEF Total

LEMMA ClaimableFits ==
    ASSUME NEW a \in Account, NEW source, NEW unit
    PROVE  /\ Claimable(a, source, unit) \in Nat
           /\ Claimable(a, source, unit) <= Natural(HeldMicro(a) - PendingClaimTotal(a))
           /\ ClaimableOf(a, unit) \in Nat
<1>1. HeldMicro(a) \in Nat /\ PendingClaimTotal(a) \in Nat
  BY AmountTypes
<1>2. ClaimableOf(a, unit) \in Nat
  <2> DEFINE f == [l \in Lots |-> IF l \in OfUnit(a, unit) THEN a.lot[l].held ELSE 0]
             g == [k \in Claws |-> IF a.claw[k].unit = unit THEN a.claw[k].pending ELSE 0]
  <2>1. \A l \in 1 .. MaxLot : f[l] \in Nat
    <3> SUFFICES ASSUME NEW l \in Lots PROVE f[l] \in Nat
      BY DEF Lots
    <3> QED BY AccountTypes, LotTypes
  <2>2. \A k \in 1 .. MaxClaw : g[k] \in Nat
    <3> SUFFICES ASSUME NEW k \in Claws PROVE g[k] \in Nat
      BY DEF Claws
    <3> QED BY AccountTypes, ClawTypes
  <2> HIDE DEF f, g
  <2>3. SumTo(f, MaxLot) \in Nat /\ SumTo(g, MaxClaw) \in Nat
    BY <2>1, <2>2, Sizes, SumNat
  <2>4. Natural(SumTo(f, MaxLot) - SumTo(g, MaxClaw)) \in Nat
    BY <2>3 DEF Natural
  <2> QED BY <2>4 DEF f, g, ClaimableOf, ClaimsOf, Total
<1> QED BY <1>1, <1>2 DEF Claimable, Least, Natural

\* While only unit is taken back, the clawbacks' charge is all that is charged.
LEMMA PositionAlone ==
    ASSUME NEW a, Sound(a), NEW u \in Units, Alone(a, u)
    PROVE  /\ PositionOf(a, u)
                 = Total([l \in Lots |-> IF l \in OfUnit(a, u) THEN a.lot[l].remaining ELSE 0])
                   + UsedOf(a, u) - (Charged(a) + PendingClaimTotal(a))
           /\ ClaimableOf(a, u) = Natural(HeldOf(a, u) - PendingClaimTotal(a))
<1>1. a \in Account /\ u # None
  BY DEF Sound
<1>2. ASSUME NEW k \in Claws
      PROVE  /\ a.claw[k].unit # u => a.claw[k] = NoClaw
             /\ a.claw[k].unit = u => a.claw[k].source = "reversal"
  <2>1. a.claw[k].state = "none" => a.claw[k] = NoClaw
    BY DEF Sound, ClawIsSound
  <2>2. NoClaw.unit = None /\ NoClaw.source = "reversal"
    BY DEF NoClaw
  <2> QED BY <1>1, <2>1, <2>2 DEF Alone
<1>3. /\ NoClaw.pending = 0 /\ NoClaw.debt = 0 /\ NoClaw.dropped = 0
      /\ \A l \in Lots : NoClaw.paid[l] = 0
  BY DEF NoClaw
<1>4. \A k \in Claws : /\ a.claw[k].pending \in Nat /\ a.claw[k].debt \in Nat
                       /\ a.claw[k].dropped \in Nat
                       /\ \A l \in Lots : a.claw[k].paid[l] \in Nat
  BY <1>1, AccountTypes, ClawTypes
<1>5. \A l \in Lots : a.lot[l].spent \in Nat /\ a.lot[l].repaid \in Nat
  BY <1>1, AccountTypes, LotTypes
<1> DEFINE used == [l \in Lots |-> IF l \in OfUnit(a, u)
                                    THEN a.lot[l].spent + a.lot[l].repaid - a.back.returned[l]
                                    ELSE 0]
           left == [l \in Lots |-> IF l \in OfUnit(a, u) THEN a.lot[l].remaining ELSE 0]
<1>6. ConsumedOf(a, u) = Total(used)
  <2> DEFINE g == [l \in Lots |-> IF l \in OfUnit(a, u)
                                  THEN a.lot[l].spent + PaidFrom(a, l) - a.back.returned[l] ELSE 0]
  <2>1. ASSUME NEW l \in Lots, l \in OfUnit(a, u) PROVE PaidFrom(a, l) = a.lot[l].repaid
    <3> DEFINE h == [k \in Claws |-> IF a.claw[k].unit = a.lot[l].unit THEN 0
                                     ELSE a.claw[k].paid[l]]
    <3>1. a.lot[l].unit = u
      BY <2>1 DEF OfUnit
    <3>2. \A k \in 1 .. MaxClaw : h[k] = 0
      BY <1>2, <1>3, <3>1 DEF Claws
    <3>3. PaidFrom(a, l) = a.lot[l].repaid + SumTo(h, MaxClaw)
      BY DEF PaidFrom
    <3> HIDE DEF h
    <3>4. SumTo(h, MaxClaw) = 0
      BY <3>2, Sizes, SumZero
    <3> QED BY <1>5, <3>3, <3>4
  <2>2. g = used
    BY <2>1
  <2>3. ConsumedOf(a, u) = Total(g)
    BY DEF ConsumedOf
  <2> HIDE DEF g, used
  <2> QED BY <2>2, <2>3
<1>7. BilledOf(a, u) = Charged(a)
  <2> DEFINE elsewhere(k) == Total([l \in Lots |-> IF l \in OfUnit(a, u) THEN 0
                                                   ELSE a.claw[k].paid[l]])
             c == [k \in Claws |-> IF a.claw[k].unit = u
                                   THEN a.claw[k].debt + a.claw[k].dropped + elsewhere(k)
                                   ELSE 0]
             f == [k \in Claws |-> a.claw[k].debt + a.claw[k].dropped]
  <2>1. ASSUME NEW k \in Claws, a.claw[k].unit = u PROVE elsewhere(k) = 0
    <3> DEFINE h == [l \in Lots |-> IF l \in OfUnit(a, u) THEN 0 ELSE a.claw[k].paid[l]]
    <3>1. ASSUME NEW l \in Lots, l \notin OfUnit(a, u) PROVE a.claw[k].paid[l] = 0
      <4>1. a.lot[l].unit # a.claw[k].unit
        BY <2>1, <3>1 DEF OfUnit
      <4>2. a.claw[k].source = "reversal" /\ ClawIsSound(a, k)
        BY <1>2, <2>1 DEF Sound
      <4> QED BY <4>1, <4>2 DEF ClawIsSound
    <3>2. \A l \in 1 .. MaxLot : h[l] = 0
      BY <3>1 DEF Lots
    <3> HIDE DEF h
    <3>3. SumTo(h, MaxLot) = 0
      BY <3>2, Sizes, SumZero
    <3> QED BY <3>3 DEF h, Total
  <2>2. ASSUME NEW k \in Claws PROVE c[k] = f[k]
    <3> HIDE DEF elsewhere
    <3>1. CASE a.claw[k].unit = u
      BY <1>4, <2>1, <3>1
    <3>2. CASE a.claw[k].unit # u
      BY <1>2, <1>3, <3>2
    <3> QED BY <3>1, <3>2
  <2>3. c = f
    <3> HIDE DEF elsewhere
    <3> QED BY <2>2
  <2>4. BilledOf(a, u) = SumTo(c, MaxClaw) /\ Charged(a) = SumTo(f, MaxClaw)
    BY DEF BilledOf, Charged
  <2> HIDE DEF c, f
  <2> QED BY <2>3, <2>4
<1>9. ClaimsOf(a, u) = PendingClaimTotal(a)
  <2> DEFINE f == [k \in Claws |-> IF a.claw[k].unit = u THEN a.claw[k].pending ELSE 0]
             g == [k \in Claws |-> a.claw[k].pending]
  <2>1. f = g
    BY <1>2, <1>3
  <2>2. ClaimsOf(a, u) = SumTo(f, MaxClaw) /\ PendingClaimTotal(a) = SumTo(g, MaxClaw)
    BY DEF ClaimsOf, PendingClaimTotal
  <2> HIDE DEF f, g
  <2> QED BY <2>1, <2>2
<1>8. ClaimableOf(a, u) = Natural(HeldOf(a, u) - PendingClaimTotal(a))
  BY <1>9 DEF ClaimableOf, HeldOf
<1>10. PositionOf(a, u) = Total(left) + Total(used)
                           - (Charged(a) - a.back.excused[u] - a.back.undone[u]
                              + PendingClaimTotal(a))
  BY <1>6, <1>7, <1>9 DEF PositionOf, ChargedBeyond
<1>11. UsedOf(a, u) = Total(used) + a.back.excused[u] + a.back.undone[u]
  BY DEF UsedOf
<1>12. Total(left) \in Nat /\ Total(used) \in Int
  <2>1. \A l \in Lots : a.lot[l].remaining \in Nat /\ a.back.returned[l] \in Nat
    BY <1>1, AccountTypes, LotTypes, BackTypes
  <2>2. \A l \in 1 .. MaxLot : left[l] \in Nat /\ used[l] \in Int
    BY <1>5, <2>1 DEF Lots
  <2> HIDE DEF left, used
  <2> QED BY <2>2, Sizes, SumNat, SumStep DEF Total, IntsUpTo
<1>13. /\ a.back.excused[u] \in Nat /\ a.back.undone[u] \in Nat
       /\ Charged(a) \in Nat /\ PendingClaimTotal(a) \in Nat
  BY <1>1, BackTypes, AmountTypes
<1> HIDE DEF used
<1>14. PositionOf(a, u) = Total(left) + UsedOf(a, u) - (Charged(a) + PendingClaimTotal(a))
  <2> HIDE DEF left
  <2> QED BY <1>10, <1>11, <1>12, <1>13
<1> QED BY <1>8, <1>14

\* Nothing was charged beyond the lots of a unit that nothing was taken back of.
LEMMA OthersUncharged ==
    ASSUME NEW a, Sound(a), NEW u \in Units, Alone(a, u), NEW v \in Units, v # u
    PROVE  ChargedBeyond(a, v) <= 0
<1>1. a \in Account /\ v # None
  BY ConstantsAssumption DEF Sound
<1>2. ASSUME NEW k \in Claws PROVE a.claw[k].unit # v
  <2>1. a.claw[k].state = "none" => a.claw[k] = NoClaw
    BY DEF Sound, ClawIsSound
  <2> QED BY <1>1, <2>1 DEF Alone, NoClaw
<1> DEFINE elsewhere(k) == Total([l \in Lots |-> IF l \in OfUnit(a, v) THEN 0
                                                 ELSE a.claw[k].paid[l]])
           c == [k \in Claws |-> IF a.claw[k].unit = v
                                 THEN a.claw[k].debt + a.claw[k].dropped + elsewhere(k)
                                 ELSE 0]
<1>3. \A k \in 1 .. MaxClaw : c[k] = 0
  <2> HIDE DEF elsewhere
  <2> QED BY <1>2 DEF Claws
<1>4. BilledOf(a, v) = SumTo(c, MaxClaw)
  BY DEF BilledOf
<1> HIDE DEF c
<1>5. BilledOf(a, v) = 0
  BY <1>3, <1>4, Sizes, SumZero
<1>6. a.back.excused[v] \in Nat /\ a.back.undone[v] \in Nat
  BY <1>1, BackTypes
<1> QED BY <1>5, <1>6 DEF ChargedBeyond

\* What clawback k does: it takes what is free, claims what it may of the rest
\* and charges what is left.
Clawing(a, b, k, source, unit, targets, amount, take, pending, debt) ==
    /\ b \in Account /\ take \in [Lots -> Nat] /\ pending \in Nat /\ debt \in Nat
    /\ \A l \in Lots :
          /\ take[l] <= Free(a, l)
          /\ l \notin targets => take[l] = 0
          /\ pending + debt > 0 /\ l \in targets => take[l] = Free(a, l)
          /\ b.lot[l].unit = a.lot[l].unit /\ b.lot[l].seq = a.lot[l].seq
          /\ b.lot[l].rank = a.lot[l].rank
          /\ b.lot[l].granted = a.lot[l].granted /\ b.lot[l].held = a.lot[l].held
          /\ b.lot[l].expired = a.lot[l].expired /\ b.lot[l].spent = a.lot[l].spent
          /\ b.lot[l].repaid = a.lot[l].repaid
          /\ b.lot[l].remaining = a.lot[l].remaining - take[l]
    /\ \A j \in Claws : j # k => b.claw[j] = a.claw[j]
    /\ b.claw[k] = [NoClaw EXCEPT !.state = "applied", !.source = source, !.unit = unit,
                                  !.want = Total(take) + pending + debt, !.took = take,
                                  !.pending = pending, !.debt = debt]
    /\ Total(take) \in Nat /\ Total(take) + pending + debt <= amount
    /\ pending = Least(pending + debt, Claimable(a, source, unit))
    /\ b.debt = a.debt + debt /\ b.forgiven = a.forgiven /\ b.back = a.back

Sources == {"plan_change", "reversal", "cover"}

LEMMA ClawBackParts ==
    ASSUME NEW a, Sound(a), NEW k \in Claws, NEW source \in Sources, NEW unit \in Units,
           NEW line, NEW amount \in Nat, NEW b, b = ClawBack(a, k, source, unit, line, amount),
           NEW targets, targets = {l \in Lots : a.lot[l].unit \in line}
    PROVE  \E take, pending, debt :
              Clawing(a, b, k, source, unit, targets, amount, take, pending, debt)
<1>0. a \in Account /\ a.debt \in Nat /\ \A l \in Lots : a.lot[l] \in Lot
  BY AccountTypes DEF Sound
<1> DEFINE most == [l \in Lots |-> IF l \in targets THEN EverHeld(a, l) ELSE 0]
           want == Least(amount, Total(most))
           take == PlanClawback(a, targets, want)
           pending == Least(want - Total(take), Claimable(a, source, unit))
           debt == want - Total(take) - pending
           row == [l \in Lots |-> [a.lot[l] EXCEPT !.remaining = @ - take[l]]]
           new == [NoClaw EXCEPT !.state = "applied", !.source = source,
                                 !.unit = unit, !.want = want, !.took = take,
                                 !.pending = pending, !.debt = debt]
<1>1. b = [a EXCEPT !.lot = row, !.claw[k] = new, !.debt = @ + debt]
  BY DEF ClawBack
<1>2. want \in Nat /\ want <= amount
  <2>1. \A l \in Lots : EverHeld(a, l) \in Nat
    BY FreeTypes
  <2>2. \A l \in 1 .. MaxLot : most[l] \in Nat
    BY <2>1 DEF Lots
  <2> HIDE DEF most
  <2>3. Total(most) \in Nat
    BY <2>2, Sizes, SumNat DEF Total
  <2> QED BY <2>3 DEF Least
<1> HIDE DEF want, most
<1> DEFINE free == [l \in Lots |-> IF l \in targets THEN Free(a, l) ELSE 0]
<1>3. /\ take \in [Lots -> Nat]
      /\ \A l \in Lots : /\ take[l] <= Free(a, l)
                         /\ l \notin targets => take[l] = 0
      /\ Total(take) \in Nat /\ Total(free) \in Nat
      /\ Total(take) = Least(want, Total(free))
      /\ Total(take) < want => \A l \in Lots : l \in targets => take[l] = Free(a, l)
  <2>1. PICK f, t : f = free /\ t = take
    OBVIOUS
  <2>2. /\ t \in [Lots -> Nat]
        /\ \A l \in Lots : /\ t[l] <= Free(a, l)
                           /\ l \notin targets => t[l] = 0
        /\ Total(t) \in Nat /\ Total(f) \in Nat
        /\ Total(t) = Least(want, Total(f))
        /\ Total(t) < want => \A l \in Lots : l \in targets => t[l] = Free(a, l)
    BY <1>2, <2>1, PlanClawbackFits
  <2> HIDE DEF free, take
  <2> QED BY <2>1, <2>2
<1> HIDE DEF take, free
<1>4. /\ pending \in Nat /\ debt \in Nat /\ Total(take) + pending + debt = want
      /\ pending = Least(pending + debt, Claimable(a, source, unit))
  <2>1. Claimable(a, source, unit) \in Nat
    BY <1>0, ClaimableFits
  <2>2. PICK x \in Nat, y \in Nat : x = Total(take) /\ y = Claimable(a, source, unit)
    BY <1>3, <2>1
  <2>3. x <= want /\ pending = Least(want - x, y) /\ debt = want - x - pending
    BY <1>2, <1>3, <2>2 DEF Least
  <2> HIDE DEF pending, debt
  <2>4. pending \in Nat /\ debt \in Nat /\ x + pending + debt = want
        /\ pending = Least(pending + debt, y)
    BY <1>2, <2>3 DEF Least
  <2> QED BY <2>2, <2>4
<1>5. new = [NoClaw EXCEPT !.state = "applied", !.source = source, !.unit = unit,
                           !.want = Total(take) + pending + debt, !.took = take,
                           !.pending = pending, !.debt = debt]
  BY <1>4
<1> HIDE DEF pending, debt
<1>6. new \in Claw
  <2>1. NoClaw \in Claw
    BY DEF NoClaw, Claw
  <2>2. PICK q \in Claw : q = NoClaw
    BY <2>1
  <2>3. new = [q EXCEPT !.state = "applied", !.source = source, !.unit = unit, !.want = want,
                        !.took = take, !.pending = pending, !.debt = debt]
    BY <2>2
  <2> HIDE DEF new
  <2> QED BY <1>2, <1>3, <1>4, <2>3 DEF Claw, Sources
<1> HIDE DEF new
<1>7. ASSUME NEW l \in Lots
      PROVE  /\ row[l] \in Lot /\ row[l].unit = a.lot[l].unit /\ row[l].seq = a.lot[l].seq
             /\ row[l].granted = a.lot[l].granted /\ row[l].held = a.lot[l].held
             /\ row[l].expired = a.lot[l].expired /\ row[l].spent = a.lot[l].spent
             /\ row[l].repaid = a.lot[l].repaid /\ row[l].rank = a.lot[l].rank
             /\ row[l].remaining = a.lot[l].remaining - take[l]
  <2>1. a.lot[l].remaining - take[l] \in Nat
    BY <1>0, <1>3, FreeTypes, LotTypes
  <2>2. PICK m \in Nat : m = a.lot[l].remaining - take[l]
    BY <2>1
  <2>3. PICK q \in Lot : q = a.lot[l]
    BY <1>0
  <2>4. PICK r : r = row[l]
    OBVIOUS
  <2>5. r = [q EXCEPT !.remaining = m]
    BY <2>2, <2>3, <2>4
  <2>6. /\ r \in Lot /\ r.unit = q.unit /\ r.seq = q.seq /\ r.granted = q.granted
        /\ r.held = q.held /\ r.expired = q.expired /\ r.spent = q.spent
        /\ r.repaid = q.repaid /\ r.rank = q.rank /\ r.remaining = m
    BY <2>5 DEF Lot
  <2> HIDE DEF row
  <2> QED BY <2>2, <2>3, <2>4, <2>6
<1>8. row \in [Lots -> Lot]
  BY <1>7
<1> HIDE DEF row
<1>9. /\ b \in Account /\ b.lot = row /\ b.debt = a.debt + debt /\ b.forgiven = a.forgiven
      /\ b.back = a.back /\ b.claw[k] = new /\ \A j \in Claws : j # k => b.claw[j] = a.claw[j]
  <2>1. PICK f : f = [a.claw EXCEPT ![k] = new]
    OBVIOUS
  <2>2. /\ f \in [Claws -> Claw] /\ f[k] = new
        /\ \A j \in Claws : j # k => f[j] = a.claw[j]
    BY <1>0, <1>6, <2>1, AccountTypes
  <2>3. PICK d \in Nat : d = a.debt + debt
    BY <1>0, <1>4
  <2>4. b = [a EXCEPT !.lot = row, !.claw = f, !.debt = d]
    BY <1>0, <1>1, <2>1, <2>3 DEF Account
  <2>5. /\ b \in Account /\ b.lot = row /\ b.debt = d /\ b.forgiven = a.forgiven
        /\ b.claw = f /\ b.back = a.back
    BY <1>0, <1>8, <2>2, <2>4 DEF Account
  <2> QED BY <2>2, <2>3, <2>5
<1>10. Clawing(a, b, k, source, unit, targets, amount, take, pending, debt)
  <2>1. pending + debt > 0 => \A l \in Lots : l \in targets => take[l] = Free(a, l)
    BY <1>2, <1>3, <1>4
  <2>2. Total(take) + pending + debt <= amount
    BY <1>2, <1>4
  <2> QED BY <1>3, <1>4, <1>5, <1>7, <1>9, <2>1, <2>2 DEF Clawing
<1> QED BY <1>10

\* One clawback more in a total over the clawbacks.
LEMMA OneClawMore ==
    ASSUME NEW f, NEW g, NEW k \in Claws, NEW x \in Int, IntsUpTo(f, MaxClaw),
           f[k] = 0, g[k] = x, \A j \in Claws : j # k => g[j] = f[j]
    PROVE  SumTo(g, MaxClaw) = SumTo(f, MaxClaw) + x
<1>1. IntsUpTo(f, MaxClaw) /\ IntsUpTo(g, MaxClaw)
  BY DEF IntsUpTo, Claws
<1>2. k \in 1 .. MaxClaw /\ \A j \in 1 .. MaxClaw : j # k => g[j] = f[j]
  BY DEF Claws
<1>3. SumTo(f, MaxClaw) \in Int
  BY Sizes, SumStep
<1>4. SumTo(g, MaxClaw) = SumTo(f, MaxClaw) + g[k] - f[k]
  BY ONLY <1>1, <1>2, Sizes, SumChange
<1> QED BY <1>3, <1>4

LEMMA ClawingTotals ==
    ASSUME NEW a, Sound(a), NEW k \in Claws, a.claw[k].state = "none",
           NEW b, NEW source, NEW unit, NEW targets, NEW amount, NEW take, NEW pending, NEW debt,
           Clawing(a, b, k, source, unit, targets, amount, take, pending, debt)
    PROVE  /\ b.claw[k].state = "applied" /\ b.claw[k].source = source
           /\ b.claw[k].unit = unit /\ b.claw[k].want = Total(take) + pending + debt
           /\ b.claw[k].took = take /\ \A l \in Lots : b.claw[k].paid[l] = 0
           /\ Total(b.claw[k].paid) = 0
           /\ b.claw[k].pending = pending /\ b.claw[k].debt = debt /\ b.claw[k].dropped = 0
           /\ \A l \in Lots : Clawed(b, l) = Clawed(a, l) + take[l]
           /\ DebtMade(b) = DebtMade(a) + debt
           /\ Charged(b) = Charged(a) + debt
           /\ PendingClaimTotal(b) = PendingClaimTotal(a) + pending
<1> DEFINE c == b.claw[k]
<1>1. /\ c.state = "applied" /\ c.source = source /\ c.unit = unit
      /\ c.want = Total(take) + pending + debt /\ c.took = take
      /\ c.paid = [l \in Lots |-> 0]
      /\ c.pending = pending /\ c.debt = debt /\ c.dropped = 0
  <2>1. c = [NoClaw EXCEPT !.state = "applied", !.source = source, !.unit = unit,
                           !.want = Total(take) + pending + debt, !.took = take,
                           !.pending = pending, !.debt = debt]
    BY DEF Clawing
  <2> HIDE DEF c
  <2> QED BY <2>1 DEF NoClaw
<1>2. /\ a.claw[k].pending = 0 /\ a.claw[k].debt = 0 /\ a.claw[k].dropped = 0
      /\ \A l \in Lots : a.claw[k].took[l] = 0 /\ a.claw[k].paid[l] = 0
  <2>1. a.claw[k] = NoClaw
    BY DEF Sound, ClawIsSound
  <2> QED BY <2>1 DEF NoClaw
<1>3. /\ take \in [Lots -> Nat] /\ pending \in Nat /\ debt \in Nat
      /\ \A j \in Claws : j # k => b.claw[j] = a.claw[j]
  BY DEF Clawing
<1>4. \A j \in Claws : /\ a.claw[j].pending \in Nat /\ a.claw[j].debt \in Nat
                       /\ a.claw[j].dropped \in Nat
                       /\ \A l \in Lots : a.claw[j].took[l] \in Nat /\ a.claw[j].paid[l] \in Nat
  BY AccountTypes, ClawTypes DEF Sound
<1>5. ASSUME NEW l \in Lots PROVE Clawed(b, l) = Clawed(a, l) + take[l]
  <2> DEFINE f == [j \in Claws |-> a.claw[j].took[l] + a.claw[j].paid[l]]
             g == [j \in Claws |-> b.claw[j].took[l] + b.claw[j].paid[l]]
  <2>1. \A j \in Claws : f[j] \in Nat /\ (j # k => g[j] = f[j])
    BY <1>3, <1>4
  <2>2. f[k] = 0 /\ g[k] = take[l] /\ take[l] \in Nat
    BY <1>1, <1>2, <1>3
  <2> HIDE DEF f, g
  <2>3. IntsUpTo(f, MaxClaw)
    BY <2>1 DEF IntsUpTo, Claws
  <2>4. SumTo(g, MaxClaw) = SumTo(f, MaxClaw) + take[l]
    BY <2>1, <2>2, <2>3, OneClawMore
  <2> QED BY <2>4 DEF f, g, Clawed
<1>6. DebtMade(b) = DebtMade(a) + debt
  <2> DEFINE f == [j \in Claws |-> a.claw[j].debt]
             g == [j \in Claws |-> b.claw[j].debt]
  <2>1. \A j \in Claws : f[j] \in Nat /\ (j # k => g[j] = f[j])
    BY <1>3, <1>4
  <2>2. f[k] = 0 /\ g[k] = debt
    BY <1>1, <1>2
  <2> HIDE DEF f, g
  <2>3. IntsUpTo(f, MaxClaw)
    BY <2>1 DEF IntsUpTo, Claws
  <2>4. SumTo(g, MaxClaw) = SumTo(f, MaxClaw) + debt
    BY <1>3, <2>1, <2>2, <2>3, OneClawMore
  <2> QED BY <2>4 DEF f, g, DebtMade
<1>7. Charged(b) = Charged(a) + debt
  <2> DEFINE f == [j \in Claws |-> a.claw[j].debt + a.claw[j].dropped]
             g == [j \in Claws |-> b.claw[j].debt + b.claw[j].dropped]
  <2>1. \A j \in Claws : f[j] \in Nat /\ (j # k => g[j] = f[j])
    BY <1>3, <1>4
  <2>2. f[k] = 0 /\ g[k] = debt
    BY <1>1, <1>2, <1>3
  <2> HIDE DEF f, g
  <2>3. IntsUpTo(f, MaxClaw)
    BY <2>1 DEF IntsUpTo, Claws
  <2>4. SumTo(g, MaxClaw) = SumTo(f, MaxClaw) + debt
    BY <1>3, <2>1, <2>2, <2>3, OneClawMore
  <2> QED BY <2>4 DEF f, g, Charged
<1>8. PendingClaimTotal(b) = PendingClaimTotal(a) + pending
  <2> DEFINE f == [j \in Claws |-> a.claw[j].pending]
             g == [j \in Claws |-> b.claw[j].pending]
  <2>1. \A j \in Claws : f[j] \in Nat /\ (j # k => g[j] = f[j])
    BY <1>3, <1>4
  <2>2. f[k] = 0 /\ g[k] = pending
    BY <1>1, <1>2
  <2> HIDE DEF f, g
  <2>3. IntsUpTo(f, MaxClaw)
    BY <2>1 DEF IntsUpTo, Claws
  <2>4. SumTo(g, MaxClaw) = SumTo(f, MaxClaw) + pending
    BY <1>3, <2>1, <2>2, <2>3, OneClawMore
  <2> QED BY <2>4 DEF f, g, PendingClaimTotal
<1>9. (\A l \in Lots : c.paid[l] = 0) /\ Total(c.paid) = 0
  <2>1. \A l \in Lots : c.paid[l] = 0
    BY <1>1
  <2>2. \A l \in 1 .. MaxLot : c.paid[l] = 0
    BY <2>1 DEF Lots
  <2> HIDE DEF c
  <2>3. SumTo(c.paid, MaxLot) = 0
    BY <2>2, Sizes, SumZero
  <2> QED BY <2>1, <2>3 DEF Total
<1> QED BY <1>1, <1>5, <1>6, <1>7, <1>8, <1>9

LEMMA ClawingIsSound ==
    ASSUME NEW a, Sound(a), NEW k \in Claws, a.claw[k].state = "none",
           NEW b, NEW source, NEW unit \in Units, NEW targets, NEW amount,
           NEW take, NEW pending, NEW debt,
           Clawing(a, b, k, source, unit, targets, amount, take, pending, debt),
           source # "plan_change" => \A l \in targets : a.lot[l].unit = unit
    PROVE  Sound(b)
<1>1. /\ a \in Account /\ b \in Account /\ take \in [Lots -> Nat] /\ debt \in Nat
      /\ b.debt = a.debt + debt /\ b.forgiven = a.forgiven
  BY DEF Sound, Clawing
<1>2. \A l \in Lots : Clawed(b, l) = Clawed(a, l) + take[l] /\ Clawed(a, l) \in Nat
  BY <1>1, ClawingTotals, AmountTypes
<1>3. ASSUME NEW l \in Lots
      PROVE  /\ b.lot[l].seq = a.lot[l].seq /\ b.lot[l].granted = a.lot[l].granted
             /\ b.lot[l].held <= b.lot[l].remaining
             /\ b.lot[l].remaining + b.lot[l].expired + b.lot[l].spent + b.lot[l].repaid
                  + Clawed(b, l)
                = a.lot[l].remaining + a.lot[l].expired + a.lot[l].spent + a.lot[l].repaid
                  + Clawed(a, l)
  <2>1. /\ b.lot[l].seq = a.lot[l].seq /\ b.lot[l].granted = a.lot[l].granted
        /\ b.lot[l].held = a.lot[l].held /\ b.lot[l].expired = a.lot[l].expired
        /\ b.lot[l].spent = a.lot[l].spent /\ b.lot[l].repaid = a.lot[l].repaid
        /\ b.lot[l].remaining = a.lot[l].remaining - take[l] /\ take[l] <= Free(a, l)
    BY DEF Clawing
  <2>2. take[l] \in Nat /\ a.lot[l] \in Lot
    BY <1>1, AccountTypes
  <2>3. b.lot[l].held <= b.lot[l].remaining
    BY <2>1, <2>2, LotTypes DEF Free
  <2> QED BY <1>2, <2>1, <2>2, <2>3, LotTypes
<1>4. ASSUME NEW j \in Claws PROVE ClawIsSound(b, j)
  <2>1. \A l \in Lots : b.lot[l].unit = a.lot[l].unit
    BY DEF Clawing
  <2>2. CASE j # k
    <3>1. b.claw[j] = a.claw[j] /\ ClawIsSound(a, j) /\ b.back = a.back
      BY <2>2 DEF Sound, Clawing
    <3> QED BY <2>1, <3>1 DEF ClawIsSound
  <2>3. CASE j = k
    <3>1. /\ b.claw[k].state = "applied" /\ b.claw[k].source = source
          /\ b.claw[k].unit = unit /\ b.claw[k].want = Total(take) + pending + debt
          /\ b.claw[k].took = take /\ \A l \in Lots : b.claw[k].paid[l] = 0
          /\ Total(b.claw[k].paid) = 0
          /\ b.claw[k].pending = pending /\ b.claw[k].debt = debt /\ b.claw[k].dropped = 0
      BY ClawingTotals
    <3>2. ASSUME NEW l \in Lots, source # "plan_change", b.lot[l].unit # unit
          PROVE  take[l] = 0
      <4>1. l \notin targets
        BY <2>1, <3>2
      <4> QED BY <4>1 DEF Clawing
    <3>3. Total(take) \in Nat /\ pending \in Nat /\ debt \in Nat
      BY DEF Clawing
    <3>5. b.back.released[k] = 0
      BY DEF Clawing, Sound, ClawIsSound
    <3>4. b.claw[k].want = Total(b.claw[k].took) + Total(b.claw[k].paid) + b.claw[k].pending
                           + b.back.released[k] + b.claw[k].debt + b.claw[k].dropped
      BY <3>1, <3>3, <3>5
    <3> QED BY <2>3, <3>1, <3>2, <3>4 DEF ClawIsSound
  <2> QED BY <2>2, <2>3
<1>5. b.debt - DebtMade(b) + Repaid(b) + b.forgiven
         = a.debt - DebtMade(a) + Repaid(a) + a.forgiven
  <2>1. Repaid(b) = Repaid(a)
    <3>1. \A l \in Lots : b.lot[l].repaid = a.lot[l].repaid
      BY DEF Clawing
    <3> QED BY <3>1 DEF Repaid
  <2>2. DebtMade(b) = DebtMade(a) + debt
    BY ClawingTotals
  <2>3. /\ DebtMade(a) \in Nat /\ Repaid(a) \in Nat /\ a.debt \in Nat /\ a.forgiven \in Nat
    BY <1>1, AmountTypes, AccountTypes
  <2> QED BY <1>1, <2>1, <2>2, <2>3
<1>6. ChargesKept(a, b)
  <2>1. ASSUME NEW l \in Lots
        PROVE  b.lot[l].repaid >= a.lot[l].repaid /\ b.lot[l].unit = a.lot[l].unit
    <3>1. b.lot[l].repaid = a.lot[l].repaid /\ a.lot[l].repaid \in Nat
      BY <1>1, AccountTypes, LotTypes DEF Clawing
    <3> QED BY <3>1 DEF Clawing
  <2>2. ASSUME NEW j \in Claws, j # k
        PROVE  /\ b.claw[j].unit = a.claw[j].unit
               /\ b.claw[j].debt >= a.claw[j].debt /\ b.claw[j].dropped >= a.claw[j].dropped
               /\ \A l \in Lots : /\ b.claw[j].took[l] >= a.claw[j].took[l]
                                  /\ b.claw[j].paid[l] >= a.claw[j].paid[l]
    <3>1. b.claw[j] = a.claw[j]
      BY <2>2 DEF Clawing
    <3>2. /\ a.claw[j].debt \in Nat /\ a.claw[j].dropped \in Nat
          /\ \A l \in Lots : a.claw[j].took[l] \in Nat /\ a.claw[j].paid[l] \in Nat
      BY <1>1, AccountTypes, ClawTypes
    <3> QED BY <3>1, <3>2
  <2>3. a.claw[k] = NoClaw /\ b.back = a.back
    BY DEF Sound, ClawIsSound, Clawing
  <2> QED BY <2>1, <2>2, <2>3 DEF ChargesKept
<1> QED BY <1>1, <1>3, <1>4, <1>5, <1>6, StaysSound

LEMMA ClawingKeeps ==
    ASSUME NEW a, Sound(a), NEW k \in Claws, a.claw[k].state = "none",
           NEW b, NEW source, NEW unit \in Units, NEW targets, NEW amount,
           NEW take, NEW pending, NEW debt, Sound(b),
           Clawing(a, b, k, source, unit, targets, amount, take, pending, debt),
           \A l \in Lots : a.lot[l].unit = unit => l \in targets
    PROVE  Keeps(a, b) /\ Lowers(a, b)
<1>1. /\ a \in Account /\ take \in [Lots -> Nat] /\ pending \in Nat /\ debt \in Nat
      /\ \A j \in Claws : j # k => b.claw[j] = a.claw[j]
      /\ pending = Least(pending + debt, Claimable(a, source, unit))
  BY DEF Sound, Clawing
<1>2. \A l \in Lots : /\ b.lot[l].held = a.lot[l].held /\ b.lot[l].spent = a.lot[l].spent
                      /\ b.lot[l].unit = a.lot[l].unit
  BY DEF Clawing
<1>3. PendingClaimTotal(b) > PendingClaimTotal(a) => PendingClaimTotal(b) <= HeldMicro(b)
  <2>1. PendingClaimTotal(b) = PendingClaimTotal(a) + pending
    BY ClawingTotals
  <2>2. HeldMicro(b) = HeldMicro(a)
    BY <1>2, HeldSame
  <2>3. HeldMicro(a) \in Nat /\ PendingClaimTotal(a) \in Nat
    BY <1>1, AmountTypes
  <2>4. /\ Claimable(a, source, unit) \in Nat
        /\ Claimable(a, source, unit) <= Natural(HeldMicro(a) - PendingClaimTotal(a))
    BY <1>1, ClaimableFits
  <2>5. pending <= Natural(HeldMicro(a) - PendingClaimTotal(a))
    BY <1>1, <2>3, <2>4 DEF Least, Natural
  <2> QED BY <1>1, <2>1, <2>2, <2>3, <2>5 DEF Natural
<1>4. Keeps(a, b)
  <2>1. ASSUME NEW j \in Claws, a.claw[j].state = "applied"
        PROVE  b.claw[j] = a.claw[j] /\ a.claw[j].pending \in Nat
    BY <1>1, <2>1, AccountTypes, ClawTypes
  <2>2. \A j \in Claws : a.claw[j].state = "applied" => b.claw[j].pending <= a.claw[j].pending
    BY <2>1
  <2> QED BY <1>2, <1>3, <2>1, <2>2 DEF Keeps
<1>5. ASSUME NEW l \in Lots PROVE Free(b, l) = Free(a, l) - take[l] /\ take[l] \in Nat
                                  /\ Free(a, l) \in Nat
  <2>1. /\ b.lot[l].remaining = a.lot[l].remaining - take[l] /\ a.lot[l] \in Lot
        /\ take[l] \in Nat /\ Free(a, l) \in Nat
    BY <1>1, AccountTypes, FreeTypes DEF Clawing
  <2> QED BY <1>2, <2>1, LotTypes DEF Free
<1>6. ASSUME NEW j \in Claws, a.claw[j].state = "none",
             b.claw[j].pending + b.claw[j].debt > 0, NEW l \in OfUnit(b, b.claw[j].unit)
      PROVE  Free(b, l) = 0
  <2>1. j = k
    <3> SUFFICES ASSUME j # k PROVE FALSE
      OBVIOUS
    <3>1. b.claw[j] = NoClaw
      BY <1>1, <1>6 DEF Sound, ClawIsSound
    <3> QED BY <1>6, <3>1 DEF NoClaw
  <2>2. b.claw[k].unit = unit /\ b.claw[k].pending = pending /\ b.claw[k].debt = debt
    BY ClawingTotals
  <2>3. l \in Lots /\ l \in targets /\ pending + debt > 0
    BY <1>2, <1>6, <2>1, <2>2 DEF OfUnit
  <2>4. take[l] = Free(a, l)
    BY <2>3 DEF Clawing
  <2> QED BY <1>5, <2>3, <2>4
<1>7. ASSUME NEW l \in Lots
      PROVE  /\ Own(b, l) <= Own(a, l) /\ GivenInto(b, l) = GivenInto(a, l)
             /\ GivenInto(a, l) \in Nat
             /\ Exists(a, l) => Exists(b, l) /\ b.lot[l].unit = a.lot[l].unit
  <2>1. GivenInto(b, l) = GivenInto(a, l)
    BY DEF Clawing, GivenInto
  <2>2. GivenInto(a, l) \in Nat
    BY OwnTypes
  <2>3. Exists(a, l) => Exists(b, l)
    BY DEF Clawing, Exists
  <2> QED BY <1>2, <1>5, <2>1, <2>2, <2>3 DEF Own
<1>8. Lowers(a, b)
  <2>1. ASSUME NEW j \in Claws, a.claw[j].state = "none",
               b.claw[j].pending + b.claw[j].debt > 0, NEW l \in OfUnit(b, b.claw[j].unit)
        PROVE  Free(b, l) <= GivenInto(b, l) - GivenInto(a, l)
    <3>1. l \in Lots
      BY DEF OfUnit
    <3> QED BY <1>6, <1>7, <2>1, <3>1
  <2>2. \A l \in Lots : GivenInto(b, l) >= GivenInto(a, l)
    BY <1>7
  <2> QED BY <1>7, <2>1, <2>2 DEF Lowers
<1> QED BY <1>4, <1>8

LEMMA HeldOfFits ==
    ASSUME NEW a \in Account, NEW u
    PROVE  HeldOf(a, u) <= HeldMicro(a)
<1> DEFINE f == [l \in Lots |-> IF l \in OfUnit(a, u) THEN a.lot[l].held ELSE 0]
           g == [l \in Lots |-> a.lot[l].held]
<1>1. ASSUME NEW l \in Lots PROVE f[l] \in Nat /\ g[l] \in Nat /\ f[l] <= g[l]
  <2>1. a.lot[l].held \in Nat
    BY AccountTypes, LotTypes
  <2> QED BY <2>1
<1>2. \A l \in 1 .. MaxLot : f[l] \in Nat /\ g[l] \in Nat /\ f[l] <= g[l]
  BY <1>1 DEF Lots
<1> HIDE DEF f, g
<1>3. SumTo(f, MaxLot) <= SumTo(g, MaxLot)
  BY <1>2, Sizes, SumMonotone DEF IntsUpTo
<1> QED BY <1>3 DEF f, g, HeldOf, HeldMicro, Total

\* What is left in a unit's lots is free or held.
LEMMA RemainingOf ==
    ASSUME NEW a, Sound(a), NEW u
    PROVE  /\ Total([l \in Lots |-> IF l \in OfUnit(a, u) THEN a.lot[l].remaining ELSE 0])
                = Total([l \in Lots |-> IF l \in OfUnit(a, u) THEN Free(a, l) ELSE 0])
                  + HeldOf(a, u)
           /\ Total([l \in Lots |-> IF l \in OfUnit(a, u) THEN Free(a, l) ELSE 0]) \in Nat
<1> DEFINE f == [l \in Lots |-> IF l \in OfUnit(a, u) THEN Free(a, l) ELSE 0]
           g == [l \in Lots |-> IF l \in OfUnit(a, u) THEN a.lot[l].held ELSE 0]
           h == [l \in Lots |-> IF l \in OfUnit(a, u) THEN a.lot[l].remaining ELSE 0]
<1>1. ASSUME NEW l \in Lots PROVE f[l] \in Nat /\ g[l] \in Nat /\ h[l] = f[l] + g[l]
  <2>1. a.lot[l] \in Lot /\ Free(a, l) \in Nat
    BY AccountTypes, FreeTypes DEF Sound
  <2>2. a.lot[l].remaining = Free(a, l) + a.lot[l].held /\ a.lot[l].held \in Nat
    BY <2>1, LotTypes DEF Free
  <2> QED BY <2>1, <2>2
<1>2. \A l \in 1 .. MaxLot : f[l] \in Nat /\ g[l] \in Nat /\ h[l] = f[l] + g[l]
  BY <1>1 DEF Lots
<1> HIDE DEF f, g, h
<1>3. SumTo(h, MaxLot) = SumTo(f, MaxLot) + SumTo(g, MaxLot)
  BY <1>2, Sizes, SumAdd DEF IntsUpTo
<1>4. SumTo(f, MaxLot) \in Nat
  BY <1>2, Sizes, SumNat
<1> QED BY <1>3, <1>4 DEF f, g, h, HeldOf, Total

LEMMA ClawingWorth ==
    ASSUME NEW a, Sound(a), Worth(a), NEW k \in Claws, a.claw[k].state = "none",
           NEW b, NEW source \in Sources, NEW unit \in Units, NEW targets, NEW amount \in Int,
           NEW take, NEW pending, NEW debt, Sound(b),
           Clawing(a, b, k, source, unit, targets, amount, take, pending, debt),
           source = "reversal" => targets = OfUnit(a, unit) /\ amount <= PositionOf(a, unit)
    PROVE  Worth(b)
<1> SUFFICES ASSUME NEW u \in Units, Alone(b, u)
             PROVE  /\ Charged(b) <= UsedOf(b, u)
                    /\ Charged(b) + PendingClaimTotal(b) <= HeldOf(b, u) + UsedOf(b, u)
  BY DEF Worth
<1>1. /\ a \in Account /\ take \in [Lots -> Nat] /\ pending \in Nat /\ debt \in Nat
      /\ \A j \in Claws : j # k => b.claw[j] = a.claw[j]
      /\ pending = Least(pending + debt, Claimable(a, source, unit))
      /\ Total(take) \in Nat /\ Total(take) + pending + debt <= amount
      /\ \A l \in Lots : /\ b.lot[l].unit = a.lot[l].unit /\ b.lot[l].held = a.lot[l].held
                         /\ b.lot[l].spent = a.lot[l].spent
                         /\ b.lot[l].repaid = a.lot[l].repaid
      /\ b.back = a.back
  BY DEF Sound, Clawing
<1>2. /\ b.claw[k].state = "applied" /\ b.claw[k].source = source /\ b.claw[k].unit = unit
      /\ Charged(b) = Charged(a) + debt
      /\ PendingClaimTotal(b) = PendingClaimTotal(a) + pending
  BY ClawingTotals
<1>3. source = "reversal" /\ unit = u
  <2>1. b.claw[k].state # "none"
    BY <1>2
  <2> QED BY <1>2, <2>1 DEF Alone
<1>4. Alone(a, u)
  BY <1>1 DEF Alone
<1>5. /\ OfUnit(b, u) = OfUnit(a, u)
      /\ HeldOf(b, u) = HeldOf(a, u) /\ UsedOf(b, u) = UsedOf(a, u)
  <2>1. OfUnit(b, u) = OfUnit(a, u)
    BY <1>1 DEF OfUnit
  <2> QED BY <1>1, <2>1 DEF HeldOf, UsedOf
<1> DEFINE free == [l \in Lots |-> IF l \in OfUnit(a, u) THEN Free(a, l) ELSE 0]
           left == [l \in Lots |-> IF l \in OfUnit(a, u) THEN a.lot[l].remaining ELSE 0]
<1>6. Total(left) = Total(free) + HeldOf(a, u) /\ Total(free) \in Nat
  BY RemainingOf
<1>7. /\ PositionOf(a, u) = Total(left) + UsedOf(a, u) - (Charged(a) + PendingClaimTotal(a))
      /\ ClaimableOf(a, u) = Natural(HeldOf(a, u) - PendingClaimTotal(a))
  BY <1>4, PositionAlone
<1>8. ASSUME pending + debt > 0 PROVE Total(take) = Total(free)
  <2>1. \A l \in Lots : take[l] = free[l]
    BY <1>3, <1>8 DEF Clawing
  <2>2. take = free
    BY <1>1, <2>1
  <2> HIDE DEF free
  <2> QED BY <2>2
<1> HIDE DEF free, left
<1>9. Claimable(a, source, unit) = Least(Natural(HeldMicro(a) - PendingClaimTotal(a)),
                                         Natural(HeldOf(a, u) - PendingClaimTotal(a)))
  BY <1>3, <1>7 DEF Claimable
<1>10. /\ Charged(a) <= UsedOf(a, u)
       /\ Charged(a) + PendingClaimTotal(a) <= HeldOf(a, u) + UsedOf(a, u)
  BY <1>4 DEF Worth
<1>11. PICK D \in Nat, P \in Nat, H \in Nat, U \in Int, M \in Nat :
          /\ D = Charged(a) /\ P = PendingClaimTotal(a) /\ H = HeldOf(a, u)
          /\ U = UsedOf(a, u) /\ M = HeldMicro(a)
  BY <1>1, AmountTypes
<1>12. H <= M
  BY <1>1, <1>11, HeldOfFits
<1>13. pending = Least(pending + debt, Least(Natural(M - P), Natural(H - P)))
  BY <1>1, <1>9, <1>11
<1>14. PICK x \in Nat, F \in Nat : x = Total(take) /\ F = Total(free)
  BY <1>1, <1>6
<1>15. x + pending + debt <= F + H + U - (D + P)
  BY <1>1, <1>3, <1>6, <1>7, <1>11, <1>14
<1>16. pending + debt > 0 => x = F
  BY <1>8, <1>14
<1>17. D + debt <= U /\ D + debt + P + pending <= H + U
  <2>1. D <= U /\ D + P <= H + U
    BY <1>10, <1>11
  <2>2. CASE pending + debt = 0
    BY <1>1, <2>1, <2>2
  <2>3. CASE pending + debt > 0
    <3>1. pending + debt <= H + U - (D + P)
      BY <1>1, <1>14, <1>15, <1>16, <2>3
    <3>2. debt > 0 => pending = Natural(H - P)
      BY <1>1, <1>12, <1>13 DEF Least, Natural
    <3>3. D + debt <= U
      BY <1>1, <2>1, <3>1, <3>2 DEF Natural
    <3> QED BY <1>1, <3>1, <3>3
  <2> QED BY <1>1, <2>2, <2>3
<1> QED BY <1>1, <1>2, <1>5, <1>11, <1>17

-----------------------------------------------------------------------------
(* The chains of a refresh, a reversal and an adjustment *)

\* A step that adds credit leaves the clawbacks alone, one that takes credit back
\* or gives it back adds none but what it gives.
Up(a, b) ==
    /\ Sound(b) /\ Worth(b) /\ Keeps(a, b) /\ b.claw = a.claw
    /\ \A l \in Lots : GivenInto(b, l) >= GivenInto(a, l)
Down(a, b) == Sound(b) /\ Worth(b) /\ Keeps(a, b) /\ Lowers(a, b)

LEMMA StandStill ==
    ASSUME NEW a, Sound(a), Worth(a)
    PROVE  Up(a, a) /\ Down(a, a)
<1>1. Keeps(a, a)
  BY ClawlessKeeps
<1>2. Lowers(a, a)
  <2>1. \A l \in Lots : a.lot[l].remaining <= a.lot[l].remaining
    BY AccountTypes, LotTypes DEF Sound
  <2> QED BY <2>1, ClawlessLowers
<1>3. \A l \in Lots : GivenInto(a, l) >= GivenInto(a, l)
  BY <1>2 DEF Lowers
<1> QED BY <1>1, <1>2, <1>3 DEF Up, Down

LEMMA UpOn ==
    ASSUME NEW a, NEW b, NEW c, Sound(a), Up(a, b), Up(b, c)
    PROVE  Up(a, c)
<1>1. a \in Account /\ b \in Account /\ c \in Account
  BY DEF Up, Sound
<1>2. Keeps(a, c)
  BY <1>1, KeepsOn DEF Up
<1>3. ASSUME NEW l \in Lots PROVE GivenInto(c, l) >= GivenInto(a, l)
  <2>1. GivenInto(a, l) \in Nat /\ GivenInto(b, l) \in Nat /\ GivenInto(c, l) \in Nat
    BY <1>1, GivenTypes
  <2>2. GivenInto(b, l) >= GivenInto(a, l) /\ GivenInto(c, l) >= GivenInto(b, l)
    BY DEF Up
  <2> QED BY <2>1, <2>2
<1> QED BY <1>2, <1>3 DEF Up

LEMMA DownOn ==
    ASSUME NEW a, NEW b, NEW c, Sound(a), Down(a, b), Down(b, c)
    PROVE  Down(a, c)
<1>1. a \in Account /\ b \in Account /\ c \in Account
  BY DEF Down, Sound
<1>2. Keeps(a, c)
  BY <1>1, KeepsOn DEF Down
<1>3. Lowers(a, c)
  BY LowersOn DEF Down
<1> QED BY <1>2, <1>3 DEF Down

LEMMA ClawBackSteps ==
    ASSUME NEW a, Sound(a), Worth(a), NEW k \in Claws, a.claw[k].state = "none",
           NEW source \in Sources, NEW unit \in Units, NEW line, unit \in line,
           NEW amount \in Nat, NEW b, b = ClawBack(a, k, source, unit, line, amount),
           source # "plan_change" => line = {unit},
           source = "reversal" => amount <= PositionOf(a, unit)
    PROVE  Down(a, b)
<1>1. PICK targets : targets = {l \in Lots : a.lot[l].unit \in line}
  OBVIOUS
<1>2. PICK take, pending, debt :
         Clawing(a, b, k, source, unit, targets, amount, take, pending, debt)
  BY <1>1, ClawBackParts
<1>3. source # "plan_change" => \A l \in targets : a.lot[l].unit = unit
  BY <1>1
<1>4. Sound(b)
  BY <1>2, <1>3, ClawingIsSound
<1>5. \A l \in Lots : a.lot[l].unit = unit => l \in targets
  BY <1>1
<1>6. Keeps(a, b) /\ Lowers(a, b)
  BY <1>2, <1>4, <1>5, ClawingKeeps
<1>7. source = "reversal" => targets = OfUnit(a, unit) /\ amount <= PositionOf(a, unit)
  BY <1>1 DEF OfUnit
<1>8. Worth(b)
  <2>1. amount \in Int
    OBVIOUS
  <2> QED BY <1>2, <1>4, <1>7, <2>1, ClawingWorth
<1> QED BY <1>4, <1>6, <1>8 DEF Down

LEMMA TakenBackSteps ==
    ASSUME NEW a, Sound(a), Worth(a), NEW source \in {"reversal", "cover"}, NEW unit \in Units,
           NEW b \in TakenBack(a, source, unit)
    PROVE  Down(a, b)
<1>1. PICK p \in NextClaws(a) \X {r \in Reversals : r <= PositionOf(a, unit)} :
         b = ClawBack(a, p[1], source, unit, {unit}, p[2])
  BY DEF TakenBack
<1>2. /\ p[1] \in Claws /\ p[2] \in Reversals /\ a.claw[p[1]].state = "none"
      /\ p[2] <= PositionOf(a, unit)
  BY <1>1 DEF NextClaws
<1>3. p[2] \in Nat /\ source \in Sources /\ unit \in {unit}
  BY <1>2 DEF Sources
<1>4. source # "plan_change" => {unit} = {unit}
  OBVIOUS
<1>5. PICK line : line = {unit}
  OBVIOUS
<1>6. b = ClawBack(a, p[1], source, unit, line, p[2])
  BY <1>1, <1>5
<1> QED BY <1>1, <1>2, <1>3, <1>5, <1>6, ClawBackSteps

LEMMA LevelSteps ==
    ASSUME NEW a, Sound(a), Worth(a), now \in Nat, NEW b \in LevelReconciled(a)
    PROVE  Up(a, b) \/ Down(a, b)
<1>1. CASE b = a
  BY <1>1, StandStill
<1>2. ASSUME NEW u \in Units, b \in Granted(a, u) PROVE Up(a, b)
  <2>1. u \in Units \cup {None}
    OBVIOUS
  <2> QED BY <1>2, <2>1, GrantSteps DEF Up
<1>3. ASSUME NEW k \in NextClaws(a), NEW line \in SUBSET Units, NEW u \in line, NEW n \in Downgrades,
             b = SettleDebtFromFree(ClawBack(a, k, "plan_change", u, line, n))
      PROVE  Down(a, b)
  <2>1. k \in Claws /\ a.claw[k].state = "none" /\ u \in Units
    BY DEF NextClaws
  <2>2. n \in Nat /\ "plan_change" \in Sources
    BY DEF Sources
  <2>3. PICK c : c = ClawBack(a, k, "plan_change", u, line, n)
    OBVIOUS
  <2>4. Down(a, c)
    BY <2>1, <2>2, <2>3, ClawBackSteps
  <2>5. Down(c, b)
    BY <1>3, <2>3, <2>4, SettleDebtSteps DEF Down
  <2> QED BY <2>4, <2>5, DownOn
<1> DEFINE lines == {line \in SUBSET Units : /\ \A u \in line : Running(a, u)
                                             /\ \E l \in Lots : a.lot[l].unit \in line}
           less(k) == UNION {{ClawBack(a, k, "plan_change", p[1], line, p[2]) :
                                 p \in line \X Downgrades} : line \in lines}
<1>4. ASSUME NEW k \in NextClaws(a), NEW c \in less(k), b = SettleDebtFromFree(c)
      PROVE  Down(a, b)
  <2>1. PICK line \in lines : c \in {ClawBack(a, k, "plan_change", p[1], line, p[2]) :
                                        p \in line \X Downgrades}
    BY <1>4
  <2>2. line \in SUBSET Units
    BY <2>1
  <2> HIDE DEF less, lines
  <2>3. PICK p \in line \X Downgrades : c = ClawBack(a, k, "plan_change", p[1], line, p[2])
    BY <2>1
  <2>4. p[1] \in line /\ p[2] \in Downgrades
    OBVIOUS
  <2> QED BY <1>3, <1>4, <2>2, <2>3, <2>4
<1>5. CASE b \in Downgraded(a)
  <2>1. b \in {SettleDebtFromFree(c) : c \in UNION {less(k) : k \in NextClaws(a)}}
    BY <1>5 DEF Downgraded
  <2> HIDE DEF less, lines
  <2>2. PICK c \in UNION {less(k) : k \in NextClaws(a)} : b = SettleDebtFromFree(c)
    BY <2>1
  <2>3. PICK k \in NextClaws(a) : c \in less(k)
    BY <2>2
  <2> QED BY <1>4, <2>2, <2>3
<1>6. b = a \/ (\E u \in Units : b \in Granted(a, u)) \/ b \in Downgraded(a)
  BY DEF LevelReconciled
<1> QED BY <1>1, <1>2, <1>5, <1>6

-----------------------------------------------------------------------------
(* Give-backs *)

\* What a step keeps that changes nothing of a lot but what it gives into it.
Giving(a, b, give) ==
    /\ b.claw = a.claw
    /\ \A l \in Lots :
          /\ give[l] \in Nat
          /\ b.lot[l].unit = a.lot[l].unit /\ b.lot[l].rank = a.lot[l].rank
          /\ b.lot[l].seq = a.lot[l].seq /\ b.lot[l].granted = a.lot[l].granted
          /\ b.lot[l].held = a.lot[l].held /\ b.lot[l].expired = a.lot[l].expired
          /\ b.lot[l].spent = a.lot[l].spent /\ b.lot[l].repaid = a.lot[l].repaid
          /\ b.lot[l].remaining = a.lot[l].remaining + give[l]
          /\ b.back.restored[l] + b.back.returned[l]
                = a.back.restored[l] + a.back.returned[l] + give[l]

LEMMA GivingSteps ==
    ASSUME NEW a, NEW b, NEW give, Sound(a), Sound(b), Giving(a, b, give)
    PROVE  Keeps(a, b) /\ Lowers(a, b)
<1>1. Keeps(a, b)
  BY ClawlessKeeps DEF Giving
<1>2. ASSUME NEW l \in Lots
      PROVE  /\ Own(b, l) <= Own(a, l) /\ GivenInto(b, l) >= GivenInto(a, l)
             /\ Exists(a, l) => Exists(b, l) /\ b.lot[l].unit = a.lot[l].unit
  <2>1. /\ give[l] \in Nat /\ a.lot[l].remaining \in Nat /\ a.lot[l].held \in Nat
        /\ a.lot[l].granted \in Nat
        /\ a.back.restored[l] \in Nat /\ a.back.returned[l] \in Nat
        /\ b.back.restored[l] \in Nat /\ b.back.returned[l] \in Nat
    BY AccountTypes, LotTypes, BackTypes DEF Giving, Sound
  <2>2. Free(b, l) = Free(a, l) + give[l]
    BY <2>1 DEF Giving, Free
  <2>3. GivenInto(b, l) = GivenInto(a, l) + give[l]
    BY <2>1 DEF Giving, GivenInto
  <2>4. Free(a, l) \in Nat /\ GivenInto(a, l) \in Nat
    BY OwnTypes
  <2>5. Own(b, l) <= Own(a, l) /\ GivenInto(b, l) >= GivenInto(a, l)
    BY <2>1, <2>2, <2>3, <2>4 DEF Own
  <2> QED BY <2>5 DEF Giving, Exists
<1>3. ASSUME NEW k \in Claws, a.claw[k].state = "none",
             b.claw[k].pending + b.claw[k].debt > 0
      PROVE  FALSE
  <2>1. b.claw[k] = NoClaw
    BY <1>3 DEF Giving, Sound, ClawIsSound
  <2> QED BY <1>3, <2>1 DEF NoClaw
<1> QED BY <1>1, <1>2, <1>3 DEF Lowers

LEMMA GivingIsSound ==
    ASSUME NEW a, NEW b, NEW give, Sound(a), b \in Account, Giving(a, b, give),
           \A l \in Lots : /\ Clawed(b, l) = Clawed(a, l)
                           /\ ~ Exists(a, l) => give[l] = 0
                           /\ b.back.restored[l] <= TakenFrom(b, l)
                           /\ b.back.returned[l] <= PaidFrom(b, l),
           \A k \in Claws : ClawIsSound(b, k),
           \A u \in Units : ChargedBeyond(b, u) >= 0,
           b.debt = DebtMade(b) - Repaid(b) - b.forgiven
    PROVE  Sound(b)
<1>1. ASSUME NEW l \in Lots
      PROVE  /\ b.lot[l].seq = a.lot[l].seq /\ b.lot[l].granted = a.lot[l].granted
             /\ b.lot[l].held <= b.lot[l].remaining
             /\ b.lot[l].granted + b.back.restored[l] + b.back.returned[l]
                = b.lot[l].remaining + b.lot[l].expired + b.lot[l].spent + b.lot[l].repaid
                   + Clawed(b, l)
             /\ ~ Exists(a, l) => b.back.restored[l] = 0 /\ b.back.returned[l] = 0
  <2>1. LotIsSound(a, l) /\ a.lot[l] \in Lot /\ Clawed(a, l) \in Nat
    BY AccountTypes, AmountTypes DEF Sound
  <2>2. /\ a.back.restored[l] \in Nat /\ a.back.returned[l] \in Nat
        /\ b.back.restored[l] \in Nat /\ b.back.returned[l] \in Nat /\ give[l] \in Nat
    BY BackTypes DEF Giving, Sound
  <2>3. /\ b.lot[l].seq = a.lot[l].seq /\ b.lot[l].granted = a.lot[l].granted
        /\ b.lot[l].held = a.lot[l].held /\ b.lot[l].expired = a.lot[l].expired
        /\ b.lot[l].spent = a.lot[l].spent /\ b.lot[l].repaid = a.lot[l].repaid
        /\ b.lot[l].remaining = a.lot[l].remaining + give[l]
        /\ b.back.restored[l] + b.back.returned[l]
              = a.back.restored[l] + a.back.returned[l] + give[l]
    BY DEF Giving
  <2>4. b.lot[l].held <= b.lot[l].remaining
    BY <2>1, <2>2, <2>3, LotTypes DEF LotIsSound
  <2>5. ASSUME ~ Exists(a, l) PROVE b.back.restored[l] = 0 /\ b.back.returned[l] = 0
    <3>1. give[l] = 0
      BY <2>5
    <3>2. a.back.restored[l] = 0 /\ a.back.returned[l] = 0
      BY <2>1, <2>5 DEF LotIsSound
    <3> QED BY <2>2, <2>3, <3>1, <3>2
  <2>6. b.lot[l].granted + b.back.restored[l] + b.back.returned[l]
           = b.lot[l].remaining + b.lot[l].expired + b.lot[l].spent + b.lot[l].repaid
              + Clawed(b, l)
    BY <2>1, <2>2, <2>3, LotTypes DEF LotIsSound
  <2> QED BY <2>3, <2>4, <2>5, <2>6
<1> QED BY <1>1, SoundAgain

\* A lot that was given something.
LEMMA GivenRow ==
    ASSUME NEW a \in Account, NEW give, \A l \in Lots : give[l] \in Nat,
           NEW row, row = [l \in Lots |-> [a.lot[l] EXCEPT !.remaining = @ + give[l]]],
           NEW l \in Lots
    PROVE  /\ row[l] \in Lot /\ row[l].unit = a.lot[l].unit /\ row[l].seq = a.lot[l].seq
           /\ row[l].rank = a.lot[l].rank /\ row[l].granted = a.lot[l].granted
           /\ row[l].held = a.lot[l].held /\ row[l].expired = a.lot[l].expired
           /\ row[l].spent = a.lot[l].spent /\ row[l].repaid = a.lot[l].repaid
           /\ row[l].remaining = a.lot[l].remaining + give[l]
<1>1. PICK q \in Lot : q = a.lot[l]
  BY AccountTypes
<1>2. PICK m \in Nat : m = q.remaining + give[l]
  BY <1>1, LotTypes
<1>3. PICK r : r = row[l]
  OBVIOUS
<1>4. r = [q EXCEPT !.remaining = m]
  BY <1>1, <1>2, <1>3
<1>5. /\ r \in Lot /\ r.unit = q.unit /\ r.seq = q.seq /\ r.rank = q.rank
      /\ r.granted = q.granted /\ r.held = q.held /\ r.expired = q.expired
      /\ r.spent = q.spent /\ r.repaid = q.repaid /\ r.remaining = m
  BY <1>4 DEF Lot
<1> QED BY ONLY <1>1, <1>2, <1>3, <1>5

\* A row that was never inserted has no room.
LEMMA NoRoom ==
    ASSUME NEW a, Sound(a), NEW give,
           \A l \in Lots : give[l] \in Nat /\ give[l] <= Room(a, l)
    PROVE  \A l \in Lots : ~ Exists(a, l) => give[l] = 0
<1> SUFFICES ASSUME NEW l \in Lots, ~ Exists(a, l) PROVE give[l] = 0
  OBVIOUS
<1>1. a.lot[l].granted = 0 /\ a.lot[l].remaining = 0
  BY UnusedRow
<1>2. Room(a, l) = 0
  BY <1>1 DEF Room
<1> QED BY <1>2

\* What was charged beyond a unit's lots is the same while clawbacks only differ
\* in their claims.
LEMMA BilledSame ==
    ASSUME NEW a, NEW b,
           \A l \in Lots : b.lot[l].unit = a.lot[l].unit /\ b.lot[l].repaid = a.lot[l].repaid,
           \A k \in Claws :
              /\ b.claw[k].unit = a.claw[k].unit /\ b.claw[k].took = a.claw[k].took
              /\ b.claw[k].paid = a.claw[k].paid /\ b.claw[k].debt = a.claw[k].debt
              /\ b.claw[k].dropped = a.claw[k].dropped
    PROVE  /\ \A u : BilledOf(b, u) = BilledOf(a, u)
           /\ \A l \in Lots : /\ TakenFrom(b, l) = TakenFrom(a, l)
                              /\ PaidFrom(b, l) = PaidFrom(a, l)
                              /\ Clawed(b, l) = Clawed(a, l)
           /\ DebtMade(b) = DebtMade(a) /\ Charged(b) = Charged(a) /\ Repaid(b) = Repaid(a)
<1>1. ASSUME NEW u PROVE BilledOf(b, u) = BilledOf(a, u)
  <2> DEFINE ea(k) == Total([l \in Lots |-> IF l \in OfUnit(a, u) THEN 0 ELSE a.claw[k].paid[l]])
             eb(k) == Total([l \in Lots |-> IF l \in OfUnit(b, u) THEN 0 ELSE b.claw[k].paid[l]])
             f == [k \in Claws |-> IF a.claw[k].unit = u
                                   THEN a.claw[k].debt + a.claw[k].dropped + ea(k) ELSE 0]
             g == [k \in Claws |-> IF b.claw[k].unit = u
                                   THEN b.claw[k].debt + b.claw[k].dropped + eb(k) ELSE 0]
  <2>1. OfUnit(b, u) = OfUnit(a, u)
    BY DEF OfUnit
  <2>2. \A k \in Claws : eb(k) = ea(k)
    BY <2>1
  <2>3. g = f
    <3> HIDE DEF ea, eb
    <3> QED BY <2>2
  <2>4. BilledOf(a, u) = SumTo(f, MaxClaw) /\ BilledOf(b, u) = SumTo(g, MaxClaw)
    BY DEF BilledOf
  <2> HIDE DEF f, g
  <2> QED BY <2>3, <2>4
<1>2. ASSUME NEW l \in Lots
      PROVE  /\ TakenFrom(b, l) = TakenFrom(a, l) /\ PaidFrom(b, l) = PaidFrom(a, l)
             /\ Clawed(b, l) = Clawed(a, l)
  BY DEF TakenFrom, PaidFrom, Clawed
<1>3. DebtMade(b) = DebtMade(a) /\ Charged(b) = Charged(a) /\ Repaid(b) = Repaid(a)
  BY DEF DebtMade, Charged, Repaid
<1> QED BY <1>1, <1>2, <1>3

\* Releasing a unit's claims charges nothing and gives nothing into a lot.
LEMMA ReleasedSteps ==
    ASSUME NEW a, Sound(a), Worth(a), NEW unit \in Units, NEW amount \in Nat,
           NEW b, b = ClaimsReleased(a, unit, amount)
    PROVE  /\ Down(a, b)
           /\ \A u \in Units : ChargedBeyond(b, u) = ChargedBeyond(a, u)
<1> DEFINE owed == [k \in Claws |-> IF a.claw[k].unit = unit THEN a.claw[k].pending ELSE 0]
           release == [k \in Claws |-> Waterfall(amount, owed, k)]
           row == [k \in Claws |-> [a.claw[k] EXCEPT !.pending = @ - release[k]]]
           given == [k \in Claws |-> a.back.released[k] + release[k]]
<1>1. /\ a \in Account /\ \A k \in Claws : a.claw[k] \in Claw /\ a.claw[k].pending \in Nat
      /\ a.back \in Back
  BY AccountTypes, ClawTypes DEF Sound
<1>2. \A k \in Claws : release[k] \in Nat /\ release[k] <= owed[k]
  <2>1. \A k \in 1 .. MaxClaw : owed[k] \in Nat
    BY <1>1 DEF Claws
  <2>2. \A k \in 1 .. MaxClaw : release[k] = Waterfall(amount, owed, k)
    BY DEF Claws
  <2> HIDE DEF owed, release
  <2>3. \A k \in 1 .. MaxClaw : release[k] \in Nat /\ release[k] <= owed[k]
    BY <2>1, <2>2, Sizes, WaterfallFits
  <2> QED BY <2>3 DEF Claws
<1>3. b = [a EXCEPT !.claw = row, !.back.released = [k \in Claws |-> @[k] + release[k]]]
  BY DEF ClaimsReleased
<1>4. \A k \in Claws : a.claw[k].unit # unit => release[k] = 0
  <2>1. \A k \in Claws : a.claw[k].unit # unit => owed[k] = 0
    OBVIOUS
  <2> HIDE DEF owed, release
  <2> QED BY <1>2, <2>1
<1>5. \A k \in Claws : release[k] <= a.claw[k].pending
  <2>1. \A k \in Claws : owed[k] <= a.claw[k].pending
    BY <1>1
  <2>2. \A k \in Claws : owed[k] \in Nat
    BY <1>1
  <2> HIDE DEF owed, release
  <2> QED BY <1>1, <1>2, <2>1, <2>2
<1> HIDE DEF owed, release
<1>6. ASSUME NEW k \in Claws
      PROVE  /\ row[k] \in Claw /\ row[k].state = a.claw[k].state
             /\ row[k].source = a.claw[k].source /\ row[k].unit = a.claw[k].unit
             /\ row[k].want = a.claw[k].want /\ row[k].took = a.claw[k].took
             /\ row[k].paid = a.claw[k].paid /\ row[k].debt = a.claw[k].debt
             /\ row[k].dropped = a.claw[k].dropped
             /\ row[k].pending = a.claw[k].pending - release[k]
             /\ release[k] = 0 => row[k] = a.claw[k]
  <2>1. PICK q \in Claw : q = a.claw[k]
    BY <1>1
  <2>2. PICK m \in Nat : m = q.pending - release[k]
    BY <1>1, <1>2, <1>5, <2>1
  <2>3. row[k] = [q EXCEPT !.pending = m]
    BY <2>1, <2>2
  <2>4. PICK r : r = row[k]
    OBVIOUS
  <2> HIDE DEF row
  <2>5. r = [q EXCEPT !.pending = m]
    BY <2>3, <2>4
  <2>6. /\ r \in Claw /\ r.state = q.state /\ r.source = q.source /\ r.unit = q.unit
        /\ r.want = q.want /\ r.took = q.took /\ r.paid = q.paid /\ r.debt = q.debt
        /\ r.dropped = q.dropped /\ r.pending = m
    BY <2>5 DEF Claw
  <2>7. release[k] = 0 => m = q.pending
    BY <1>1, <2>1, <2>2
  <2>8. release[k] = 0 => r = q
    BY <2>5, <2>7 DEF Claw
  <2> QED BY <2>1, <2>2, <2>4, <2>6, <2>8
<1>7. row \in [Claws -> Claw] /\ given \in [Claws -> Nat]
  <2>1. \A k \in Claws : a.back.released[k] \in Nat
    BY <1>1, BackTypes
  <2> QED BY <1>2, <1>6, <2>1
<1> HIDE DEF row
<1>8. /\ b \in Account /\ b.lot = a.lot /\ b.claw = row /\ b.debt = a.debt
      /\ b.forgiven = a.forgiven
      /\ b.back.released = given /\ b.back.restored = a.back.restored
      /\ b.back.returned = a.back.returned /\ b.back.excused = a.back.excused
      /\ b.back.undone = a.back.undone
  <2>1. PICK h : h = [a.back EXCEPT !.released = given]
    OBVIOUS
  <2>2. /\ h \in Back /\ h.released = given /\ h.restored = a.back.restored
        /\ h.returned = a.back.returned /\ h.excused = a.back.excused
        /\ h.undone = a.back.undone
    <3> HIDE DEF given
    <3> QED BY <1>1, <1>7, <2>1 DEF Back
  <2>3. b = [a EXCEPT !.claw = row, !.back = h]
    BY <1>1, <1>3, <2>1 DEF Account
  <2> QED BY <1>1, <1>7, <2>2, <2>3 DEF Account
<1>9. \A k \in Claws : b.back.released[k] = a.back.released[k] + release[k]
  BY <1>8
<1> HIDE DEF given
<1>10. /\ \A u : BilledOf(b, u) = BilledOf(a, u)
       /\ \A l \in Lots : /\ TakenFrom(b, l) = TakenFrom(a, l)
                          /\ PaidFrom(b, l) = PaidFrom(a, l) /\ Clawed(b, l) = Clawed(a, l)
       /\ DebtMade(b) = DebtMade(a) /\ Charged(b) = Charged(a) /\ Repaid(b) = Repaid(a)
  <2>1. \A k \in Claws :
           /\ b.claw[k].unit = a.claw[k].unit /\ b.claw[k].took = a.claw[k].took
           /\ b.claw[k].paid = a.claw[k].paid /\ b.claw[k].debt = a.claw[k].debt
           /\ b.claw[k].dropped = a.claw[k].dropped
    BY <1>6, <1>8
  <2> QED BY <1>8, <2>1, BilledSame
<1>11. \A u \in Units : ChargedBeyond(b, u) = ChargedBeyond(a, u)
  BY <1>8, <1>10 DEF ChargedBeyond
<1>12. ASSUME NEW k \in Claws PROVE ClawIsSound(b, k)
  <2>1. ClawIsSound(a, k) /\ b.claw[k] = row[k]
    BY <1>8 DEF Sound
  <2>2. CASE a.claw[k].state = "none"
    <3>1. a.claw[k] = NoClaw /\ a.claw[k].unit # unit
      BY <2>1, <2>2, ConstantsAssumption DEF ClawIsSound, NoClaw
    <3>2. release[k] = 0
      BY <1>4, <3>1
    <3>3. b.claw[k] = a.claw[k] /\ b.back.released[k] = a.back.released[k]
      <4>1. a.back.released[k] \in Nat
        BY <1>1, BackTypes
      <4> QED BY <1>6, <1>9, <2>1, <3>2, <4>1
    <3> QED BY <1>8, <2>1, <3>3 DEF ClawIsSound
  <2>3. CASE a.claw[k].state # "none"
    <3>1. b.claw[k].state # "none"
      BY <1>6, <2>1, <2>3
    <3>2. b.claw[k].want = Total(b.claw[k].took) + Total(b.claw[k].paid) + b.claw[k].pending
                           + b.back.released[k] + b.claw[k].debt + b.claw[k].dropped
      <4>1. a.claw[k].want = Total(a.claw[k].took) + Total(a.claw[k].paid) + a.claw[k].pending
                             + a.back.released[k] + a.claw[k].debt + a.claw[k].dropped
        BY <2>1 DEF ClawIsSound
      <4>2. /\ Total(a.claw[k].took) \in Nat /\ Total(a.claw[k].paid) \in Nat
            /\ a.claw[k].pending \in Nat /\ a.claw[k].debt \in Nat
            /\ a.claw[k].dropped \in Nat /\ a.claw[k].want \in Nat
        BY <1>1, ClawTypes
      <4>3. a.back.released[k] \in Nat
        BY <1>1, BackTypes
      <4>4. release[k] \in Nat
        BY <1>2
      <4> QED BY <1>6, <1>9, <2>1, <4>1, <4>2, <4>3, <4>4
    <3> QED BY <1>6, <1>8, <2>1, <3>1, <3>2 DEF ClawIsSound
  <2> QED BY <2>2, <2>3
<1>13. Sound(b)
  <2>1. ASSUME NEW l \in Lots
        PROVE  /\ b.lot[l].seq = a.lot[l].seq /\ b.lot[l].granted = a.lot[l].granted
               /\ b.lot[l].held <= b.lot[l].remaining
               /\ b.lot[l].granted + b.back.restored[l] + b.back.returned[l]
                  = b.lot[l].remaining + b.lot[l].expired + b.lot[l].spent + b.lot[l].repaid
                     + Clawed(b, l)
               /\ b.back.restored[l] <= TakenFrom(b, l)
               /\ b.back.returned[l] <= PaidFrom(b, l)
               /\ ~ Exists(a, l) => b.back.restored[l] = 0 /\ b.back.returned[l] = 0
    <3>1. LotIsSound(a, l)
      BY DEF Sound
    <3> QED BY <1>8, <1>10, <3>1 DEF LotIsSound
  <2>2. \A u \in Units : ChargedBeyond(b, u) >= 0
    BY <1>11 DEF Sound
  <2>3. b.debt = DebtMade(b) - Repaid(b) - b.forgiven
    BY <1>8, <1>10 DEF Sound
  <2> QED BY <1>8, <1>12, <2>1, <2>2, <2>3, SoundAgain
<1>14. PendingClaimTotal(b) <= PendingClaimTotal(a)
  <2> DEFINE f == [k \in Claws |-> a.claw[k].pending]
             g == [k \in Claws |-> b.claw[k].pending]
  <2>1. ASSUME NEW k \in Claws PROVE f[k] \in Nat /\ g[k] \in Nat /\ g[k] <= f[k]
    <3>1. b.claw[k].pending = a.claw[k].pending - release[k]
      BY <1>6, <1>8
    <3> QED BY <1>1, <1>2, <1>5, <3>1
  <2>2. \A k \in 1 .. MaxClaw : f[k] \in Nat /\ g[k] \in Nat /\ g[k] <= f[k]
    BY <2>1 DEF Claws
  <2> HIDE DEF f, g
  <2>3. SumTo(g, MaxClaw) <= SumTo(f, MaxClaw)
    BY <2>2, Sizes, SumMonotone DEF IntsUpTo
  <2> QED BY <2>3 DEF f, g, PendingClaimTotal
<1>15. PendingClaimTotal(a) \in Nat /\ PendingClaimTotal(b) \in Nat
  BY <1>1, <1>8, AmountTypes
<1>16. Keeps(a, b)
  <2>1. ASSUME NEW k \in Claws, a.claw[k].state = "applied"
        PROVE  /\ b.claw[k].state = "applied" /\ b.claw[k].unit = a.claw[k].unit
               /\ b.claw[k].debt = a.claw[k].debt /\ b.claw[k].pending <= a.claw[k].pending
    BY <1>1, <1>2, <1>6, <1>8, <2>1
  <2> QED BY <1>8, <1>14, <1>15, <2>1 DEF Keeps
<1>17. Lowers(a, b)
  <2>1. ASSUME NEW l \in Lots
        PROVE  /\ Own(b, l) <= Own(a, l) /\ GivenInto(b, l) >= GivenInto(a, l)
               /\ Exists(a, l) => Exists(b, l) /\ b.lot[l].unit = a.lot[l].unit
    <3>1. Free(b, l) = Free(a, l) /\ GivenInto(b, l) = GivenInto(a, l)
      BY <1>8 DEF Free, GivenInto
    <3>2. Free(a, l) \in Nat /\ GivenInto(a, l) \in Nat
      BY OwnTypes
    <3> QED BY <1>8, <3>1, <3>2 DEF Own, Exists
  <2>2. ASSUME NEW k \in Claws, a.claw[k].state = "none",
               b.claw[k].pending + b.claw[k].debt > 0
        PROVE  FALSE
    <3>1. b.claw[k] = NoClaw
      BY <1>6, <1>8, <1>13, <2>2 DEF Sound, ClawIsSound
    <3> QED BY <2>2, <3>1 DEF NoClaw
  <2> QED BY <2>1, <2>2 DEF Lowers
<1>18. Worth(b)
  <2> SUFFICES ASSUME NEW u \in Units, Alone(b, u)
               PROVE  /\ Charged(b) <= UsedOf(b, u)
                      /\ Charged(b) + PendingClaimTotal(b) <= HeldOf(b, u) + UsedOf(b, u)
    BY DEF Worth
  <2>1. Alone(a, u)
    BY <1>6, <1>8 DEF Alone
  <2>2. HeldOf(b, u) = HeldOf(a, u) /\ UsedOf(b, u) = UsedOf(a, u)
    BY <1>8 DEF HeldOf, UsedOf, OfUnit
  <2>3. /\ Charged(a) <= UsedOf(a, u)
        /\ Charged(a) + PendingClaimTotal(a) <= HeldOf(a, u) + UsedOf(a, u)
    BY <2>1 DEF Worth
  <2>4. Charged(a) \in Nat /\ HeldOf(a, u) \in Nat /\ UsedOf(a, u) \in Int
    BY <1>1, AmountTypes
  <2> QED BY <1>10, <1>14, <1>15, <2>2, <2>3, <2>4
<1> QED BY <1>11, <1>13, <1>16, <1>17, <1>18 DEF Down

\* Undoing part of what a unit was charged beyond its lots.
LEMMA UndoneSteps ==
    ASSUME NEW a, Sound(a), Worth(a), NEW unit \in Units, NEW part \in Int,
           part <= ChargedBeyond(a, unit), NEW b \in ChargesUndone(a, unit, part)
    PROVE  Down(a, b)
<1>1. /\ a \in Account /\ a.debt \in Nat /\ a.forgiven \in Nat /\ a.back \in Back
      /\ \A l \in Lots : a.lot[l] \in Lot
  BY AccountTypes DEF Sound
<1>2. PICK f, give :
         /\ b = Undone(a, unit, f, give)
         /\ f \in 0 .. Least(part, a.debt) /\ give \in [Lots -> 0 .. part]
         /\ f + Total(give) <= part
         /\ \A l \in Lots : /\ give[l] <= Room(a, l)
                            /\ give[l] <= PaidFrom(a, l) - a.back.returned[l]
  <2>1. PICK q \in (0 .. Least(part, a.debt)) \X [Lots -> 0 .. part] :
           /\ b = Undone(a, unit, q[1], q[2])
           /\ q[1] + Total(q[2]) <= part
           /\ \A l \in Lots : /\ q[2][l] <= Room(a, l)
                              /\ q[2][l] <= PaidFrom(a, l) - a.back.returned[l]
    BY DEF ChargesUndone
  <2>2. q[1] \in 0 .. Least(part, a.debt) /\ q[2] \in [Lots -> 0 .. part]
    BY <2>1
  <2> QED BY <2>1, <2>2
<1>3. f \in Nat /\ f <= a.debt /\ f <= part /\ \A l \in Lots : give[l] \in Nat /\ give[l] <= part
  BY <1>1, <1>2 DEF Least
<1>4. Total(give) \in Nat
  <2>1. \A l \in 1 .. MaxLot : give[l] \in Nat
    BY <1>3 DEF Lots
  <2> QED BY <2>1, Sizes, SumNat DEF Total
<1> DEFINE row == [l \in Lots |-> [a.lot[l] EXCEPT !.remaining = @ + give[l]]]
<1>5. ASSUME NEW l \in Lots
      PROVE  /\ row[l] \in Lot /\ row[l].unit = a.lot[l].unit /\ row[l].seq = a.lot[l].seq
             /\ row[l].rank = a.lot[l].rank /\ row[l].granted = a.lot[l].granted
             /\ row[l].held = a.lot[l].held /\ row[l].expired = a.lot[l].expired
             /\ row[l].spent = a.lot[l].spent /\ row[l].repaid = a.lot[l].repaid
             /\ row[l].remaining = a.lot[l].remaining + give[l]
  <2>1. PICK rw : rw = row
    OBVIOUS
  <2>2. rw = [m \in Lots |-> [a.lot[m] EXCEPT !.remaining = @ + give[m]]]
    BY <2>1
  <2>3. \A m \in Lots : give[m] \in Nat
    BY <1>3
  <2> HIDE DEF row
  <2>4. /\ rw[l] \in Lot /\ rw[l].unit = a.lot[l].unit /\ rw[l].seq = a.lot[l].seq
        /\ rw[l].rank = a.lot[l].rank /\ rw[l].granted = a.lot[l].granted
        /\ rw[l].held = a.lot[l].held /\ rw[l].expired = a.lot[l].expired
        /\ rw[l].spent = a.lot[l].spent /\ rw[l].repaid = a.lot[l].repaid
        /\ rw[l].remaining = a.lot[l].remaining + give[l]
    BY <1>1, <2>2, <2>3, GivenRow
  <2> QED BY <2>1, <2>4
<1>6. row \in [Lots -> Lot]
  <2>1. \A l \in Lots : row[l] \in Lot
    BY <1>5
  <2> QED BY <2>1
<1>7. b = [a EXCEPT !.debt = @ - f, !.forgiven = @ + f, !.lot = row,
                    !.back = [a.back EXCEPT !.excused[unit] = @ + f,
                                            !.undone[unit] = @ + Total(give),
                                            !.returned = [l \in Lots |-> @[l] + give[l]]]]
  BY <1>2 DEF Undone
<1> HIDE DEF row
<1> DEFINE back == [l \in Lots |-> a.back.returned[l] + give[l]]
<1>8. /\ b \in Account /\ b.lot = row /\ b.claw = a.claw /\ b.debt = a.debt - f
      /\ b.forgiven = a.forgiven + f
      /\ b.back.released = a.back.released /\ b.back.restored = a.back.restored
      /\ b.back.returned = back
      /\ b.back.excused[unit] = a.back.excused[unit] + f
      /\ b.back.undone[unit] = a.back.undone[unit] + Total(give)
      /\ \A u \in Units \ {unit} : /\ b.back.excused[u] = a.back.excused[u]
                                   /\ b.back.undone[u] = a.back.undone[u]
  <2>1. /\ a.back.excused[unit] \in Nat /\ a.back.undone[unit] \in Nat
        /\ \A l \in Lots : a.back.returned[l] \in Nat
    BY <1>1, BackTypes
  <2>a. PICK x \in Nat : x = a.back.excused[unit] + f
    BY <1>3, <2>1
  <2>b. PICK y \in Nat : y = a.back.undone[unit] + Total(give)
    BY <1>4, <2>1
  <2>c. PICK m \in Nat : m = a.debt - f
    BY <1>1, <1>3
  <2>d. PICK n \in Nat : n = a.forgiven + f
    BY <1>1, <1>3
  <2>2. /\ x = a.back.excused[unit] + f /\ y = a.back.undone[unit] + Total(give)
        /\ m = a.debt - f /\ n = a.forgiven + f
    BY <2>a, <2>b, <2>c, <2>d
  <2>3. PICK ex, un : /\ ex = [a.back.excused EXCEPT ![unit] = x]
                      /\ un = [a.back.undone EXCEPT ![unit] = y]
    OBVIOUS
  <2>4. /\ ex \in [Units -> Nat] /\ un \in [Units -> Nat]
        /\ ex[unit] = x /\ un[unit] = y
        /\ \A u \in Units \ {unit} : ex[u] = a.back.excused[u] /\ un[u] = a.back.undone[u]
    BY <1>1, <2>3 DEF Back
  <2>5. back \in [Lots -> Nat]
    BY <1>3, <2>1
  <2> HIDE DEF back
  <2>6. PICK h : h = [a.back EXCEPT !.excused = ex, !.undone = un, !.returned = back]
    OBVIOUS
  <2>7. /\ h \in Back /\ h.released = a.back.released /\ h.restored = a.back.restored
        /\ h.returned = back /\ h.excused = ex /\ h.undone = un
    BY <1>1, <2>4, <2>5, <2>6 DEF Back
  <2>e. [a.back EXCEPT !.excused[unit] = @ + f, !.undone[unit] = @ + Total(give),
                       !.returned = [l \in Lots |-> @[l] + give[l]]] = h
    <3>1. [a.back EXCEPT !.excused[unit] = @ + f, !.undone[unit] = @ + Total(give),
                         !.returned = [l \in Lots |-> @[l] + give[l]]]
             = [a.back EXCEPT !.excused = [a.back.excused EXCEPT ![unit] = @ + f],
                              !.undone = [a.back.undone EXCEPT ![unit] = @ + Total(give)],
                              !.returned = [l \in Lots |-> a.back.returned[l] + give[l]]]
      BY <1>1 DEF Back
    <3>2. /\ [a.back.excused EXCEPT ![unit] = @ + f] = ex
          /\ [a.back.undone EXCEPT ![unit] = @ + Total(give)] = un
      BY <2>2, <2>3
    <3> QED BY <2>6, <3>1, <3>2 DEF back
  <2>8. b = [a EXCEPT !.debt = m, !.forgiven = n, !.lot = row, !.back = h]
    BY <1>7, <2>2, <2>e
  <2>9. /\ b \in Account /\ b.lot = row /\ b.claw = a.claw /\ b.debt = m
        /\ b.forgiven = n /\ b.back = h
    BY <1>1, <1>6, <2>7, <2>8 DEF Account
  <2> QED BY <2>2, <2>4, <2>7, <2>9
<1>9. \A l \in Lots : b.back.returned[l] = a.back.returned[l] + give[l]
  BY <1>8
<1> HIDE DEF back
<1>10. /\ \A u : BilledOf(b, u) = BilledOf(a, u)
       /\ \A l \in Lots : /\ TakenFrom(b, l) = TakenFrom(a, l)
                          /\ PaidFrom(b, l) = PaidFrom(a, l) /\ Clawed(b, l) = Clawed(a, l)
       /\ DebtMade(b) = DebtMade(a) /\ Charged(b) = Charged(a) /\ Repaid(b) = Repaid(a)
  BY <1>5, <1>8, BilledSame
<1>11. \A l \in Lots : ~ Exists(a, l) => give[l] = 0
  BY <1>1, <1>2, <1>3, NoRoom
<1>12. Giving(a, b, give)
  <2>1. ASSUME NEW l \in Lots
        PROVE  b.back.restored[l] + b.back.returned[l]
                  = a.back.restored[l] + a.back.returned[l] + give[l]
    <3>1. a.back.restored[l] \in Nat /\ a.back.returned[l] \in Nat /\ give[l] \in Nat
      BY <1>1, <1>3, BackTypes
    <3> QED BY <1>8, <1>9, <3>1
  <2> QED BY <1>3, <1>5, <1>8, <2>1 DEF Giving
<1>13. \A k \in Claws : ClawIsSound(b, k)
  <2> SUFFICES ASSUME NEW k \in Claws PROVE ClawIsSound(b, k)
    OBVIOUS
  <2>1. ClawIsSound(a, k)
    BY DEF Sound
  <2>2. \A l \in Lots : b.lot[l].unit = a.lot[l].unit
    BY <1>12 DEF Giving
  <2> QED BY <1>8, <2>1, <2>2 DEF ClawIsSound
<1>14. ASSUME NEW u \in Units PROVE ChargedBeyond(b, u) >= 0
  <2>1. ChargedBeyond(a, u) >= 0
    BY DEF Sound
  <2>2. /\ BilledOf(a, u) \in Nat /\ a.back.excused[u] \in Nat /\ a.back.undone[u] \in Nat
    BY <1>1, BilledTypes, BackTypes
  <2>3. CASE u = unit
    BY <1>2, <1>3, <1>4, <1>8, <1>10, <2>2, <2>3 DEF ChargedBeyond
  <2>4. CASE u # unit
    BY <1>8, <1>10, <2>1, <2>2, <2>4 DEF ChargedBeyond
  <2> QED BY <2>3, <2>4
<1>15. Sound(b)
  <2>1. \A l \in Lots : b.back.returned[l] <= PaidFrom(b, l)
    <3> SUFFICES ASSUME NEW l \in Lots PROVE b.back.returned[l] <= PaidFrom(b, l)
      OBVIOUS
    <3>1. give[l] <= PaidFrom(a, l) - a.back.returned[l]
      BY <1>2
    <3>2. PaidFrom(a, l) \in Nat /\ a.back.returned[l] \in Nat /\ give[l] \in Nat
      BY <1>1, <1>3, TakenAndPaid, BackTypes
    <3> QED BY <1>9, <1>10, <3>1, <3>2
  <2>2. \A l \in Lots : b.back.restored[l] <= TakenFrom(b, l)
    BY <1>8, <1>10 DEF Sound, LotIsSound
  <2>3. b.debt = DebtMade(b) - Repaid(b) - b.forgiven
    <3>1. a.debt = DebtMade(a) - Repaid(a) - a.forgiven
      BY DEF Sound
    <3>2. DebtMade(a) \in Nat /\ Repaid(a) \in Nat
      BY <1>1, AmountTypes
    <3> QED BY <1>1, <1>3, <1>8, <1>10, <3>1, <3>2
  <2> QED BY <1>8, <1>10, <1>11, <1>12, <1>13, <1>14, <2>1, <2>2, <2>3, GivingIsSound
<1>16. Keeps(a, b) /\ Lowers(a, b)
  BY <1>12, <1>15, GivingSteps
<1>17. ASSUME NEW u \in Units, Alone(a, u) PROVE UsedOf(b, u) >= UsedOf(a, u)
  <2> DEFINE x == [l \in Lots |-> IF l \in OfUnit(a, u)
                                  THEN a.lot[l].spent + a.lot[l].repaid - a.back.returned[l]
                                  ELSE 0]
             y == [l \in Lots |-> IF l \in OfUnit(b, u)
                                  THEN b.lot[l].spent + b.lot[l].repaid - b.back.returned[l]
                                  ELSE 0]
             z == [l \in Lots |-> y[l] + give[l]]
  <2>1. ASSUME NEW l \in Lots PROVE x[l] \in Int /\ y[l] \in Int /\ x[l] <= y[l] + give[l]
    <3>1. /\ a.back.returned[l] \in Nat /\ give[l] \in Nat
          /\ a.lot[l].spent \in Nat /\ a.lot[l].repaid \in Nat
      BY <1>1, <1>3, BackTypes, LotTypes
    <3>2. /\ b.lot[l].spent = a.lot[l].spent /\ b.lot[l].repaid = a.lot[l].repaid
          /\ b.lot[l].unit = a.lot[l].unit /\ b.back.returned[l] = a.back.returned[l] + give[l]
      BY <1>9, <1>12 DEF Giving
    <3> QED BY <3>1, <3>2 DEF OfUnit
  <2>2. \A l \in 1 .. MaxLot : /\ x[l] \in Int /\ y[l] \in Int /\ give[l] \in Nat
                               /\ z[l] = y[l] + give[l] /\ x[l] <= z[l]
    <3> SUFFICES ASSUME NEW l \in Lots
                 PROVE  /\ x[l] \in Int /\ y[l] \in Int /\ give[l] \in Nat
                        /\ z[l] = y[l] + give[l] /\ x[l] <= z[l]
      BY DEF Lots
    <3>1. z[l] = y[l] + give[l]
      OBVIOUS
    <3> HIDE DEF x, y, z
    <3> QED BY <1>3, <2>1, <3>1
  <2>3. /\ UsedOf(a, u) = Total(x) + a.back.excused[u] + a.back.undone[u]
        /\ UsedOf(b, u) = Total(y) + b.back.excused[u] + b.back.undone[u]
    BY DEF UsedOf
  <2> HIDE DEF x, y, z
  <2>4. SumTo(x, MaxLot) <= SumTo(z, MaxLot) /\ SumTo(z, MaxLot) = SumTo(y, MaxLot) + SumTo(give, MaxLot)
    BY <2>2, Sizes, SumMonotone, SumAdd DEF IntsUpTo
  <2>5. SumTo(x, MaxLot) \in Int /\ SumTo(y, MaxLot) \in Int
    BY <2>2, Sizes, SumStep DEF IntsUpTo
  <2>6. a.back.excused[u] \in Nat /\ a.back.undone[u] \in Nat
    BY <1>1, BackTypes
  <2>7. CASE u = unit
    BY <1>3, <1>4, <1>8, <2>3, <2>4, <2>5, <2>6, <2>7 DEF Total
  <2>8. CASE u # unit
    <3>1. ChargedBeyond(a, unit) <= 0 /\ ChargedBeyond(a, unit) \in Int
      BY <1>1, <1>17, <2>8, OthersUncharged, ChargedTypes
    <3>2. Total(give) = 0
      BY <1>2, <1>3, <1>4, <3>1
    <3> QED BY <1>8, <2>3, <2>4, <2>5, <2>6, <2>8, <3>2 DEF Total
  <2> QED BY <2>7, <2>8
<1>18. Worth(b)
  <2> SUFFICES ASSUME NEW u \in Units, Alone(b, u)
               PROVE  /\ Charged(b) <= UsedOf(b, u)
                      /\ Charged(b) + PendingClaimTotal(b) <= HeldOf(b, u) + UsedOf(b, u)
    BY DEF Worth
  <2>1. Alone(a, u) /\ PendingClaimTotal(b) = PendingClaimTotal(a)
    BY <1>1, <1>8, ClawsSame
  <2>2. HeldOf(b, u) = HeldOf(a, u)
    BY <1>12 DEF HeldOf, OfUnit, Giving
  <2>3. /\ Charged(a) <= UsedOf(a, u)
        /\ Charged(a) + PendingClaimTotal(a) <= HeldOf(a, u) + UsedOf(a, u)
    BY <2>1 DEF Worth
  <2>4. /\ Charged(a) \in Nat /\ HeldOf(a, u) \in Nat /\ UsedOf(a, u) \in Int
        /\ PendingClaimTotal(a) \in Nat /\ UsedOf(b, u) \in Int
    BY <1>1, <1>8, AmountTypes
  <2>5. UsedOf(b, u) >= UsedOf(a, u)
    BY <1>17, <2>1
  <2> QED BY <1>10, <2>1, <2>2, <2>3, <2>4, <2>5
<1> QED BY <1>15, <1>16, <1>18 DEF Down

\* What may be put back into the unit's own lots: what is still taken of them,
\* as far as they have room.
LEMMA PutBackFits ==
    ASSUME NEW a, Sound(a), NEW unit \in Units, NEW amount \in Nat,
           NEW give, give = PutBack(a, unit, amount)
    PROVE  /\ \A l \in Lots : /\ give[l] \in Nat /\ give[l] <= StillTaken(a, l)
                              /\ give[l] <= Room(a, l)
           /\ Total(give) \in Nat
<1> DEFINE pot == [l \in Lots |-> IF l \in OfUnit(a, unit)
                                  THEN Least(StillTaken(a, l), Room(a, l)) ELSE 0]
           newer(l) == [m \in Lots |-> IF a.lot[m].seq > a.lot[l].seq THEN pot[m] ELSE 0]
<1>1. ASSUME NEW l \in Lots
      PROVE  /\ StillTaken(a, l) \in Nat /\ Room(a, l) \in Nat /\ pot[l] \in Nat
             /\ pot[l] <= StillTaken(a, l) /\ pot[l] <= Room(a, l)
  <2>1. /\ TakenFrom(a, l) \in Nat /\ a.back.restored[l] \in Nat
        /\ a.back.restored[l] <= TakenFrom(a, l)
    BY TakenAndPaid, BackTypes DEF Sound, LotIsSound
  <2>2. StillTaken(a, l) \in Nat
    BY <2>1 DEF StillTaken
  <2>3. /\ a.lot[l].granted \in Nat /\ a.lot[l].remaining \in Nat
        /\ a.lot[l].remaining <= a.lot[l].granted
    BY AccountTypes, LotTypes, FreeTypes DEF Sound
  <2>4. Room(a, l) \in Nat
    BY <2>3 DEF Room
  <2>5. pot[l] = Least(StillTaken(a, l), Room(a, l)) \/ pot[l] = 0
    OBVIOUS
  <2> HIDE DEF pot
  <2> QED BY <2>2, <2>4, <2>5 DEF Least
<1>2. ASSUME NEW l \in Lots PROVE Total(newer(l)) \in Nat
  <2> DEFINE h == newer(l)
  <2>1. \A m \in Lots : h[m] \in Nat
    BY <1>1
  <2>2. \A m \in 1 .. MaxLot : h[m] \in Nat
    BY <2>1 DEF Lots
  <2> HIDE DEF h
  <2>3. SumTo(h, MaxLot) \in Nat
    BY <2>2, Sizes, SumNat
  <2> QED BY <2>3 DEF h, Total
<1>3. \A l \in Lots : give[l] = Least(pot[l], Natural(amount - Total(newer(l))))
  BY DEF PutBack, FromNewest
<1>4. ASSUME NEW l \in Lots
      PROVE  give[l] \in Nat /\ give[l] <= StillTaken(a, l) /\ give[l] <= Room(a, l)
  <2>1. PICK n \in Nat : n = Total(newer(l))
    BY <1>2
  <2>2. PICK p \in Nat : p = pot[l] /\ p <= StillTaken(a, l) /\ p <= Room(a, l)
    BY <1>1
  <2>3. give[l] = Least(p, Natural(amount - n))
    BY <1>3, <2>1, <2>2
  <2>4. StillTaken(a, l) \in Nat /\ Room(a, l) \in Nat
    BY <1>1
  <2> HIDE DEF pot, newer
  <2> QED BY <2>2, <2>3, <2>4 DEF Least, Natural
<1>5. Total(give) \in Nat
  <2>1. \A l \in 1 .. MaxLot : give[l] \in Nat
    BY <1>4 DEF Lots
  <2> QED BY <2>1, Sizes, SumNat DEF Total
<1> QED BY <1>4, <1>5

\* Credit that was taken of lots is put back into them.
LEMMA RestoredSteps ==
    ASSUME NEW a, Sound(a), Worth(a), NEW give,
           \A l \in Lots : /\ give[l] \in Nat /\ give[l] <= StillTaken(a, l)
                           /\ give[l] <= Room(a, l),
           NEW b, b = Restored(a, give)
    PROVE  Down(a, b)
<1>1. a \in Account /\ a.back \in Back /\ \A l \in Lots : a.lot[l] \in Lot
  BY AccountTypes DEF Sound
<1>2. PICK row, put : /\ row = [l \in Lots |-> [a.lot[l] EXCEPT !.remaining = @ + give[l]]]
                      /\ put = [l \in Lots |-> a.back.restored[l] + give[l]]
  OBVIOUS
<1>3. \A l \in Lots : give[l] \in Nat
  OBVIOUS
<1>4. ASSUME NEW l \in Lots
      PROVE  /\ row[l] \in Lot /\ row[l].unit = a.lot[l].unit /\ row[l].seq = a.lot[l].seq
             /\ row[l].rank = a.lot[l].rank /\ row[l].granted = a.lot[l].granted
             /\ row[l].held = a.lot[l].held /\ row[l].expired = a.lot[l].expired
             /\ row[l].spent = a.lot[l].spent /\ row[l].repaid = a.lot[l].repaid
             /\ row[l].remaining = a.lot[l].remaining + give[l]
  <2>1. row = [m \in Lots |-> [a.lot[m] EXCEPT !.remaining = @ + give[m]]]
    BY <1>2
  <2> QED BY ONLY <1>1, <1>3, <2>1, l \in Lots, GivenRow
<1>5. row \in [Lots -> Lot] /\ put \in [Lots -> Nat]
  <2>1. \A l \in Lots : row[l] \in Lot
    BY <1>4
  <2>2. \A l \in Lots : a.back.restored[l] \in Nat
    BY <1>1, BackTypes
  <2>3. \A l \in Lots : a.back.restored[l] + give[l] \in Nat
    BY <1>3, <2>2
  <2>4. row \in [Lots -> Lot]
    BY <1>2, <2>1
  <2>5. put \in [Lots -> Nat]
    BY <1>2, <2>3
  <2> QED BY <2>4, <2>5
<1>6. /\ b \in Account /\ b.lot = row /\ b.claw = a.claw /\ b.debt = a.debt
      /\ b.forgiven = a.forgiven
      /\ b.back.released = a.back.released /\ b.back.restored = put
      /\ b.back.returned = a.back.returned /\ b.back.excused = a.back.excused
      /\ b.back.undone = a.back.undone
  <2>1. PICK h : h = [a.back EXCEPT !.restored = put]
    OBVIOUS
  <2>2. /\ h \in Back /\ h.released = a.back.released /\ h.restored = put
        /\ h.returned = a.back.returned /\ h.excused = a.back.excused
        /\ h.undone = a.back.undone
    BY <1>1, <1>5, <2>1 DEF Back
  <2>3. b = [a EXCEPT !.lot = row, !.back.restored = [l \in Lots |-> @[l] + give[l]]]
    BY <1>2 DEF Restored
  <2>4. b = [a EXCEPT !.lot = row, !.back = h]
    BY <1>1, <1>2, <2>1, <2>3 DEF Account
  <2> QED BY <1>1, <1>5, <2>2, <2>4 DEF Account
<1>7. \A l \in Lots : b.back.restored[l] = a.back.restored[l] + give[l]
  BY <1>2, <1>6
<1>8. /\ \A u : BilledOf(b, u) = BilledOf(a, u)
      /\ \A l \in Lots : /\ TakenFrom(b, l) = TakenFrom(a, l)
                         /\ PaidFrom(b, l) = PaidFrom(a, l) /\ Clawed(b, l) = Clawed(a, l)
      /\ DebtMade(b) = DebtMade(a) /\ Charged(b) = Charged(a) /\ Repaid(b) = Repaid(a)
  BY <1>4, <1>6, BilledSame
<1>9. \A l \in Lots : ~ Exists(a, l) => give[l] = 0
  BY <1>3, NoRoom
<1>10. Giving(a, b, give)
  <2>1. ASSUME NEW l \in Lots
        PROVE  b.back.restored[l] + b.back.returned[l]
                  = a.back.restored[l] + a.back.returned[l] + give[l]
    <3>1. a.back.restored[l] \in Nat /\ a.back.returned[l] \in Nat /\ give[l] \in Nat
      BY <1>1, <1>3, BackTypes
    <3> QED BY <1>6, <1>7, <3>1
  <2> QED BY <1>3, <1>4, <1>6, <2>1 DEF Giving
<1>11. \A k \in Claws : ClawIsSound(b, k)
  <2> SUFFICES ASSUME NEW k \in Claws PROVE ClawIsSound(b, k)
    OBVIOUS
  <2>1. ClawIsSound(a, k)
    BY DEF Sound
  <2>2. \A l \in Lots : b.lot[l].unit = a.lot[l].unit
    BY <1>10 DEF Giving
  <2> QED BY <1>6, <2>1, <2>2 DEF ClawIsSound
<1>12. \A u \in Units : ChargedBeyond(b, u) >= 0
  BY <1>6, <1>8 DEF Sound, ChargedBeyond
<1>13. Sound(b)
  <2>1. ASSUME NEW l \in Lots PROVE b.back.restored[l] <= TakenFrom(b, l)
    <3>1. TakenFrom(a, l) \in Nat /\ a.back.restored[l] \in Nat /\ give[l] \in Nat
      BY <1>1, <1>3, TakenAndPaid, BackTypes
    <3>2. give[l] <= TakenFrom(a, l) - a.back.restored[l]
      BY DEF StillTaken
    <3> QED BY <1>7, <1>8, <3>1, <3>2
  <2>2. \A l \in Lots : b.back.returned[l] <= PaidFrom(b, l)
    BY <1>6, <1>8 DEF Sound, LotIsSound
  <2>3. b.debt = DebtMade(b) - Repaid(b) - b.forgiven
    BY <1>6, <1>8 DEF Sound
  <2> QED BY <1>6, <1>8, <1>9, <1>10, <1>11, <1>12, <2>1, <2>2, <2>3, GivingIsSound
<1>14. Keeps(a, b) /\ Lowers(a, b)
  BY <1>10, <1>13, GivingSteps
<1>15. Worth(b)
  <2> SUFFICES ASSUME NEW u \in Units, Alone(b, u)
               PROVE  /\ Charged(b) <= UsedOf(b, u)
                      /\ Charged(b) + PendingClaimTotal(b) <= HeldOf(b, u) + UsedOf(b, u)
    BY DEF Worth
  <2>1. Alone(a, u) /\ PendingClaimTotal(b) = PendingClaimTotal(a)
    BY <1>1, <1>6, ClawsSame
  <2>2. HeldOf(b, u) = HeldOf(a, u)
    BY <1>10 DEF HeldOf, OfUnit, Giving
  <2>3. UsedOf(b, u) = UsedOf(a, u)
    BY <1>6, <1>10 DEF UsedOf, OfUnit, Giving
  <2> QED BY <1>8, <2>1, <2>2, <2>3 DEF Worth
<1> QED BY <1>13, <1>14, <1>15 DEF Down

\* What the lots do not take is a lot of its own.
LEMMA ReinstatedSteps ==
    ASSUME NEW a, Sound(a), Worth(a), now \in Nat, NEW unit \in Units, NEW amount \in Nat,
           NEW b \in Reinstated(a, unit, amount)
    PROVE  Down(a, b)
<1>1. PICK give : give = PutBack(a, unit, amount)
  OBVIOUS
<1>2. /\ \A l \in Lots : /\ give[l] \in Nat /\ give[l] <= StillTaken(a, l)
                         /\ give[l] <= Room(a, l)
      /\ Total(give) \in Nat
  BY <1>1, PutBackFits
<1>3. PICK c : c = Restored(a, give)
  OBVIOUS
<1>4. Down(a, c)
  BY <1>2, <1>3, RestoredSteps
<1>5. PICK amounts : /\ amounts \subseteq Grants
                     /\ b = c \/ b \in LotAdded(c, unit, 1, amounts)
  <2> DEFINE rest == amount - Total(give)
             enough == {g \in Grants : g >= rest}
             least == {g \in enough : \A h \in enough : g <= h}
  <2>1. CASE rest = 0
    <3>1. b \in {c}
      BY <1>1, <1>3, <2>1 DEF Reinstated
    <3>2. b = c /\ {} \subseteq Grants
      BY <3>1
    <3> QED BY <3>2
  <2>2. CASE rest # 0
    <3>1. b \in LotAdded(c, unit, 1, least)
      BY <1>1, <1>3, <2>2 DEF Reinstated
    <3>2. least \subseteq Grants
      OBVIOUS
    <3> HIDE DEF least
    <3> QED BY <3>1, <3>2
  <2> QED BY <2>1, <2>2
<1>6. amounts \in SUBSET Nat /\ 1 \in {0, 1} /\ unit \in Units \cup {None}
  BY <1>5, ConstantsAssumption
<1>7. Sound(c) /\ Worth(c)
  BY <1>4 DEF Down
<1>8. CASE b \in LotAdded(c, unit, 1, amounts)
  <2>1. PICK r : r = 1
    OBVIOUS
  <2>2. r \in {0, 1} /\ b \in LotAdded(c, unit, r, amounts)
    BY <1>8, <2>1
  <2>3. Sound(b) /\ Worth(b) /\ Keeps(c, b) /\ Lowers(c, b)
    BY <1>6, <1>7, <2>1, <2>2, LotAddedSteps
  <2>4. Down(c, b)
    BY <2>3 DEF Down
  <2> QED BY <1>4, <2>4, DownOn
<1> QED BY <1>4, <1>5, <1>8

LEMMA PositionTypes ==
    ASSUME NEW a \in Account, NEW u \in Units
    PROVE  PositionOf(a, u) \in Int
<1> DEFINE left == [l \in Lots |-> IF l \in OfUnit(a, u) THEN a.lot[l].remaining ELSE 0]
           used == [l \in Lots |-> IF l \in OfUnit(a, u)
                                   THEN a.lot[l].spent + PaidFrom(a, l) - a.back.returned[l]
                                   ELSE 0]
<1>1. ASSUME NEW l \in Lots PROVE left[l] \in Int /\ used[l] \in Int
  <2>1. /\ a.lot[l].remaining \in Nat /\ a.lot[l].spent \in Nat
        /\ PaidFrom(a, l) \in Nat /\ a.back.returned[l] \in Nat
    BY AccountTypes, LotTypes, TakenAndPaid, BackTypes
  <2> QED BY <2>1
<1>2. /\ PositionOf(a, u) = Total(left) + ConsumedOf(a, u) - (ChargedBeyond(a, u) + ClaimsOf(a, u))
      /\ ConsumedOf(a, u) = Total(used)
  BY DEF PositionOf, ConsumedOf
<1> HIDE DEF left, used
<1>3. Total(left) \in Int /\ Total(used) \in Int
  <2>1. \A l \in 1 .. MaxLot : left[l] \in Int /\ used[l] \in Int
    BY <1>1 DEF Lots
  <2> QED BY <2>1, Sizes, SumStep DEF Total, IntsUpTo
<1>4. ChargedBeyond(a, u) \in Int /\ ClaimsOf(a, u) \in Nat
  BY ChargedTypes, BilledTypes
<1> QED BY <1>2, <1>3, <1>4

\* What was raised too much is taken back.
LEMMA TrimmedSteps ==
    ASSUME NEW a, Sound(a), Worth(a), NEW source \in {"reversal", "cover"}, NEW unit \in Units,
           NEW target \in Nat, NEW b \in Trimmed(a, source, unit, target)
    PROVE  Down(a, b)
<1>1. PICK over \in Int : over = PositionOf(a, unit) - target
  BY PositionTypes DEF Sound
<1>2. CASE over <= 0
  <2>1. b = a
    BY <1>1, <1>2 DEF Trimmed
  <2> QED BY <2>1, StandStill
<1>3. CASE ~ (over <= 0)
  <2>1. PICK k \in NextClaws(a) : b = ClawBack(a, k, source, unit, {unit}, over)
    BY <1>1, <1>3 DEF Trimmed
  <2>2. k \in Claws /\ a.claw[k].state = "none" /\ source \in Sources
    BY DEF NextClaws, Sources
  <2>3. over \in Nat /\ over <= PositionOf(a, unit)
    <3>1. PositionOf(a, unit) \in Int
      BY PositionTypes DEF Sound
    <3> QED BY <1>1, <1>3, <3>1
  <2>4. PICK line : line = {unit}
    OBVIOUS
  <2>5. b = ClawBack(a, k, source, unit, line, over) /\ unit \in line
    BY <2>1, <2>4
  <2> QED BY <2>2, <2>3, <2>4, <2>5, ClawBackSteps
<1> QED BY <1>2, <1>3

\* Giving a unit back what it stands short of its target.
LEMMA GivenBackSteps ==
    ASSUME NEW a, Sound(a), Worth(a), now \in Nat, NEW source \in {"reversal", "cover"},
           NEW unit \in Units, NEW b \in GivenBack(a, source, unit)
    PROVE  Down(a, b)
<1> DEFINE left(s) == Natural(s - ClaimsOf(a, unit))
           part(s) == Least(left(s), ChargedBeyond(a, unit))
           undone(s) == ChargesUndone(ClaimsReleased(a, unit, s), unit, part(s))
           raised(s) == UNION {Reinstated(d, unit, left(s) - part(s)) : d \in undone(s)}
           given(s) == UNION {Trimmed(c, source, unit, PositionOf(a, unit) + s) : c \in raised(s)}
<1>1. PICK s \in Shortfalls : PositionOf(a, unit) + s >= 0 /\ b \in given(s)
  <2>1. b \in UNION {given(s) : s \in {r \in Shortfalls : /\ MovesOf(a) + r <= MaxMoves
                                                         /\ PositionOf(a, unit) + r >= 0}}
    BY DEF GivenBack
  <2> HIDE DEF given
  <2> QED BY <2>1
<1>2. a \in Account /\ s \in Nat
  BY ConstantsAssumption DEF Sound
<1>3. /\ left(s) \in Nat /\ part(s) \in Int /\ part(s) <= ChargedBeyond(a, unit)
      /\ left(s) - part(s) \in Nat /\ PositionOf(a, unit) + s \in Nat
  <2>1. ClaimsOf(a, unit) \in Nat /\ ChargedBeyond(a, unit) \in Int /\ PositionOf(a, unit) \in Int
    BY <1>2, BilledTypes, ChargedTypes, PositionTypes
  <2> QED BY <1>1, <1>2, <2>1 DEF Natural, Least
<1>4. PICK c : c \in raised(s) /\ b \in Trimmed(c, source, unit, PositionOf(a, unit) + s)
  <2> HIDE DEF raised
  <2> QED BY <1>1
<1>5. PICK d : d \in undone(s) /\ c \in Reinstated(d, unit, left(s) - part(s))
  <2> HIDE DEF undone, left, part
  <2> QED BY <1>4
<1>6. PICK e : e = ClaimsReleased(a, unit, s)
  OBVIOUS
<1>7. PICK m \in Nat, p \in Int, n \in Nat :
         m = left(s) - part(s) /\ p = part(s) /\ n = PositionOf(a, unit) + s
  BY <1>3
<1>8. Down(a, e) /\ ChargedBeyond(e, unit) = ChargedBeyond(a, unit)
  BY <1>2, <1>6, ReleasedSteps
<1>9. d \in ChargesUndone(e, unit, p) /\ p <= ChargedBeyond(e, unit)
  BY <1>3, <1>5, <1>6, <1>7, <1>8
<1>10. c \in Reinstated(d, unit, m) /\ b \in Trimmed(c, source, unit, n)
  BY <1>4, <1>5, <1>7
<1> HIDE DEF left, part, undone, raised, given
<1>11. Down(e, d)
  BY <1>8, <1>9, UndoneSteps DEF Down
<1>12. Down(d, c)
  BY <1>10, <1>11, ReinstatedSteps DEF Down
<1>13. Down(c, b)
  BY <1>10, <1>12, TrimmedSteps DEF Down
<1>14. Sound(e) /\ Sound(d) /\ Sound(c)
  BY <1>8, <1>11, <1>12 DEF Down
<1>15. Down(a, d)
  BY <1>8, <1>11, <1>14, DownOn
<1>16. Down(a, c)
  BY <1>12, <1>14, <1>15, DownOn
<1> QED BY <1>13, <1>14, <1>16, DownOn

\* Bringing a unit to its target.
LEMMA UnitReconciledSteps ==
    ASSUME NEW a, Sound(a), Worth(a), now \in Nat, NEW source \in {"reversal", "cover"},
           NEW unit \in Units, NEW b \in UnitReconciled(a, source, unit)
    PROVE  Down(a, b)
<1>1. b \in TakenBack(a, source, unit) \/ b \in GivenBack(a, source, unit)
  BY DEF UnitReconciled
<1> QED BY <1>1, TakenBackSteps, GivenBackSteps

LEMMA CoverSteps ==
    ASSUME NEW a, Sound(a), Worth(a), now \in Nat, NEW b \in CoverReconciled(a)
    PROVE  Down(a, b)
<1>1. CASE b = a
  BY <1>1, StandStill
<1>2. ASSUME NEW u \in Covers, b \in UnitReconciled(a, "cover", u) PROVE Down(a, b)
  <2>1. u \in Units /\ "cover" \in {"reversal", "cover"}
    BY ConstantsAssumption
  <2> QED BY <1>2, <2>1, UnitReconciledSteps
<1>3. b = a \/ \E u \in Covers : b \in UnitReconciled(a, "cover", u)
  BY DEF CoverReconciled
<1> QED BY <1>1, <1>2, <1>3

-----------------------------------------------------------------------------
(* Transactions *)

\* A transaction first adds credit, then takes credit back, and last settles debt.
Moves(a, c) ==
    /\ Sound(c) /\ Worth(c) /\ Keeps(a, c)
    /\ c.debt > 0 => SpendableMicro(c) = 0
    /\ \E b : /\ Sound(b) /\ b.claw = a.claw /\ Lowers(b, c)
             /\ \A l \in Lots : GivenInto(b, l) >= GivenInto(a, l)

LEMMA UpThenDown ==
    ASSUME NEW a, Sound(a), NEW b, NEW c, Up(a, b), Down(b, c), NEW d,
           d = SettleDebtFromFree(c)
    PROVE  Moves(a, d)
<1>1. Down(c, d) /\ (d.debt > 0 => SpendableMicro(d) = 0)
  BY SettleDebtSteps DEF Down
<1>2. Sound(b) /\ Down(b, d)
  BY <1>1, DownOn DEF Up
<1>3. Keeps(a, d)
  BY <1>2, KeepsOn DEF Up, Down, Sound
<1> QED BY <1>1, <1>2, <1>3 DEF Moves, Up, Down

LEMMA RefreshSteps ==
    ASSUME NEW a, Sound(a), Worth(a), now \in Nat, NEW d \in Refreshed(a)
    PROVE  Moves(a, d)
<1> DEFINE due == ExpireDueLots(a)
           drawn == {due} \cup UNION {Granted(due, u) : u \in Units}
           level == UNION {LevelReconciled(b) : b \in drawn}
           share(b) == UNION {UnitReconciled(b, "reversal", u) :
                                 u \in {v \in Units : Disputed(a, v) /\ Running(b, v)}}
           shares == UNION {share(b) : b \in level \ {due}}
           cover == UNION {CoverReconciled(b) : b \in level \cup shares}
<1>1. PICK c \in cover : d = SettleDebtFromFree(c)
  BY DEF Refreshed
<1>2. Up(a, due)
  <2>1. PICK e : e = due
    OBVIOUS
  <2>2. /\ Sound(e) /\ Worth(e) /\ Keeps(a, e) /\ e.claw = a.claw
        /\ \A l \in Lots : GivenInto(e, l) = GivenInto(a, l)
    BY <2>1, ExpireSteps
  <2>3. \A l \in Lots : GivenInto(e, l) >= GivenInto(a, l)
    <3>1. \A l \in Lots : GivenInto(a, l) \in Nat
      BY GivenTypes DEF Sound
    <3> QED BY <2>2, <3>1
  <2> HIDE DEF due
  <2> QED BY <2>1, <2>2, <2>3 DEF Up
<1>3. ASSUME NEW b \in drawn PROVE Up(a, b)
  <2>1. CASE b = due
    BY <1>2, <2>1
  <2>2. ASSUME NEW u \in Units, b \in Granted(due, u) PROVE Up(a, b)
    <3> HIDE DEF due
    <3>1. u \in Units \cup {None} /\ Sound(due) /\ Worth(due)
      BY <1>2 DEF Up
    <3>2. Up(due, b)
      BY <2>2, <3>1, GrantSteps DEF Up
    <3> QED BY <1>2, <3>2, UpOn
  <2> QED BY <2>1, <2>2
<1>4. ASSUME NEW b \in level PROVE \E e : Up(a, e) /\ Down(e, b)
  <2>1. PICK e \in drawn : b \in LevelReconciled(e)
    BY <1>4
  <2>2. Up(a, e) /\ Sound(e) /\ Worth(e)
    BY <1>3, <2>1 DEF Up
  <2> HIDE DEF level, drawn, due
  <2>3. CASE Up(e, b)
    <3>1. Up(a, b) /\ Down(b, b)
      BY <2>2, <2>3, UpOn, StandStill DEF Up
    <3> QED BY <3>1
  <2>4. CASE Down(e, b)
    BY <2>2, <2>4
  <2> QED BY <2>1, <2>2, <2>3, <2>4, LevelSteps
<1>5. ASSUME NEW b \in shares PROVE \E e : Up(a, e) /\ Down(e, b)
  <2>0. PICK f \in level : b \in share(f)
    <3> HIDE DEF share, level, due
    <3> QED BY <1>5
  <2>1. PICK u \in Units : b \in UnitReconciled(f, "reversal", u)
    <3> HIDE DEF level, due
    <3> QED BY <2>0
  <2>2. PICK e : Up(a, e) /\ Down(e, f)
    BY <1>4, <2>1
  <2> HIDE DEF share, shares, level, drawn, due
  <2>3. Down(f, b)
    <3>1. Sound(f) /\ Worth(f) /\ "reversal" \in {"reversal", "cover"}
      BY <2>2 DEF Down
    <3> QED BY <2>1, <3>1, UnitReconciledSteps
  <2>4. Down(e, b)
    BY <2>2, <2>3, DownOn DEF Up
  <2> QED BY <2>2, <2>4
<1>6. \E e : Up(a, e) /\ Down(e, c)
  <2>1. PICK f \in level \cup shares : c \in CoverReconciled(f)
    <3> HIDE DEF shares, level
    <3> QED BY <1>1
  <2>2. PICK e : Up(a, e) /\ Down(e, f)
    <3> HIDE DEF shares, level
    <3> QED BY <1>4, <1>5, <2>1
  <2> HIDE DEF shares, level, drawn, due
  <2>3. Down(f, c)
    BY <2>1, <2>2, CoverSteps DEF Down
  <2>4. Down(e, c)
    BY <2>2, <2>3, DownOn DEF Up
  <2> QED BY <2>2, <2>4
<1> QED BY <1>1, <1>6, UpThenDown

LEMMA ReverseSteps ==
    ASSUME NEW a, Sound(a), Worth(a), now \in Nat, NEW unit \in Units,
           NEW b \in LevelReconciled(a), NEW c \in TakenBack(b, "reversal", unit),
           NEW e \in CoverReconciled(c), NEW d, d = SettleDebtFromFree(e)
    PROVE  Moves(a, d)
<1>1. PICK f : Up(a, f) /\ Down(f, b)
  <2>1. CASE Up(a, b)
    BY <2>1, StandStill DEF Up
  <2>2. CASE Down(a, b)
    BY <2>2, StandStill
  <2> QED BY <2>1, <2>2, LevelSteps
<1>2. Down(b, c)
  <2>1. Sound(b) /\ Worth(b) /\ "reversal" \in {"reversal", "cover"}
    BY <1>1 DEF Down
  <2> QED BY <2>1, TakenBackSteps
<1>3. Down(c, e)
  BY <1>2, CoverSteps DEF Down
<1>4. Down(f, e)
  <2>1. Sound(f) /\ Sound(b)
    BY <1>1 DEF Up, Down
  <2>2. Down(f, c)
    BY <1>1, <1>2, <2>1, DownOn
  <2> QED BY <1>3, <2>1, <2>2, DownOn
<1> QED BY <1>1, <1>4, UpThenDown

LEMMA GoodwillSteps ==
    ASSUME NEW a, Sound(a), Worth(a), now \in Nat, NEW b \in Granted(a, None),
           NEW d, d = SettleDebtFromFree(b)
    PROVE  Moves(a, d)
<1>1. Up(a, b)
  BY GrantSteps DEF Up
<1>2. Down(b, b)
  BY <1>1, StandStill DEF Up
<1> QED BY <1>1, <1>2, UpThenDown

-----------------------------------------------------------------------------
(* Forgiveness and reservations *)

Forgiven(a) == [a EXCEPT !.debt = 0, !.forgiven = @ + a.debt]

LEMMA ForgiveSteps ==
    ASSUME NEW a, Sound(a), Worth(a), NEW b, b = Forgiven(a)
    PROVE  /\ Sound(b) /\ Worth(b) /\ b.lot = a.lot /\ b.claw = a.claw /\ b.debt = 0
           /\ b.back = a.back
<1>1. a \in Account /\ a.debt \in Nat /\ a.forgiven \in Nat
  BY AccountTypes DEF Sound
<1>2. PICK n \in Nat : n = a.forgiven + a.debt
  BY <1>1
<1> PICK z \in Nat : z = 0
  OBVIOUS
<1>3. b = [a EXCEPT !.debt = z, !.forgiven = n]
  BY <1>2 DEF Forgiven
<1>4. /\ b \in Account /\ b.lot = a.lot /\ b.claw = a.claw /\ b.debt = 0
      /\ b.forgiven = a.forgiven + a.debt /\ b.back = a.back
  <2>1. /\ b \in Account /\ b.lot = a.lot /\ b.claw = a.claw /\ b.debt = z
        /\ b.forgiven = n /\ b.back = a.back
    BY <1>1, <1>3 DEF Account
  <2> QED BY <1>2, <2>1
<1>5. /\ \A l \in Lots : Clawed(b, l) = Clawed(a, l)
      /\ DebtMade(b) = DebtMade(a) /\ Repaid(b) = Repaid(a)
  BY <1>1, <1>4, ClawsSame DEF Repaid
<1>6. \A k \in Claws : ClawIsSound(b, k)
  <2> SUFFICES ASSUME NEW k \in Claws PROVE ClawIsSound(b, k)
    OBVIOUS
  <2>1. ClawIsSound(a, k)
    BY DEF Sound
  <2> QED BY <1>4, <2>1 DEF ClawIsSound
<1>7. Sound(b)
  <2>1. DebtMade(a) \in Nat /\ Repaid(a) \in Nat
    BY <1>1, AmountTypes
  <2>2. b.debt - DebtMade(b) + Repaid(b) + b.forgiven
           = a.debt - DebtMade(a) + Repaid(a) + a.forgiven
    BY <1>1, <1>4, <1>5, <2>1
  <2>3. \A l \in Lots : LotIsSound(a, l) /\ a.lot[l].repaid \in Nat
    BY <1>1, AccountTypes, LotTypes DEF Sound
  <2>4. ChargesKept(a, b)
    <3>1. ASSUME NEW k \in Claws
          PROVE  /\ a.claw[k].debt >= a.claw[k].debt /\ a.claw[k].dropped >= a.claw[k].dropped
                 /\ \A l \in Lots : /\ a.claw[k].took[l] >= a.claw[k].took[l]
                                    /\ a.claw[k].paid[l] >= a.claw[k].paid[l]
      BY <1>1, AccountTypes, ClawTypes
    <3>2. \A l \in Lots : a.lot[l].repaid >= a.lot[l].repaid
      BY <2>3
    <3> QED BY <1>4, <3>1, <3>2 DEF ChargesKept
  <2> QED BY <1>4, <1>5, <1>6, <2>2, <2>3, <2>4, StaysSound DEF LotIsSound
<1>8. Worth(b)
  <2>1. \A l \in Lots :
           /\ b.lot[l].unit = a.lot[l].unit
           /\ b.lot[l].held >= a.lot[l].held /\ b.lot[l].spent >= a.lot[l].spent
           /\ b.lot[l].repaid >= a.lot[l].repaid
    BY <1>1, <1>4, AccountTypes, LotTypes
  <2> QED BY <1>4, <2>1, WorthGrows
<1> QED BY <1>4, <1>7, <1>8

Holding(a, held) ==
    [a EXCEPT !.lot = [l \in Lots |-> [a.lot[l] EXCEPT !.held = @ + held[l]]]]

LEMMA ReserveSteps ==
    ASSUME NEW a, Sound(a), Worth(a),
           NEW reserved, reserved = Least(MaxReserve, SpendableMicro(a)),
           NEW held, held = [l \in Lots |-> Waterfall(reserved, Spendable(a), l)],
           NEW b, b = Holding(a, held)
    PROVE  /\ Sound(b) /\ Worth(b) /\ b.claw = a.claw /\ b.debt = a.debt
           /\ b.back = a.back
           /\ reserved \in Nat /\ held \in [Lots -> Nat] /\ Total(held) = reserved
           /\ \A l \in Lots :
                 /\ b.lot[l].unit = a.lot[l].unit /\ b.lot[l].spent = a.lot[l].spent
                 /\ b.lot[l].held = a.lot[l].held + held[l] /\ Free(b, l) <= Free(a, l)
                 /\ GivenInto(b, l) = GivenInto(a, l)
<1> DEFINE pot == Spendable(a)
           row == [l \in Lots |-> [a.lot[l] EXCEPT !.held = @ + held[l]]]
<1>1. a \in Account /\ \A l \in Lots : a.lot[l] \in Lot
  BY AccountTypes DEF Sound
<1>2. \A l \in Lots : pot[l] \in Nat /\ pot[l] <= Free(a, l)
  BY FreeTypes
<1>3. \A l \in Lots : held[l] = Waterfall(reserved, pot, l)
  OBVIOUS
<1> HIDE DEF pot
<1>4. SumTo(pot, MaxLot) \in Nat /\ SpendableMicro(a) = SumTo(pot, MaxLot)
  <2>1. \A l \in 1 .. MaxLot : pot[l] \in Nat
    BY <1>2 DEF Lots
  <2>2. SumTo(pot, MaxLot) \in Nat
    BY <2>1, Sizes, SumNat
  <2> QED BY <2>2 DEF pot, SpendableMicro, Total
<1>5. reserved \in Nat /\ reserved <= SumTo(pot, MaxLot)
  BY <1>4 DEF Least
<1>6. /\ \A l \in Lots : held[l] \in Nat /\ held[l] <= pot[l]
      /\ Total(held) = reserved
  <2>1. \A l \in 1 .. MaxLot : pot[l] \in Nat
    BY <1>2 DEF Lots
  <2>2. \A l \in 1 .. MaxLot : held[l] = Waterfall(reserved, pot, l)
    BY <1>3 DEF Lots
  <2>3. /\ \A i \in 1 .. MaxLot : held[i] \in Nat /\ held[i] <= pot[i]
        /\ SumTo(held, MaxLot) = Least(reserved, SumTo(pot, MaxLot))
    BY ONLY <1>5, <2>1, <2>2, Sizes, WaterfallFits
  <2> QED BY <1>4, <1>5, <2>3 DEF Total, Lots, Least
<1>7. held \in [Lots -> Nat]
  BY <1>6
<1>8. ASSUME NEW l \in Lots
      PROVE  /\ row[l] \in Lot /\ row[l].unit = a.lot[l].unit /\ row[l].seq = a.lot[l].seq
             /\ row[l].ends = a.lot[l].ends /\ row[l].expired = a.lot[l].expired
             /\ row[l].granted = a.lot[l].granted /\ row[l].rank = a.lot[l].rank
             /\ row[l].spent = a.lot[l].spent /\ row[l].repaid = a.lot[l].repaid
             /\ row[l].held <= row[l].remaining
             /\ row[l].remaining = a.lot[l].remaining
             /\ row[l].held = a.lot[l].held + held[l]
  <2>1. a.lot[l] \in Lot
    BY <1>1
  <2>2. held[l] \in Nat /\ held[l] <= a.lot[l].remaining - a.lot[l].held
    BY <1>2, <1>6, <2>1, LotTypes DEF Free
  <2>3. PICK q \in Lot : q = a.lot[l]
    BY <2>1
  <2>4. PICK m \in Nat : m = q.held + held[l]
    BY <2>2, <2>3, LotTypes
  <2>5. row[l] = [q EXCEPT !.held = m]
    BY <2>3, <2>4
  <2>6. PICK r : r = row[l]
    OBVIOUS
  <2> HIDE DEF row
  <2>7. r = [q EXCEPT !.held = m]
    BY <2>5, <2>6
  <2>8. /\ r \in Lot /\ r.unit = q.unit /\ r.ends = q.ends /\ r.seq = q.seq
        /\ r.granted = q.granted /\ r.remaining = q.remaining /\ r.spent = q.spent
        /\ r.expired = q.expired /\ r.held = m /\ r.repaid = q.repaid
        /\ r.rank = q.rank
    BY <2>7 DEF Lot
  <2>9. r.held <= r.remaining
    BY <2>2, <2>3, <2>4, <2>8, LotTypes
  <2> QED BY <2>3, <2>4, <2>6, <2>8, <2>9
<1>9. row \in [Lots -> Lot]
  BY <1>8
<1>10. /\ b \in Account /\ b.lot = row /\ b.claw = a.claw /\ b.debt = a.debt
       /\ b.forgiven = a.forgiven /\ b.back = a.back
  <2>1. b = [a EXCEPT !.lot = row]
    BY DEF Holding
  <2> HIDE DEF row
  <2> QED BY <1>1, <1>9, <2>1 DEF Account
<1> HIDE DEF row
<1>11. \A l \in Lots :
          /\ b.lot[l].seq = a.lot[l].seq /\ b.lot[l].granted = a.lot[l].granted
          /\ b.lot[l].unit = a.lot[l].unit
          /\ b.lot[l].held <= b.lot[l].remaining
          /\ b.lot[l].remaining + b.lot[l].expired + b.lot[l].spent + b.lot[l].repaid
             = a.lot[l].remaining + a.lot[l].expired + a.lot[l].spent + a.lot[l].repaid
          /\ b.lot[l].spent = a.lot[l].spent /\ b.lot[l].repaid = a.lot[l].repaid
          /\ b.lot[l].held = a.lot[l].held + held[l]
          /\ b.lot[l].remaining = a.lot[l].remaining /\ b.lot[l].rank = a.lot[l].rank
  BY <1>8, <1>10
<1>12. Sound(b)
  <2>1. Repaid(b) = Repaid(a)
    BY <1>11 DEF Repaid
  <2>2. b.debt + Repaid(b) = a.debt + Repaid(a)
    BY <1>10, <2>1
  <2>3. \A l \in Lots : b.lot[l].repaid >= a.lot[l].repaid
    BY <1>1, <1>11, LotTypes
  <2> QED BY <1>10, <1>11, <2>2, <2>3, LotsOnly
<1>13. ASSUME NEW l \in Lots
       PROVE  /\ b.lot[l].held >= a.lot[l].held /\ b.lot[l].spent >= a.lot[l].spent
              /\ b.lot[l].repaid >= a.lot[l].repaid /\ Free(b, l) <= Free(a, l)
  <2>1. a.lot[l] \in Lot /\ held[l] \in Nat
    BY <1>1, <1>6
  <2> QED BY <1>11, <2>1, LotTypes DEF Free
<1>14. Worth(b)
  BY <1>10, <1>11, <1>13, WorthGrows
<1>15. \A l \in Lots : GivenInto(b, l) = GivenInto(a, l)
  BY <1>10, <1>11 DEF GivenInto
<1> QED BY <1>5, <1>6, <1>7, <1>10, <1>11, <1>12, <1>13, <1>14, <1>15

-----------------------------------------------------------------------------
(* What released holds pay of the claims, lot by lot *)

\* What lot l may still pay of each claim when p was paid before.
OwedBy(a, l, p) == [k \in Claws |-> IF MayPay(a, k, l) THEN a.claw[k].pending - p[k] ELSE 0]

PaidBy(a, released, l, p) == [k \in Claws |-> p[k] + Waterfall(released[l], OwedBy(a, l, p), k)]

NothingPaid == [k \in Claws |-> 0]

IsPaying(a, released, s, n) ==
    /\ s = [l \in 0 .. n |-> s[l]]
    /\ s[0] = NothingPaid
    /\ \A l \in 1 .. n : s[l] = PaidBy(a, released, l, s[l - 1])

LEMMA PayingExists ==
    ASSUME NEW a, NEW released, NEW n \in Nat
    PROVE  \E s : IsPaying(a, released, s, n)
<1> DEFINE G == {k \in 0 .. n : \E s : IsPaying(a, released, s, k)}
<1>1. 0 \in G
  <2>1. IsPaying(a, released, [l \in 0 .. 0 |-> NothingPaid], 0)
    BY DEF IsPaying
  <2> QED BY <2>1
<1>2. ASSUME NEW k \in 1 .. n, k - 1 \in G PROVE k \in G
  <2>1. PICK s : IsPaying(a, released, s, k - 1)
    BY <1>2
  <2> DEFINE x == PaidBy(a, released, k, s[k - 1])
             q == [l \in 0 .. k |-> IF l = k THEN x ELSE s[l]]
  <2> HIDE DEF x
  <2>2. q = [l \in 0 .. k |-> q[l]]
    OBVIOUS
  <2>3. q[0] = NothingPaid
    BY <2>1 DEF IsPaying
  <2>4. ASSUME NEW l \in 1 .. k PROVE q[l] = PaidBy(a, released, l, q[l - 1])
    <3>0. l - 1 \in 0 .. k /\ l - 1 # k /\ l \in 0 .. k
      OBVIOUS
    <3>1. q[l - 1] = s[l - 1]
      BY <3>0
    <3>2. CASE l = k
      <4>1. q[l] = x /\ x = PaidBy(a, released, l, s[l - 1])
        BY <3>2 DEF x
      <4> HIDE DEF q
      <4> QED BY <3>1, <4>1
    <3>3. CASE l # k
      <4>1. l \in 1 .. k - 1
        BY <3>3
      <4>2. q[l] = s[l]
        BY <3>0, <3>3
      <4>3. s[l] = PaidBy(a, released, l, s[l - 1])
        BY <2>1, <4>1 DEF IsPaying
      <4> HIDE DEF q
      <4> QED BY <3>1, <4>2, <4>3
    <3> QED BY <3>2, <3>3
  <2> HIDE DEF q
  <2>5. IsPaying(a, released, q, k)
    BY <2>2, <2>3, <2>4 DEF IsPaying
  <2> QED BY <2>5
<1>3. \A k \in 0 .. n : k \in G
  <2> HIDE DEF G
  <2> QED BY <1>1, <1>2, Induct
<1> QED BY <1>3

LEMMA PaidUpToPays ==
    ASSUME NEW a, NEW released
    PROVE  IsPaying(a, released, PaidUpTo(a, released), MaxLot)
<1> DEFINE Eq(s) == s = [l \in 0 .. MaxLot |->
                            IF l = 0 THEN [k \in Claws |-> 0]
                            ELSE LET owed == [k \in Claws |->
                                                IF MayPay(a, k, l)
                                                THEN a.claw[k].pending - s[l - 1][k] ELSE 0]
                                 IN  [k \in Claws |-> s[l - 1][k] + Waterfall(released[l], owed, k)]]
           t == CHOOSE s : Eq(s)
<1>1. ASSUME NEW s
      PROVE  Eq(s) <=> s = [l \in 0 .. MaxLot |-> IF l = 0 THEN NothingPaid
                                                 ELSE PaidBy(a, released, l, s[l - 1])]
  BY DEF NothingPaid, PaidBy, OwedBy
<1>2. PICK p : IsPaying(a, released, p, MaxLot)
  BY Sizes, PayingExists
<1> HIDE DEF Eq
<1>3. Eq(p)
  <2>1. p = [l \in 0 .. MaxLot |-> IF l = 0 THEN NothingPaid
                                   ELSE PaidBy(a, released, l, p[l - 1])]
    <3> DEFINE e == [l \in 0 .. MaxLot |-> IF l = 0 THEN NothingPaid
                                           ELSE PaidBy(a, released, l, p[l - 1])]
    <3>1. ASSUME NEW l \in 0 .. MaxLot PROVE p[l] = e[l]
      <4>1. CASE l = 0
        BY <1>2, <4>1 DEF IsPaying
      <4>2. CASE l # 0
        <5>1. l \in 1 .. MaxLot /\ e[l] = PaidBy(a, released, l, p[l - 1])
          BY <4>2
        <5> HIDE DEF e
        <5> QED BY <1>2, <5>1 DEF IsPaying
      <4> QED BY <4>1, <4>2
    <3>2. p = [l \in 0 .. MaxLot |-> p[l]]
      BY <1>2 DEF IsPaying
    <3>3. e = [l \in 0 .. MaxLot |-> e[l]]
      OBVIOUS
    <3> HIDE DEF e
    <3>4. p = e
      BY <3>1, <3>2, <3>3
    <3> QED BY <3>4 DEF e
  <2> QED BY <1>1, <2>1
<1>4. Eq(t)
  BY <1>3
<1>5. PaidUpTo(a, released) = t
  BY DEF PaidUpTo, Eq
<1> HIDE DEF t
<1>6. t = [l \in 0 .. MaxLot |-> IF l = 0 THEN NothingPaid
                                 ELSE PaidBy(a, released, l, t[l - 1])]
  BY <1>1, <1>4
<1>7. IsPaying(a, released, t, MaxLot)
  <2>1. t = [l \in 0 .. MaxLot |-> t[l]]
    BY <1>6
  <2>2. t[0] = NothingPaid
    BY <1>6, Sizes
  <2>3. ASSUME NEW l \in 1 .. MaxLot PROVE t[l] = PaidBy(a, released, l, t[l - 1])
    <3>1. l \in 0 .. MaxLot /\ l # 0
      OBVIOUS
    <3> QED BY <1>6, <3>1
  <2> QED BY <2>1, <2>2, <2>3 DEF IsPaying
<1> QED BY <1>5, <1>7

\* What lot l pays of each claim.
Payment(p, l) == [k \in Claws |-> p[l][k] - p[l - 1][k]]
Pays(p, l) == SumTo(Payment(p, l), MaxClaw)

\* One lot pays the claims that may have it, up to what they still ask for.
LEMMA LotPays ==
    ASSUME NEW a \in Account, NEW released \in [Lots -> Nat], NEW l \in Lots,
           NEW p, \A k \in Claws : p[k] \in Nat /\ p[k] <= a.claw[k].pending,
           NEW q, q = PaidBy(a, released, l, p), NEW owed, owed = OwedBy(a, l, p)
    PROVE  /\ \A k \in Claws :
                 /\ q[k] \in Nat /\ q[k] <= a.claw[k].pending /\ p[k] <= q[k]
                 /\ q[k] > p[k] => MayPay(a, k, l)
                 /\ owed[k] \in Nat /\ q[k] - p[k] <= owed[k]
           /\ SumTo([k \in Claws |-> q[k] - p[k]], MaxClaw)
                 = Least(released[l], SumTo(owed, MaxClaw))
           /\ SumTo(owed, MaxClaw) \in Nat
<1> DEFINE w == [k \in Claws |-> q[k] - p[k]]
<1>1. ASSUME NEW k \in Claws
      PROVE  /\ owed[k] \in Nat /\ owed[k] <= a.claw[k].pending - p[k]
             /\ owed[k] > 0 => MayPay(a, k, l)
             /\ a.claw[k].pending \in Nat
  <2>1. a.claw[k].pending \in Nat
    BY AccountTypes, ClawTypes
  <2>2. owed[k] = IF MayPay(a, k, l) THEN a.claw[k].pending - p[k] ELSE 0
    BY DEF OwedBy
  <2> QED BY <2>1, <2>2
<1>2. PICK R \in Nat : R = released[l]
  OBVIOUS
<1>3. ASSUME NEW k \in Claws PROVE q[k] = p[k] + Waterfall(R, owed, k)
  BY <1>2 DEF PaidBy
<1>4. \A k \in 1 .. MaxClaw : owed[k] \in Nat
  BY <1>1 DEF Claws
<1>5. ASSUME NEW k \in Claws PROVE w[k] = Waterfall(R, owed, k)
  <2>1. Waterfall(R, owed, k) \in Int
    <3>1. \A i \in 1 .. MaxClaw : SumTo(owed, i - 1) \in Nat
      <4> SUFFICES ASSUME NEW i \in 1 .. MaxClaw PROVE SumTo(owed, i - 1) \in Nat
        OBVIOUS
      <4>1. i - 1 \in Nat /\ \A j \in 1 .. i - 1 : owed[j] \in Nat
        BY <1>4, Sizes
      <4> QED BY <4>1, SumNat
    <3>2. k \in 1 .. MaxClaw
      BY DEF Claws
    <3> QED BY <1>2, <1>4, <3>1, <3>2 DEF Waterfall, Least, Natural
  <2> QED BY <1>3, <2>1
<1>6. \A k \in 1 .. MaxClaw : w[k] = Waterfall(R, owed, k)
  <2> HIDE DEF w
  <2> QED BY <1>5 DEF Claws
<1>7. ASSUME NEW k \in Claws PROVE w[k] = q[k] - p[k]
  OBVIOUS
<1> HIDE DEF w
<1>8. /\ \A k \in 1 .. MaxClaw : w[k] \in Nat /\ w[k] <= owed[k]
      /\ SumTo(w, MaxClaw) = Least(R, SumTo(owed, MaxClaw))
      /\ SumTo(owed, MaxClaw) \in Nat
  BY ONLY <1>2, <1>4, <1>6, Sizes, WaterfallFits
<1>9. ASSUME NEW k \in Claws
      PROVE  /\ q[k] \in Nat /\ q[k] <= a.claw[k].pending /\ p[k] <= q[k]
             /\ q[k] > p[k] => MayPay(a, k, l)
             /\ owed[k] \in Nat /\ q[k] - p[k] <= owed[k]
  <2>1. q[k] = p[k] + w[k]
    BY <1>3, <1>5
  <2>2. w[k] \in Nat /\ w[k] <= owed[k]
    BY <1>8 DEF Claws
  <2> QED BY <1>1, <2>1, <2>2
<1> QED BY <1>2, <1>8, <1>9 DEF w

LEMMA PaidFits ==
    ASSUME NEW a \in Account, NEW released \in [Lots -> Nat],
           NEW p, p = PaidUpTo(a, released)
    PROVE  /\ \A k \in Claws : p[0][k] = 0
           /\ \A l \in 0 .. MaxLot : \A k \in Claws :
                 p[l][k] \in Nat /\ p[l][k] <= a.claw[k].pending
           /\ \A l \in Lots : /\ l - 1 \in 0 .. MaxLot
                              /\ p[l] = PaidBy(a, released, l, p[l - 1])
<1>1. IsPaying(a, released, p, MaxLot)
  BY PaidUpToPays
<1> DEFINE G == {l \in 0 .. MaxLot : \A k \in Claws : p[l][k] \in Nat
                                                      /\ p[l][k] <= a.claw[k].pending}
<1>2. \A k \in Claws : p[0][k] = 0
  BY <1>1 DEF IsPaying, NothingPaid
<1>3. 0 \in G
  <2>1. \A k \in Claws : a.claw[k].pending \in Nat
    BY AccountTypes, ClawTypes
  <2> QED BY <1>2, <2>1, Sizes
<1>4. ASSUME NEW l \in 1 .. MaxLot, l - 1 \in G PROVE l \in G
  <2>1. l \in Lots /\ p[l] = PaidBy(a, released, l, p[l - 1])
    BY <1>1 DEF IsPaying, Lots
  <2>2. PICK v, w : v = p[l - 1] /\ w = p[l]
    OBVIOUS
  <2>3. \A k \in Claws : v[k] \in Nat /\ v[k] <= a.claw[k].pending
    BY <1>4, <2>2
  <2>4. w = PaidBy(a, released, l, v)
    BY <2>1, <2>2
  <2> HIDE DEF G
  <2>5. \A k \in Claws : w[k] \in Nat /\ w[k] <= a.claw[k].pending
    BY <2>1, <2>3, <2>4, LotPays
  <2> USE DEF G
  <2> QED BY <2>2, <2>5
<1>5. \A l \in 0 .. MaxLot : l \in G
  <2> HIDE DEF G
  <2> QED BY <1>3, <1>4, Sizes, Induct
<1>6. \A l \in Lots : l - 1 \in 0 .. MaxLot /\ p[l] = PaidBy(a, released, l, p[l - 1])
  <2> SUFFICES ASSUME NEW l \in Lots
               PROVE  l - 1 \in 0 .. MaxLot /\ p[l] = PaidBy(a, released, l, p[l - 1])
    OBVIOUS
  <2>1. l \in 1 .. MaxLot
    BY DEF Lots
  <2>2. l - 1 \in 0 .. MaxLot
    BY <2>1, Sizes
  <2> QED BY <1>1, <2>1, <2>2 DEF IsPaying
<1> QED BY <1>2, <1>5, <1>6

LEMMA PaymentsFit ==
    ASSUME NEW a \in Account, NEW released \in [Lots -> Nat],
           NEW p, p = PaidUpTo(a, released)
    PROVE  /\ \A l \in Lots :
                 /\ Pays(p, l) \in Nat /\ Pays(p, l) <= released[l]
                 /\ \/ Pays(p, l) = released[l]
                    \/ \A k \in Claws : MayPay(a, k, l) => p[l][k] = a.claw[k].pending
                 /\ \A k \in Claws :
                       /\ Payment(p, l)[k] \in Nat
                       /\ Payment(p, l)[k] = p[l][k] - p[l - 1][k]
                       /\ Payment(p, l)[k] > 0 => MayPay(a, k, l)
           /\ \A k \in Claws :
                 /\ p[MaxLot][k] \in Nat /\ p[MaxLot][k] <= a.claw[k].pending
                 /\ Total([l \in Lots |-> Payment(p, l)[k]]) = p[MaxLot][k]
                 /\ \A l \in Lots : p[l][k] <= p[MaxLot][k]
<1>1. /\ \A k \in Claws : p[0][k] = 0
      /\ \A l \in 0 .. MaxLot : \A k \in Claws :
            p[l][k] \in Nat /\ p[l][k] <= a.claw[k].pending
      /\ \A l \in Lots : l - 1 \in 0 .. MaxLot /\ p[l] = PaidBy(a, released, l, p[l - 1])
  BY PaidFits
<1>2. ASSUME NEW l \in Lots
      PROVE  /\ Pays(p, l) \in Nat /\ Pays(p, l) <= released[l]
             /\ \/ Pays(p, l) = released[l]
                \/ \A k \in Claws : MayPay(a, k, l) => p[l][k] = a.claw[k].pending
             /\ \A k \in Claws :
                   /\ Payment(p, l)[k] \in Nat
                   /\ Payment(p, l)[k] = p[l][k] - p[l - 1][k]
                   /\ Payment(p, l)[k] > 0 => MayPay(a, k, l)
  <2>1. PICK v, w, owed : v = p[l - 1] /\ w = p[l] /\ owed = OwedBy(a, l, v)
    OBVIOUS
  <2>2. \A k \in Claws : v[k] \in Nat /\ v[k] <= a.claw[k].pending
    BY <1>1, <2>1
  <2>3. w = PaidBy(a, released, l, v)
    BY <1>1, <2>1
  <2>4. /\ \A k \in Claws :
              /\ w[k] \in Nat /\ w[k] <= a.claw[k].pending /\ v[k] <= w[k]
              /\ w[k] > v[k] => MayPay(a, k, l)
              /\ owed[k] \in Nat /\ w[k] - v[k] <= owed[k]
        /\ SumTo([k \in Claws |-> w[k] - v[k]], MaxClaw)
              = Least(released[l], SumTo(owed, MaxClaw))
        /\ SumTo(owed, MaxClaw) \in Nat
    BY <2>1, <2>2, <2>3, LotPays
  <2>5. PICK pay : pay = [k \in Claws |-> w[k] - v[k]]
    OBVIOUS
  <2>6. Payment(p, l) = pay /\ Pays(p, l) = SumTo(pay, MaxClaw)
    BY <2>1, <2>5 DEF Payment, Pays
  <2>7. \A k \in Claws : /\ pay[k] \in Nat /\ pay[k] = w[k] - v[k] /\ pay[k] <= owed[k]
                         /\ pay[k] > 0 => MayPay(a, k, l)
    BY <2>2, <2>4, <2>5
  <2>8. SumTo(pay, MaxClaw) = Least(released[l], SumTo(owed, MaxClaw)) /\ released[l] \in Nat
    BY <2>4, <2>5
  <2>9. Pays(p, l) \in Nat /\ Pays(p, l) <= released[l]
    BY <2>4, <2>6, <2>8, LeastOf
  <2>10. ASSUME Pays(p, l) # released[l]
         PROVE  \A k \in Claws : MayPay(a, k, l) => w[k] = a.claw[k].pending
    <3>1. SumTo(pay, MaxClaw) = SumTo(owed, MaxClaw)
      BY <2>6, <2>8, <2>10, <2>4 DEF Least
    <3>2. \A k \in 1 .. MaxClaw : pay[k] \in Nat /\ owed[k] \in Nat /\ pay[k] <= owed[k]
      BY <2>4, <2>7 DEF Claws
    <3>3. \A k \in 1 .. MaxClaw : pay[k] = owed[k]
      BY ONLY <3>1, <3>2, Sizes, SumTight
    <3>4. ASSUME NEW k \in Claws, MayPay(a, k, l) PROVE w[k] = a.claw[k].pending
      <4>1. pay[k] = owed[k] /\ pay[k] = w[k] - v[k]
        BY <2>7, <3>3 DEF Claws
      <4>2. owed[k] = a.claw[k].pending - v[k]
        BY <2>1, <3>4 DEF OwedBy
      <4>3. a.claw[k].pending \in Nat
        BY AccountTypes, ClawTypes
      <4>4. w[k] \in Nat /\ v[k] \in Nat
        BY <2>2, <2>4
      <4>5. w[k] - v[k] = a.claw[k].pending - v[k]
        BY <4>1, <4>2
      <4>6. PICK W \in Nat, V \in Nat, P \in Nat : W = w[k] /\ V = v[k] /\ P = a.claw[k].pending
        BY <4>3, <4>4
      <4>7. W - V = P - V
        BY <4>5, <4>6
      <4>8. W = P
        BY <4>7
      <4> QED BY <4>6, <4>8
    <3> QED BY <3>4
  <2> QED BY <2>1, <2>6, <2>7, <2>9, <2>10
<1>3. ASSUME NEW k \in Claws
      PROVE  /\ p[MaxLot][k] \in Nat /\ p[MaxLot][k] <= a.claw[k].pending
             /\ Total([l \in Lots |-> Payment(p, l)[k]]) = p[MaxLot][k]
             /\ \A l \in Lots : p[l][k] <= p[MaxLot][k]
  <2> DEFINE f == [l \in Lots |-> Payment(p, l)[k]]
             g == [l \in 0 .. MaxLot |-> p[l][k]]
             G == {i \in 0 .. MaxLot : \A j \in 0 .. i : p[j][k] <= p[i][k]}
  <2>1. \A l \in 0 .. MaxLot : p[l][k] \in Nat /\ g[l] = p[l][k]
    BY <1>1
  <2>2. MaxLot \in 0 .. MaxLot /\ 0 \in 0 .. MaxLot
    BY Sizes
  <2>3. ASSUME NEW l \in 1 .. MaxLot
        PROVE  l \in Lots /\ l \in 0 .. MaxLot /\ l - 1 \in 0 .. MaxLot
    BY Sizes DEF Lots
  <2>4. ASSUME NEW l \in 1 .. MaxLot
        PROVE  f[l] \in Nat /\ f[l] = p[l][k] - p[l - 1][k]
    <3>1. l \in Lots
      BY <2>3
    <3>2. f[l] = Payment(p, l)[k]
      BY <3>1
    <3> HIDE DEF f
    <3> QED BY <1>2, <3>1, <3>2
  <2>5. 0 \in G
    BY <2>1, <2>2
  <2>6. ASSUME NEW i \in 1 .. MaxLot, i - 1 \in G PROVE i \in G
    <3>1. ASSUME NEW j \in 0 .. i PROVE p[j][k] <= p[i][k]
      <4>1. p[i][k] \in Nat /\ p[i - 1][k] \in Nat /\ p[i - 1][k] <= p[i][k]
        <5>1. i \in 0 .. MaxLot /\ i - 1 \in 0 .. MaxLot
          BY <2>3
        <5>2. f[i] \in Nat /\ f[i] = p[i][k] - p[i - 1][k]
          BY <2>4
        <5>3. p[i][k] \in Nat /\ p[i - 1][k] \in Nat
          BY <2>1, <5>1
        <5> HIDE DEF f
        <5> QED BY <5>2, <5>3
      <4>2. CASE j = i
        BY <4>1, <4>2
      <4>3. CASE j # i
        <5>1. j \in 0 .. i - 1 /\ j \in 0 .. MaxLot
          BY <2>3, <4>3
        <5>2. p[j][k] <= p[i - 1][k] /\ p[j][k] \in Nat
          BY <2>1, <2>6, <5>1
        <5> QED BY <4>1, <5>2
      <4> QED BY <4>2, <4>3
    <3> QED BY <2>3, <3>1
  <2>7. \A i \in 0 .. MaxLot : i \in G
    <3> HIDE DEF G
    <3> QED BY <2>5, <2>6, Sizes, Induct
  <2>8. MaxLot \in G
    <3> HIDE DEF G
    <3> QED BY <2>2, <2>7
  <2>9. \A l \in Lots : p[l][k] <= p[MaxLot][k]
    <3> SUFFICES ASSUME NEW l \in Lots PROVE p[l][k] <= p[MaxLot][k]
      OBVIOUS
    <3>1. l \in 0 .. MaxLot
      BY <2>3 DEF Lots
    <3> QED BY <2>8, <3>1
  <2>10. \A l \in 0 .. MaxLot : g[l] \in Int
    BY <2>1
  <2>11. \A l \in 1 .. MaxLot : f[l] = g[l] - g[l - 1]
    BY <2>1, <2>3, <2>4
  <2>12. g[MaxLot] = p[MaxLot][k] /\ g[0] = 0
    BY <1>1, <2>2
  <2>13. p[MaxLot][k] \in Nat /\ p[MaxLot][k] <= a.claw[k].pending
    BY <1>1, <2>2
  <2> HIDE DEF f, g, G
  <2>14. SumTo(f, MaxLot) = g[MaxLot] - g[0]
    BY ONLY <2>10, <2>11, Sizes, SumTelescopes
  <2>15. Total(f) = p[MaxLot][k]
    BY <2>12, <2>13, <2>14 DEF Total
  <2> QED BY <2>9, <2>13, <2>15 DEF f
<1> QED BY <1>2, <1>3

-----------------------------------------------------------------------------
(* The release of a task's holds *)

\* What of a lot that is done expires when a task gives it back.
Rest(a, held, take, p, l) == IF Done(a, l) THEN held[l] - take[l] - Pays(p, l) ELSE 0

\* What the release does to each row.
Releasing(a, b, held, take, p) ==
    /\ b \in Account /\ b.debt = a.debt /\ b.forgiven = a.forgiven
    /\ b.back = a.back
    /\ \A l \in Lots :
          /\ take[l] \in Nat /\ Pays(p, l) \in Nat /\ Rest(a, held, take, p, l) \in Nat
          /\ held[l] \in Nat /\ held[l] <= a.lot[l].held
          /\ take[l] + Pays(p, l) + Rest(a, held, take, p, l) <= held[l]
          /\ b.lot[l].unit = a.lot[l].unit /\ b.lot[l].seq = a.lot[l].seq
          /\ b.lot[l].granted = a.lot[l].granted /\ b.lot[l].repaid = a.lot[l].repaid
          /\ b.lot[l].rank = a.lot[l].rank
          /\ b.lot[l].held = a.lot[l].held - held[l]
          /\ b.lot[l].remaining = a.lot[l].remaining - take[l] - Pays(p, l)
                                  - Rest(a, held, take, p, l)
          /\ b.lot[l].spent = a.lot[l].spent + take[l]
          /\ b.lot[l].expired = a.lot[l].expired + Rest(a, held, take, p, l)
    /\ \A k \in Claws :
          /\ b.claw[k].state = a.claw[k].state /\ b.claw[k].source = a.claw[k].source
          /\ b.claw[k].unit = a.claw[k].unit /\ b.claw[k].want = a.claw[k].want
          /\ b.claw[k].took = a.claw[k].took /\ b.claw[k].debt = a.claw[k].debt
          /\ b.claw[k].dropped = a.claw[k].dropped
          /\ b.claw[k].pending = a.claw[k].pending - p[MaxLot][k]
          /\ \A l \in Lots : b.claw[k].paid[l] = a.claw[k].paid[l] + Payment(p, l)[k]

LEMMA ReleaseParts ==
    ASSUME NEW a, Sound(a), NEW held \in [Lots -> Nat], NEW take \in [Lots -> Nat],
           \A l \in Lots : take[l] <= held[l] /\ held[l] <= a.lot[l].held,
           NEW released, released = [l \in Lots |-> held[l] - take[l]],
           NEW p, p = PaidUpTo(a, released),
           NEW b, b = ReleaseHolds(a, held, take, p)
    PROVE  Releasing(a, b, held, take, p) /\ released \in [Lots -> Nat]
<1> DEFINE pays(l) == SumTo([k \in Claws |-> p[l][k] - p[l - 1][k]], MaxClaw)
           rest(l) == IF Done(a, l) THEN held[l] - take[l] - pays(l) ELSE 0
           row == [l \in Lots |-> [a.lot[l] EXCEPT !.held = @ - held[l],
                                     !.remaining = @ - take[l] - pays(l) - rest(l),
                                     !.spent = @ + take[l],
                                     !.expired = @ + rest(l)]]
           made == [k \in Claws |-> [a.claw[k] EXCEPT !.pending = @ - p[MaxLot][k],
                                       !.paid = [l \in Lots |-> @[l] + (p[l][k] - p[l - 1][k])]]]
<1>1. /\ a \in Account /\ \A l \in Lots : a.lot[l] \in Lot
      /\ \A k \in Claws : a.claw[k] \in Claw
  BY AccountTypes DEF Sound
<1>2. released \in [Lots -> Nat] /\ \A l \in Lots : released[l] = held[l] - take[l]
  OBVIOUS
<1>3. b = [a EXCEPT !.lot = row, !.claw = made]
  BY DEF ReleaseHolds
<1>4. \A l \in Lots : pays(l) = Pays(p, l) /\ rest(l) = Rest(a, held, take, p, l)
  BY DEF Pays, Payment, Rest
<1>5. \A k \in Claws : \A l \in Lots : p[l][k] - p[l - 1][k] = Payment(p, l)[k]
  BY DEF Payment
<1> HIDE DEF pays, rest
<1>6. /\ \A l \in Lots : /\ Pays(p, l) \in Nat /\ Pays(p, l) <= released[l]
                         /\ \A k \in Claws : Payment(p, l)[k] \in Nat
      /\ \A k \in Claws : p[MaxLot][k] \in Nat /\ p[MaxLot][k] <= a.claw[k].pending
  BY <1>1, <1>2, PaymentsFit
<1>7. ASSUME NEW l \in Lots
      PROVE  /\ rest(l) \in Nat /\ take[l] + pays(l) + rest(l) <= held[l]
             /\ pays(l) \in Nat /\ take[l] \in Nat /\ held[l] \in Nat
  <2>1. pays(l) \in Nat /\ pays(l) <= held[l] - take[l]
    BY <1>2, <1>4, <1>6
  <2>2. rest(l) = IF Done(a, l) THEN held[l] - take[l] - pays(l) ELSE 0
    BY DEF rest
  <2> QED BY <2>1, <2>2
<1>8. ASSUME NEW l \in Lots
      PROVE  /\ row[l] \in Lot /\ row[l].unit = a.lot[l].unit /\ row[l].seq = a.lot[l].seq
             /\ row[l].granted = a.lot[l].granted /\ row[l].repaid = a.lot[l].repaid
             /\ row[l].held = a.lot[l].held - held[l]
             /\ row[l].remaining = a.lot[l].remaining - take[l] - pays(l) - rest(l)
             /\ row[l].spent = a.lot[l].spent + take[l]
             /\ row[l].expired = a.lot[l].expired + rest(l) /\ row[l].rank = a.lot[l].rank
  <2>1. PICK q \in Lot : q = a.lot[l]
    BY <1>1
  <2>2. q.held <= q.remaining /\ held[l] <= q.held
    BY <2>1 DEF Sound, LotIsSound
  <2>3. PICK h \in Nat : h = q.held - held[l]
    BY <1>7, <2>2, LotTypes
  <2>4. PICK m \in Nat : m = q.remaining - take[l] - pays(l) - rest(l)
    BY <1>7, <2>2, LotTypes
  <2>5. PICK s \in Nat, x \in Nat : s = q.spent + take[l] /\ x = q.expired + rest(l)
    BY <1>7, LotTypes
  <2>6. row[l] = [q EXCEPT !.held = h, !.remaining = m, !.spent = s, !.expired = x]
    BY <2>1, <2>3, <2>4, <2>5
  <2>7. PICK r : r = row[l]
    OBVIOUS
  <2> HIDE DEF row
  <2>8. r = [q EXCEPT !.held = h, !.remaining = m, !.spent = s, !.expired = x]
    BY <2>6, <2>7
  <2>9. /\ r \in Lot /\ r.unit = q.unit /\ r.seq = q.seq /\ r.granted = q.granted
        /\ r.repaid = q.repaid /\ r.held = h /\ r.remaining = m /\ r.spent = s /\ r.expired = x
        /\ r.rank = q.rank
    BY <2>8 DEF Lot
  <2> QED BY <2>1, <2>3, <2>4, <2>5, <2>7, <2>9
<1>9. ASSUME NEW k \in Claws
      PROVE  /\ made[k] \in Claw
             /\ made[k].state = a.claw[k].state /\ made[k].source = a.claw[k].source
             /\ made[k].unit = a.claw[k].unit /\ made[k].want = a.claw[k].want
             /\ made[k].took = a.claw[k].took /\ made[k].debt = a.claw[k].debt
             /\ made[k].dropped = a.claw[k].dropped
             /\ made[k].pending = a.claw[k].pending - p[MaxLot][k]
             /\ \A l \in Lots : made[k].paid[l] = a.claw[k].paid[l] + Payment(p, l)[k]
  <2>1. PICK q \in Claw : q = a.claw[k]
    BY <1>1
  <2>a. /\ q.pending \in Nat /\ \A l \in Lots : q.paid[l] \in Nat
        /\ p[MaxLot][k] \in Nat /\ p[MaxLot][k] <= q.pending
    <3>1. q.pending \in Nat /\ \A l \in Lots : q.paid[l] \in Nat
      BY ClawTypes
    <3>2. p[MaxLot][k] \in Nat /\ p[MaxLot][k] <= q.pending
      BY <1>6, <2>1
    <3> QED BY <3>1, <3>2
  <2>2. PICK m \in Nat : m = q.pending - p[MaxLot][k]
    <3>1. PICK P \in Nat, Q \in Nat : P = q.pending /\ Q = p[MaxLot][k]
      BY <2>a
    <3>2. Q <= P
      BY <2>a, <3>1
    <3>3. P - Q \in Nat
      BY <3>2
    <3> QED BY <3>1, <3>3
  <2>3. PICK f : f = [l \in Lots |-> q.paid[l] + (p[l][k] - p[l - 1][k])]
    OBVIOUS
  <2>4. \A l \in Lots : f[l] = q.paid[l] + Payment(p, l)[k]
    BY <1>5, <2>3
  <2>5. f \in [Lots -> Nat]
    <3>1. ASSUME NEW l \in Lots PROVE f[l] \in Nat
      <4>1. Payment(p, l)[k] \in Nat /\ q.paid[l] \in Nat
        BY <1>6, <2>a
      <4> QED BY <2>4, <4>1
    <3> QED BY <2>3, <3>1
  <2>6. made[k] = [q EXCEPT !.pending = m, !.paid = f]
    BY <2>1, <2>2, <2>3
  <2>7. PICK r : r = made[k]
    OBVIOUS
  <2> HIDE DEF made
  <2>8. r = [q EXCEPT !.pending = m, !.paid = f]
    BY <2>6, <2>7
  <2>9. /\ r \in Claw /\ r.state = q.state /\ r.source = q.source /\ r.unit = q.unit
        /\ r.want = q.want /\ r.took = q.took /\ r.debt = q.debt /\ r.dropped = q.dropped
        /\ r.pending = m /\ r.paid = f
    BY <2>5, <2>8 DEF Claw
  <2> QED BY <2>1, <2>2, <2>4, <2>7, <2>9
<1>10. row \in [Lots -> Lot] /\ made \in [Claws -> Claw]
  BY <1>8, <1>9
<1> HIDE DEF row, made
<1>11. /\ b \in Account /\ b.lot = row /\ b.claw = made /\ b.debt = a.debt
       /\ b.forgiven = a.forgiven /\ b.back = a.back
  BY <1>1, <1>3, <1>10 DEF Account
<1>12. ASSUME NEW l \in Lots
       PROVE  /\ take[l] \in Nat /\ Pays(p, l) \in Nat /\ Rest(a, held, take, p, l) \in Nat
              /\ held[l] \in Nat /\ held[l] <= a.lot[l].held
              /\ take[l] + Pays(p, l) + Rest(a, held, take, p, l) <= held[l]
              /\ b.lot[l].unit = a.lot[l].unit /\ b.lot[l].seq = a.lot[l].seq
              /\ b.lot[l].granted = a.lot[l].granted /\ b.lot[l].repaid = a.lot[l].repaid
              /\ b.lot[l].held = a.lot[l].held - held[l]
              /\ b.lot[l].remaining = a.lot[l].remaining - take[l] - Pays(p, l)
                                      - Rest(a, held, take, p, l)
              /\ b.lot[l].spent = a.lot[l].spent + take[l]
              /\ b.lot[l].expired = a.lot[l].expired + Rest(a, held, take, p, l)
              /\ b.lot[l].rank = a.lot[l].rank
  <2>1. pays(l) = Pays(p, l) /\ rest(l) = Rest(a, held, take, p, l)
    BY <1>4
  <2>2. held[l] <= a.lot[l].held
    OBVIOUS
  <2>3. b.lot[l] = row[l]
    BY <1>11
  <2>4. /\ take[l] \in Nat /\ pays(l) \in Nat /\ rest(l) \in Nat /\ held[l] \in Nat
        /\ take[l] + pays(l) + rest(l) <= held[l]
    BY <1>7
  <2>5. /\ row[l].unit = a.lot[l].unit /\ row[l].seq = a.lot[l].seq
        /\ row[l].granted = a.lot[l].granted /\ row[l].repaid = a.lot[l].repaid
        /\ row[l].held = a.lot[l].held - held[l]
        /\ row[l].remaining = a.lot[l].remaining - take[l] - pays(l) - rest(l)
        /\ row[l].spent = a.lot[l].spent + take[l]
        /\ row[l].expired = a.lot[l].expired + rest(l) /\ row[l].rank = a.lot[l].rank
    BY <1>8
  <2> QED BY ONLY <2>1, <2>2, <2>3, <2>4, <2>5, SMTT(15)
<1>13. \A k \in Claws : b.claw[k] = made[k]
  BY <1>11
<1>14. \A k \in Claws :
           /\ b.claw[k].state = a.claw[k].state /\ b.claw[k].source = a.claw[k].source
           /\ b.claw[k].unit = a.claw[k].unit /\ b.claw[k].want = a.claw[k].want
           /\ b.claw[k].took = a.claw[k].took /\ b.claw[k].debt = a.claw[k].debt
           /\ b.claw[k].dropped = a.claw[k].dropped
           /\ b.claw[k].pending = a.claw[k].pending - p[MaxLot][k]
           /\ \A l \in Lots : b.claw[k].paid[l] = a.claw[k].paid[l] + Payment(p, l)[k]
  BY ONLY <1>9, <1>13
<1> QED BY ONLY <1>2, <1>11, <1>12, <1>14 DEF Releasing

LEMMA SameClaw ==
    ASSUME NEW c \in Claw, NEW d \in Claw,
           c.state = d.state, c.source = d.source, c.unit = d.unit, c.want = d.want,
           c.took = d.took, \A l \in Lots : c.paid[l] = d.paid[l],
           c.pending = d.pending, c.debt = d.debt, c.dropped = d.dropped
    PROVE  c = d
<1>1. c.paid = d.paid
  <2>1. c.paid \in [Lots -> Nat] /\ d.paid \in [Lots -> Nat]
    BY DEF Claw
  <2> QED BY <2>1
<1> QED BY <1>1 DEF Claw

LEMMA ReleaseTotals ==
    ASSUME NEW a, Sound(a), NEW held, NEW take, NEW released \in [Lots -> Nat],
           NEW p, p = PaidUpTo(a, released), NEW b, Releasing(a, b, held, take, p)
    PROVE  /\ \A l \in Lots : Clawed(b, l) = Clawed(a, l) + Pays(p, l)
           /\ DebtMade(b) = DebtMade(a) /\ Charged(b) = Charged(a) /\ Repaid(b) = Repaid(a)
           /\ \A k \in Claws : Total(b.claw[k].paid) = Total(a.claw[k].paid) + p[MaxLot][k]
           /\ PendingClaimTotal(b) <= PendingClaimTotal(a)
<1>1. /\ a \in Account /\ b \in Account
      /\ \A k \in Claws : /\ a.claw[k] \in Claw /\ b.claw[k] \in Claw
                          /\ a.claw[k].pending \in Nat
                          /\ \A l \in Lots : a.claw[k].took[l] \in Nat /\ a.claw[k].paid[l] \in Nat
  BY AccountTypes, ClawTypes DEF Sound, Releasing
<1>2. /\ \A l \in Lots : \A k \in Claws : Payment(p, l)[k] \in Nat
      /\ \A k \in Claws : /\ p[MaxLot][k] \in Nat /\ p[MaxLot][k] <= a.claw[k].pending
                          /\ Total([l \in Lots |-> Payment(p, l)[k]]) = p[MaxLot][k]
  BY <1>1, PaymentsFit
<1>3. \A k \in Claws :
         /\ b.claw[k].took = a.claw[k].took /\ b.claw[k].debt = a.claw[k].debt
         /\ b.claw[k].dropped = a.claw[k].dropped
         /\ b.claw[k].pending = a.claw[k].pending - p[MaxLot][k]
         /\ \A l \in Lots : b.claw[k].paid[l] = a.claw[k].paid[l] + Payment(p, l)[k]
  BY DEF Releasing
<1>4. DebtMade(b) = DebtMade(a) /\ Charged(b) = Charged(a)
  BY <1>3 DEF DebtMade, Charged
<1>5. Repaid(b) = Repaid(a)
  <2>1. \A l \in Lots : b.lot[l].repaid = a.lot[l].repaid
    BY DEF Releasing
  <2> QED BY <2>1 DEF Repaid
<1>6. ASSUME NEW l \in Lots PROVE Clawed(b, l) = Clawed(a, l) + Pays(p, l)
  <2> DEFINE f == [k \in Claws |-> a.claw[k].took[l] + a.claw[k].paid[l]]
             g == [k \in Claws |-> b.claw[k].took[l] + b.claw[k].paid[l]]
  <2>1. PICK h : h = Payment(p, l)
    OBVIOUS
  <2>2. ASSUME NEW k \in Claws PROVE f[k] \in Nat /\ h[k] \in Nat /\ g[k] = f[k] + h[k]
    <3>1. a.claw[k].took[l] \in Nat /\ a.claw[k].paid[l] \in Nat /\ h[k] \in Nat
      BY <1>1, <1>2, <2>1
    <3>2. b.claw[k].took[l] = a.claw[k].took[l] /\ b.claw[k].paid[l] = a.claw[k].paid[l] + h[k]
      BY <1>3, <2>1
    <3> QED BY <3>1, <3>2
  <2> HIDE DEF f, g
  <2>3. /\ IntsUpTo(f, MaxClaw) /\ IntsUpTo(h, MaxClaw)
        /\ \A k \in 1 .. MaxClaw : g[k] = f[k] + h[k]
    BY <2>2 DEF IntsUpTo, Claws
  <2>4. SumTo(g, MaxClaw) = SumTo(f, MaxClaw) + SumTo(h, MaxClaw)
    BY ONLY <2>3, Sizes, SumAdd
  <2> QED BY <2>1, <2>4 DEF f, g, Clawed, Pays
<1>7. ASSUME NEW k \in Claws
      PROVE  Total(b.claw[k].paid) = Total(a.claw[k].paid) + p[MaxLot][k]
  <2>1. PICK f, g, h : /\ f = a.claw[k].paid /\ g = b.claw[k].paid
                       /\ h = [l \in Lots |-> Payment(p, l)[k]]
    OBVIOUS
  <2>2. ASSUME NEW l \in Lots PROVE f[l] \in Nat /\ h[l] \in Nat /\ g[l] = f[l] + h[l]
    BY <1>1, <1>2, <1>3, <2>1
  <2>3. /\ IntsUpTo(f, MaxLot) /\ IntsUpTo(h, MaxLot)
        /\ \A l \in 1 .. MaxLot : g[l] = f[l] + h[l]
    BY <2>2 DEF IntsUpTo, Lots
  <2>4. SumTo(g, MaxLot) = SumTo(f, MaxLot) + SumTo(h, MaxLot)
    BY ONLY <2>3, Sizes, SumAdd
  <2>5. Total(h) = p[MaxLot][k]
    BY <1>2, <2>1
  <2> QED BY <2>1, <2>4, <2>5 DEF Total
<1>8. PendingClaimTotal(b) <= PendingClaimTotal(a)
  <2> DEFINE f == [k \in Claws |-> a.claw[k].pending]
             g == [k \in Claws |-> b.claw[k].pending]
  <2>1. ASSUME NEW k \in Claws PROVE f[k] \in Nat /\ g[k] \in Nat /\ g[k] <= f[k]
    <3>1. a.claw[k].pending \in Nat /\ p[MaxLot][k] \in Nat /\ p[MaxLot][k] <= a.claw[k].pending
      BY <1>1, <1>2
    <3>2. b.claw[k].pending = a.claw[k].pending - p[MaxLot][k]
      BY <1>3
    <3> QED BY <3>1, <3>2
  <2>2. /\ IntsUpTo(f, MaxClaw) /\ IntsUpTo(g, MaxClaw)
        /\ \A k \in 1 .. MaxClaw : g[k] <= f[k]
    <3> HIDE DEF f, g
    <3> QED BY <2>1 DEF IntsUpTo, Claws
  <2> HIDE DEF f, g
  <2>3. SumTo(g, MaxClaw) <= SumTo(f, MaxClaw)
    BY ONLY <2>2, Sizes, SumMonotone
  <2> QED BY <2>3 DEF f, g, PendingClaimTotal
<1> QED BY <1>4, <1>5, <1>6, <1>7, <1>8

LEMMA ReleaseIsSound ==
    ASSUME NEW a, Sound(a), NEW held, NEW take, NEW released \in [Lots -> Nat],
           NEW p, p = PaidUpTo(a, released), NEW b, Releasing(a, b, held, take, p)
    PROVE  Sound(b)
<1>1. /\ a \in Account /\ b \in Account /\ b.debt = a.debt /\ b.forgiven = a.forgiven
      /\ b.back = a.back
      /\ \A k \in Claws : a.claw[k] \in Claw /\ b.claw[k] \in Claw
  BY AccountTypes DEF Sound, Releasing
<1>2. /\ \A l \in Lots : /\ Clawed(b, l) = Clawed(a, l) + Pays(p, l)
                         /\ Clawed(a, l) \in Nat
      /\ DebtMade(b) = DebtMade(a) /\ Repaid(b) = Repaid(a)
      /\ \A k \in Claws : Total(b.claw[k].paid) = Total(a.claw[k].paid) + p[MaxLot][k]
  <2>1. \A l \in Lots : Clawed(a, l) \in Nat
    BY <1>1, AmountTypes
  <2>2. /\ \A l \in Lots : Clawed(b, l) = Clawed(a, l) + Pays(p, l)
        /\ DebtMade(b) = DebtMade(a) /\ Repaid(b) = Repaid(a)
        /\ \A k \in Claws : Total(b.claw[k].paid) = Total(a.claw[k].paid) + p[MaxLot][k]
    BY ReleaseTotals
  <2> QED BY <2>1, <2>2
<1>3. /\ \A l \in Lots : \A k \in Claws :
            /\ Payment(p, l)[k] \in Nat /\ Payment(p, l)[k] = p[l][k] - p[l - 1][k]
            /\ Payment(p, l)[k] > 0 => MayPay(a, k, l)
      /\ \A k \in Claws : p[MaxLot][k] \in Nat /\ p[MaxLot][k] <= a.claw[k].pending
      /\ \A k \in Claws : Total([l \in Lots |-> Payment(p, l)[k]]) = p[MaxLot][k]
  <2>1. \A l \in Lots : \A k \in Claws :
           /\ Payment(p, l)[k] \in Nat /\ Payment(p, l)[k] = p[l][k] - p[l - 1][k]
           /\ Payment(p, l)[k] > 0 => MayPay(a, k, l)
    BY <1>1, PaymentsFit
  <2>2. \A k \in Claws : /\ p[MaxLot][k] \in Nat /\ p[MaxLot][k] <= a.claw[k].pending
                         /\ Total([l \in Lots |-> Payment(p, l)[k]]) = p[MaxLot][k]
    BY <1>1, PaymentsFit
  <2> QED BY <2>1, <2>2
<1>4. ASSUME NEW l \in Lots
      PROVE  /\ b.lot[l].seq = a.lot[l].seq /\ b.lot[l].granted = a.lot[l].granted
             /\ b.lot[l].held <= b.lot[l].remaining
             /\ b.lot[l].remaining + b.lot[l].expired + b.lot[l].spent + b.lot[l].repaid
                  + Clawed(b, l)
                = a.lot[l].remaining + a.lot[l].expired + a.lot[l].spent + a.lot[l].repaid
                  + Clawed(a, l)
  <2>1. PICK r : r = Rest(a, held, take, p, l)
    OBVIOUS
  <2>2. /\ take[l] \in Nat /\ Pays(p, l) \in Nat /\ r \in Nat
        /\ held[l] \in Nat /\ held[l] <= a.lot[l].held
        /\ take[l] + Pays(p, l) + r <= held[l]
        /\ b.lot[l].seq = a.lot[l].seq /\ b.lot[l].granted = a.lot[l].granted
        /\ b.lot[l].repaid = a.lot[l].repaid
        /\ b.lot[l].held = a.lot[l].held - held[l]
        /\ b.lot[l].remaining = a.lot[l].remaining - take[l] - Pays(p, l) - r
        /\ b.lot[l].spent = a.lot[l].spent + take[l]
        /\ b.lot[l].expired = a.lot[l].expired + r
    BY <2>1 DEF Releasing
  <2>3. a.lot[l] \in Lot /\ a.lot[l].held <= a.lot[l].remaining
    BY <1>1, AccountTypes DEF Sound, LotIsSound
  <2>4. PICK q \in Lot : q = a.lot[l]
    BY <2>3
  <2>5. /\ q.remaining \in Nat /\ q.held \in Nat /\ q.expired \in Nat /\ q.spent \in Nat
        /\ q.repaid \in Nat
    BY LotTypes
  <2>6. b.lot[l].held <= b.lot[l].remaining
    BY <2>2, <2>3, <2>4, <2>5
  <2>7. Clawed(b, l) = Clawed(a, l) + Pays(p, l) /\ Clawed(a, l) \in Nat
    BY <1>2
  <2> QED BY <2>2, <2>4, <2>5, <2>6, <2>7
<1>5. ASSUME NEW k \in Claws PROVE ClawIsSound(b, k)
  <2>1. /\ b.claw[k].state = a.claw[k].state /\ b.claw[k].source = a.claw[k].source
        /\ b.claw[k].unit = a.claw[k].unit /\ b.claw[k].want = a.claw[k].want
        /\ b.claw[k].took = a.claw[k].took /\ b.claw[k].debt = a.claw[k].debt
        /\ b.claw[k].dropped = a.claw[k].dropped
        /\ b.claw[k].pending = a.claw[k].pending - p[MaxLot][k]
        /\ \A l \in Lots : b.claw[k].paid[l] = a.claw[k].paid[l] + Payment(p, l)[k]
    BY DEF Releasing
  <2>2. ClawIsSound(a, k)
    BY DEF Sound
  <2>3. /\ a.claw[k].pending \in Nat /\ a.claw[k].want \in Nat /\ a.claw[k].debt \in Nat
        /\ a.claw[k].dropped \in Nat /\ Total(a.claw[k].took) \in Nat
        /\ Total(a.claw[k].paid) \in Nat
        /\ \A l \in Lots : a.claw[k].paid[l] \in Nat
    BY <1>1, ClawTypes
  <2>4. ASSUME b.claw[k].state = "none" PROVE b.claw[k] = NoClaw /\ b.back.released[k] = 0
    <3>1. a.claw[k] = NoClaw /\ a.back.released[k] = 0
      BY <2>1, <2>2, <2>4 DEF ClawIsSound
    <3>2. a.claw[k].pending = 0
      BY <3>1 DEF NoClaw
    <3>3. p[MaxLot][k] = 0
      BY <1>3, <3>2
    <3>4. ASSUME NEW l \in Lots PROVE Payment(p, l)[k] = 0
      <4> DEFINE f == [m \in Lots |-> Payment(p, m)[k]]
      <4>1. \A m \in 1 .. MaxLot : f[m] \in Nat
        BY <1>3 DEF Lots
      <4>2. l \in 1 .. MaxLot /\ f[l] = Payment(p, l)[k]
        BY DEF Lots
      <4>3. SumTo(f, MaxLot) = 0
        BY <1>3, <3>3 DEF Total
      <4>4. Payment(p, l)[k] \in Nat
        BY <1>3
      <4> HIDE DEF f
      <4>5. f[l] <= 0
        BY <4>1, <4>2, <4>3, Sizes, SumCovers
      <4> QED BY <4>2, <4>4, <4>5
    <3>5. \A l \in Lots : b.claw[k].paid[l] = a.claw[k].paid[l]
      BY <2>1, <2>3, <3>4
    <3>6. b.claw[k].pending = a.claw[k].pending
      BY <2>1, <3>2, <3>3
    <3>7. b.claw[k] = a.claw[k]
      BY <1>1, <2>1, <3>5, <3>6, SameClaw
    <3> QED BY <1>1, <3>1, <3>7
  <2>5. b.claw[k].want = Total(b.claw[k].took) + Total(b.claw[k].paid) + b.claw[k].pending
                         + b.back.released[k] + b.claw[k].debt + b.claw[k].dropped
    <3>1. a.claw[k].want = Total(a.claw[k].took) + Total(a.claw[k].paid) + a.claw[k].pending
                           + a.back.released[k] + a.claw[k].debt + a.claw[k].dropped
      BY <2>2 DEF ClawIsSound
    <3>2. Total(b.claw[k].paid) = Total(a.claw[k].paid) + p[MaxLot][k] /\ p[MaxLot][k] \in Nat
      BY <1>2, <1>3
    <3>3. a.back.released[k] \in Nat
      BY <1>1, BackTypes
    <3> QED BY <1>1, <2>1, <2>3, <3>1, <3>2, <3>3
  <2>6. b.claw[k].dropped > 0 => b.claw[k].source = "reversal" /\ b.claw[k].unit \in Annual
    BY <2>1, <2>2 DEF ClawIsSound
  <2>7. ASSUME NEW l \in Lots, b.claw[k].source # "plan_change",
               b.lot[l].unit # b.claw[k].unit
        PROVE  b.claw[k].took[l] = 0 /\ b.claw[k].paid[l] = 0
    <3>1. a.lot[l].unit # a.claw[k].unit /\ a.claw[k].source # "plan_change"
      BY <2>1, <2>7 DEF Releasing
    <3>2. a.claw[k].took[l] = 0 /\ a.claw[k].paid[l] = 0
      BY <2>2, <3>1 DEF ClawIsSound
    <3>3. ~ MayPay(a, k, l)
      BY <3>1 DEF MayPay
    <3>4. Payment(p, l)[k] = 0
      <4>1. Payment(p, l)[k] \in Nat /\ (Payment(p, l)[k] > 0 => MayPay(a, k, l))
        BY <1>3
      <4> QED BY <3>3, <4>1
    <3> QED BY <2>1, <3>2, <3>4
  <2> QED BY <2>4, <2>5, <2>6, <2>7 DEF ClawIsSound
<1>6. b.debt - DebtMade(b) + Repaid(b) + b.forgiven
         = a.debt - DebtMade(a) + Repaid(a) + a.forgiven
  BY <1>1, <1>2
<1>7. ChargesKept(a, b)
  <2>1. ASSUME NEW k \in Claws
        PROVE  /\ b.claw[k].unit = a.claw[k].unit
               /\ b.claw[k].debt >= a.claw[k].debt /\ b.claw[k].dropped >= a.claw[k].dropped
               /\ \A l \in Lots : /\ b.claw[k].took[l] >= a.claw[k].took[l]
                                  /\ b.claw[k].paid[l] >= a.claw[k].paid[l]
    <3>1. /\ a.claw[k].debt \in Nat /\ a.claw[k].dropped \in Nat
          /\ \A l \in Lots : a.claw[k].took[l] \in Nat /\ a.claw[k].paid[l] \in Nat
      BY <1>1, ClawTypes
    <3>2. /\ b.claw[k].unit = a.claw[k].unit /\ b.claw[k].took = a.claw[k].took
          /\ b.claw[k].debt = a.claw[k].debt /\ b.claw[k].dropped = a.claw[k].dropped
          /\ \A l \in Lots : b.claw[k].paid[l] = a.claw[k].paid[l] + Payment(p, l)[k]
      BY DEF Releasing
    <3>3. \A l \in Lots : Payment(p, l)[k] \in Nat
      BY <1>3
    <3> QED BY <3>1, <3>2, <3>3
  <2>2. ASSUME NEW l \in Lots
        PROVE  b.lot[l].unit = a.lot[l].unit /\ b.lot[l].repaid >= a.lot[l].repaid
    <3>1. a.lot[l].repaid \in Nat
      BY <1>1, AccountTypes, LotTypes
    <3> QED BY <3>1 DEF Releasing
  <2> QED BY <1>1, <2>1, <2>2 DEF ChargesKept
<1> QED BY <1>1, <1>4, <1>5, <1>6, <1>7, StaysSound

\* The claims are paid what the lots pay.
LEMMA PendingFalls ==
    ASSUME NEW a, Sound(a), NEW held, NEW take, NEW released \in [Lots -> Nat],
           NEW p, p = PaidUpTo(a, released), NEW b, Releasing(a, b, held, take, p)
    PROVE  PendingClaimTotal(b) = PendingClaimTotal(a) - Total([l \in Lots |-> Pays(p, l)])
<1>1. /\ a \in Account /\ b \in Account
      /\ \A k \in Claws : /\ a.claw[k].pending \in Nat
                          /\ b.claw[k].pending = a.claw[k].pending - p[MaxLot][k]
  BY AccountTypes, ClawTypes DEF Sound, Releasing
<1>2. /\ \A k \in Claws : p[0][k] = 0
      /\ \A l \in 0 .. MaxLot : \A k \in Claws : p[l][k] \in Nat
  BY <1>1, PaidFits
<1> DEFINE R == [l \in 0 .. MaxLot |-> SumTo(p[l], MaxClaw)]
           S == [l \in Lots |-> Pays(p, l)]
<1>3. ASSUME NEW l \in 0 .. MaxLot PROVE R[l] \in Nat /\ R[l] = SumTo(p[l], MaxClaw)
  <2>1. PICK v : v = p[l]
    OBVIOUS
  <2>2. \A k \in 1 .. MaxClaw : v[k] \in Nat
    BY <1>2, <2>1 DEF Claws
  <2>3. SumTo(v, MaxClaw) \in Nat
    BY <2>2, Sizes, SumNat
  <2> QED BY <2>1, <2>3
<1>4. ASSUME NEW l \in 1 .. MaxLot
      PROVE  l \in Lots /\ l \in 0 .. MaxLot /\ l - 1 \in 0 .. MaxLot
  BY Sizes DEF Lots
<1>5. ASSUME NEW l \in 1 .. MaxLot PROVE S[l] = R[l] - R[l - 1]
  <2>1. PICK v, w, h : v = p[l - 1] /\ w = p[l] /\ h = Payment(p, l)
    OBVIOUS
  <2>2. \A k \in 1 .. MaxClaw : v[k] \in Nat /\ w[k] \in Nat
    BY <1>2, <1>4, <2>1 DEF Claws
  <2>3. \A k \in 1 .. MaxClaw : h[k] = w[k] - v[k]
    BY <2>1 DEF Payment, Claws
  <2>4. IntsUpTo(v, MaxClaw) /\ IntsUpTo(w, MaxClaw)
    BY <2>2 DEF IntsUpTo
  <2>5. SumTo(h, MaxClaw) = SumTo(w, MaxClaw) - SumTo(v, MaxClaw)
    BY ONLY <2>3, <2>4, Sizes, SumSubtract
  <2>6. Pays(p, l) = SumTo(h, MaxClaw)
    BY <2>1 DEF Pays
  <2>7. R[l] = SumTo(w, MaxClaw) /\ R[l - 1] = SumTo(v, MaxClaw)
    BY <1>3, <1>4, <2>1
  <2>8. S[l] = Pays(p, l)
    BY <1>4
  <2> HIDE DEF R, S
  <2> QED BY <2>5, <2>6, <2>7, <2>8
<1>6. R[0] = 0
  <2>1. PICK v : v = p[0]
    OBVIOUS
  <2>2. \A k \in 1 .. MaxClaw : v[k] = 0
    BY <1>2, <2>1 DEF Claws
  <2>3. SumTo(v, MaxClaw) = 0
    BY <2>2, Sizes, SumZero
  <2>4. 0 \in 0 .. MaxLot
    BY Sizes
  <2> QED BY <1>3, <2>1, <2>3, <2>4
<1>7. R[MaxLot] = SumTo(p[MaxLot], MaxClaw) /\ R[MaxLot] \in Nat
  BY <1>3, Sizes
<1>8. \A l \in 0 .. MaxLot : R[l] \in Int
  BY <1>3
<1> HIDE DEF R, S
<1>9. SumTo(S, MaxLot) = R[MaxLot] - R[0]
  BY ONLY <1>5, <1>8, Sizes, SumTelescopes
<1>10. PendingClaimTotal(b) = PendingClaimTotal(a) - R[MaxLot]
  <2>1. PICK v : v = p[MaxLot]
    OBVIOUS
  <2> DEFINE f == [k \in Claws |-> a.claw[k].pending]
             g == [k \in Claws |-> b.claw[k].pending]
  <2>2. ASSUME NEW k \in Claws PROVE f[k] \in Nat /\ v[k] \in Nat /\ g[k] = f[k] - v[k]
    <3>1. MaxLot \in 0 .. MaxLot
      BY Sizes
    <3> QED BY <1>1, <1>2, <2>1, <3>1
  <2> HIDE DEF f, g
  <2>3. /\ IntsUpTo(f, MaxClaw) /\ IntsUpTo(v, MaxClaw)
        /\ \A k \in 1 .. MaxClaw : g[k] = f[k] - v[k]
    BY <2>2 DEF IntsUpTo, Claws
  <2>4. SumTo(g, MaxClaw) = SumTo(f, MaxClaw) - SumTo(v, MaxClaw)
    BY ONLY <2>3, Sizes, SumSubtract
  <2> QED BY <1>7, <2>1, <2>4 DEF f, g, PendingClaimTotal
<1> QED BY <1>6, <1>7, <1>9, <1>10 DEF S, Total

\* A payment taken back alone still claims only what its lots hold: either every
\* one of them paid all it gave back, or all its claims are paid.
LEMMA ReleaseWorth ==
    ASSUME NEW a, Sound(a), Worth(a), NEW held \in [Lots -> Nat], NEW take \in [Lots -> Nat],
           NEW released \in [Lots -> Nat], \A l \in Lots : released[l] = held[l] - take[l],
           NEW p, p = PaidUpTo(a, released), NEW b, Releasing(a, b, held, take, p)
    PROVE  Worth(b)
<1> SUFFICES ASSUME NEW u \in Units, Alone(b, u)
             PROVE  /\ Charged(b) <= UsedOf(b, u)
                    /\ Charged(b) + PendingClaimTotal(b) <= HeldOf(b, u) + UsedOf(b, u)
  BY DEF Worth
<1>1. /\ a \in Account /\ b \in Account /\ b.back = a.back
      /\ \A k \in Claws :
            /\ b.claw[k].state = a.claw[k].state /\ b.claw[k].source = a.claw[k].source
            /\ b.claw[k].unit = a.claw[k].unit
            /\ b.claw[k].pending = a.claw[k].pending - p[MaxLot][k]
      /\ \A l \in Lots :
            /\ b.lot[l].unit = a.lot[l].unit /\ b.lot[l].repaid = a.lot[l].repaid
            /\ b.lot[l].held = a.lot[l].held - held[l]
            /\ b.lot[l].spent = a.lot[l].spent + take[l]
            /\ a.lot[l] \in Lot
  BY AccountTypes DEF Sound, Releasing
<1>2. Alone(a, u)
  BY <1>1 DEF Alone
<1>3. /\ Charged(a) <= UsedOf(a, u)
      /\ Charged(a) + PendingClaimTotal(a) <= HeldOf(a, u) + UsedOf(a, u)
  BY <1>2 DEF Worth
<1>4. Charged(b) = Charged(a)
  BY ReleaseTotals
<1>5. OfUnit(b, u) = OfUnit(a, u)
  BY <1>1 DEF OfUnit
<1> DEFINE gone == [l \in Lots |-> IF l \in OfUnit(a, u) THEN held[l] ELSE 0]
           used == [l \in Lots |-> IF l \in OfUnit(a, u) THEN take[l] ELSE 0]
           pays == [l \in Lots |-> Pays(p, l)]
<1>6. /\ \A l \in 1 .. MaxLot : gone[l] \in Nat /\ used[l] \in Nat
      /\ IntsUpTo(gone, MaxLot) /\ IntsUpTo(used, MaxLot)
  BY DEF IntsUpTo, Lots
<1>7. HeldOf(b, u) = HeldOf(a, u) - Total(gone)
  <2> DEFINE f == [l \in Lots |-> IF l \in OfUnit(a, u) THEN a.lot[l].held ELSE 0]
             g == [l \in Lots |-> IF l \in OfUnit(b, u) THEN b.lot[l].held ELSE 0]
  <2>1. ASSUME NEW l \in Lots PROVE f[l] \in Nat /\ g[l] = f[l] - gone[l]
    <3>1. a.lot[l].held \in Nat /\ b.lot[l].held = a.lot[l].held - held[l]
      BY <1>1, LotTypes
    <3> QED BY <1>5, <3>1
  <2> HIDE DEF f, g, gone
  <2>2. IntsUpTo(f, MaxLot) /\ \A l \in 1 .. MaxLot : g[l] = f[l] - gone[l]
    BY <2>1 DEF IntsUpTo, Lots
  <2>3. SumTo(g, MaxLot) = SumTo(f, MaxLot) - SumTo(gone, MaxLot)
    BY ONLY <1>6, <2>2, Sizes, SumSubtract
  <2> QED BY <2>3 DEF f, g, HeldOf, Total
<1>8. UsedOf(b, u) = UsedOf(a, u) + Total(used)
  <2> DEFINE f == [l \in Lots |-> IF l \in OfUnit(a, u)
                                  THEN a.lot[l].spent + a.lot[l].repaid - a.back.returned[l]
                                  ELSE 0]
             g == [l \in Lots |-> IF l \in OfUnit(b, u)
                                  THEN b.lot[l].spent + b.lot[l].repaid - b.back.returned[l]
                                  ELSE 0]
  <2>1. ASSUME NEW l \in Lots PROVE f[l] \in Int /\ g[l] = f[l] + used[l]
    <3>0. a.back.returned[l] \in Nat /\ take[l] \in Nat
      BY <1>1, BackTypes
    <3>1. /\ a.lot[l].spent \in Nat /\ a.lot[l].repaid \in Nat
          /\ b.lot[l].spent = a.lot[l].spent + take[l] /\ b.lot[l].repaid = a.lot[l].repaid
      BY <1>1, LotTypes
    <3> QED BY <1>1, <1>5, <3>0, <3>1
  <2> HIDE DEF f, g, used
  <2>2. IntsUpTo(f, MaxLot) /\ \A l \in 1 .. MaxLot : g[l] = f[l] + used[l]
    BY <2>1 DEF IntsUpTo, Lots
  <2>3. SumTo(g, MaxLot) = SumTo(f, MaxLot) + SumTo(used, MaxLot)
    BY ONLY <1>6, <2>2, Sizes, SumAdd
  <2>4. SumTo(f, MaxLot) \in Int /\ SumTo(used, MaxLot) \in Nat
    BY <1>6, <2>2, Sizes, SumStep, SumNat
  <2>5. /\ UsedOf(a, u) = SumTo(f, MaxLot) + a.back.excused[u] + a.back.undone[u]
        /\ UsedOf(b, u) = SumTo(g, MaxLot) + a.back.excused[u] + a.back.undone[u]
    BY <1>1 DEF f, g, UsedOf, Total
  <2>6. a.back.excused[u] \in Nat /\ a.back.undone[u] \in Nat
    BY <1>1, BackTypes
  <2> QED BY <2>3, <2>4, <2>5, <2>6 DEF Total
<1>9. Total(gone) \in Nat /\ Total(used) \in Nat
  <2> HIDE DEF gone, used
  <2> QED BY <1>6, Sizes, SumNat DEF Total
<1>10. PendingClaimTotal(b) = PendingClaimTotal(a) - Total(pays)
  BY PendingFalls
<1>11. /\ Charged(a) \in Nat /\ PendingClaimTotal(a) \in Nat /\ PendingClaimTotal(b) \in Nat
       /\ HeldOf(a, u) \in Nat /\ UsedOf(a, u) \in Int /\ HeldOf(b, u) \in Nat
  BY <1>1, AmountTypes
<1>12. CASE \A l \in OfUnit(a, u) : Pays(p, l) = released[l]
  <2> DEFINE back == [l \in Lots |-> gone[l] - used[l]]
  <2>1. ASSUME NEW l \in Lots PROVE pays[l] \in Nat /\ back[l] \in Int /\ back[l] <= pays[l]
    <3>1. Pays(p, l) \in Nat /\ released[l] = held[l] - take[l]
      BY <1>1, PaymentsFit
    <3>2. l \in OfUnit(a, u) => Pays(p, l) = released[l]
      BY <1>12
    <3> QED BY <3>1, <3>2
  <2>2. \A l \in 1 .. MaxLot : back[l] = gone[l] - used[l]
    BY DEF Lots
  <2>3. Total(pays) \in Int
    <3> HIDE DEF pays
    <3>1. IntsUpTo(pays, MaxLot)
      BY <2>1 DEF IntsUpTo, Lots
    <3> QED BY <3>1, Sizes, SumStep DEF Total
  <2>4. IntsUpTo(pays, MaxLot) /\ IntsUpTo(back, MaxLot)
        /\ \A l \in 1 .. MaxLot : back[l] <= pays[l]
    <3> HIDE DEF pays, back
    <3> QED BY <2>1 DEF IntsUpTo, Lots
  <2> HIDE DEF gone, used, pays, back
  <2>5. SumTo(back, MaxLot) = SumTo(gone, MaxLot) - SumTo(used, MaxLot)
    BY ONLY <1>6, <2>2, Sizes, SumSubtract
  <2>6. SumTo(back, MaxLot) <= SumTo(pays, MaxLot)
    BY ONLY <2>4, Sizes, SumMonotone
  <2>7. Total(gone) - Total(used) <= Total(pays)
    BY <2>5, <2>6 DEF Total
  <2> QED BY <1>3, <1>4, <1>7, <1>8, <1>9, <1>10, <1>11, <2>3, <2>7
<1>13. CASE ~ (\A l \in OfUnit(a, u) : Pays(p, l) = released[l])
  <2>1. PICK l \in OfUnit(a, u) : Pays(p, l) # released[l]
    BY <1>13
  <2>2. l \in Lots /\ a.lot[l].unit = u
    BY <2>1 DEF OfUnit
  <2>3. \A k \in Claws : MayPay(a, k, l) => p[l][k] = a.claw[k].pending
    BY <1>1, <2>1, <2>2, PaymentsFit
  <2>4. ASSUME NEW k \in Claws PROVE b.claw[k].pending = 0
    <3>1. /\ p[MaxLot][k] \in Nat /\ p[MaxLot][k] <= a.claw[k].pending
          /\ p[l][k] <= p[MaxLot][k]
      BY <1>1, <2>2, PaymentsFit
    <3>2. a.claw[k].pending \in Nat /\ b.claw[k].pending = a.claw[k].pending - p[MaxLot][k]
      BY <1>1, AccountTypes, ClawTypes
    <3>3. CASE a.claw[k].state = "none"
      <4>1. a.claw[k].pending = 0
        BY <3>3 DEF Sound, ClawIsSound, NoClaw
      <4> QED BY <3>1, <3>2, <4>1
    <3>4. CASE a.claw[k].state # "none"
      <4>1. a.claw[k].unit = a.lot[l].unit
        BY <1>2, <2>2, <3>4 DEF Alone
      <4>2. p[l][k] = a.claw[k].pending
        BY <2>3, <4>1 DEF MayPay
      <4> QED BY <3>1, <3>2, <4>2
    <3> QED BY <3>3, <3>4
  <2>5. PendingClaimTotal(b) = 0
    <3> DEFINE f == [k \in Claws |-> b.claw[k].pending]
    <3>1. \A k \in 1 .. MaxClaw : f[k] = 0
      BY <2>4 DEF Claws
    <3> HIDE DEF f
    <3>2. SumTo(f, MaxClaw) = 0
      BY <3>1, Sizes, SumZero
    <3> QED BY <3>2 DEF f, PendingClaimTotal
  <2> QED BY <1>3, <1>4, <1>8, <1>9, <1>11, <2>5
<1> QED BY <1>12, <1>13

\* The last task turns the claims that are left into debt, an annual payment's
\* it drops.
LEMMA LastClaims ==
    ASSUME NEW a, Sound(a), Worth(a), HeldMicro(a) = 0,
           NEW b, b = ClaimsLeftBecomeDebt(a, {})
    PROVE  /\ Sound(b) /\ Worth(b) /\ b.lot = a.lot /\ PendingClaimTotal(b) = 0
           /\ b.back = a.back
           /\ \A k \in Claws : b.claw[k].state = a.claw[k].state
<1> DEFINE annual(k) == a.claw[k].source = "reversal" /\ a.claw[k].unit \in Annual
           owed == [k \in Claws |-> IF annual(k) THEN 0 ELSE a.claw[k].pending]
           made == [k \in Claws |-> [a.claw[k] EXCEPT !.pending = 0,
                                       !.debt = @ + owed[k],
                                       !.dropped = @ + a.claw[k].pending - owed[k]]]
<1>1. a \in Account /\ a.debt \in Nat /\ \A k \in Claws : a.claw[k] \in Claw
  BY AccountTypes DEF Sound
<1>2. b = [a EXCEPT !.debt = @ + SumTo(owed, MaxClaw), !.claw = made]
  BY DEF ClaimsLeftBecomeDebt
<1>3. ASSUME NEW k \in Claws
      PROVE  /\ owed[k] \in Nat /\ owed[k] <= a.claw[k].pending
             /\ owed[k] < a.claw[k].pending => annual(k)
  <2>1. a.claw[k].pending \in Nat
    BY <1>1, ClawTypes
  <2> HIDE DEF annual
  <2> QED BY <2>1
<1> HIDE DEF owed
<1>4. /\ \A k \in 1 .. MaxClaw : owed[k] \in Nat
      /\ SumTo(owed, MaxClaw) \in Nat
  <2>1. \A k \in 1 .. MaxClaw : owed[k] \in Nat
    BY <1>3 DEF Claws
  <2> QED BY <2>1, Sizes, SumNat
<1>5. ASSUME NEW k \in Claws
      PROVE  /\ made[k] \in Claw
             /\ made[k].state = a.claw[k].state /\ made[k].source = a.claw[k].source
             /\ made[k].unit = a.claw[k].unit /\ made[k].want = a.claw[k].want
             /\ made[k].took = a.claw[k].took /\ made[k].paid = a.claw[k].paid
             /\ made[k].pending = 0
             /\ made[k].debt = a.claw[k].debt + owed[k]
             /\ made[k].dropped = a.claw[k].dropped + a.claw[k].pending - owed[k]
  <2>1. PICK q \in Claw : q = a.claw[k]
    BY <1>1
  <2>2. q.pending \in Nat /\ q.debt \in Nat /\ q.dropped \in Nat
    BY ClawTypes
  <2>3. owed[k] \in Nat /\ owed[k] <= q.pending
    BY <1>3, <2>1
  <2>4. PICK z \in Nat : z = 0
    OBVIOUS
  <2>5. PICK m \in Nat, n \in Nat : m = q.debt + owed[k] /\ n = q.dropped + q.pending - owed[k]
    <3>1. PICK P \in Nat, W \in Nat, D \in Nat, E \in Nat :
             P = q.pending /\ W = owed[k] /\ D = q.debt /\ E = q.dropped
      BY <2>2, <2>3
    <3>2. W <= P
      BY <2>3, <3>1
    <3>3. D + W \in Nat /\ E + P - W \in Nat
      BY <3>2
    <3> QED BY <3>1, <3>3
  <2>6. made[k] = [q EXCEPT !.pending = z, !.debt = m, !.dropped = n]
    BY <2>1, <2>4, <2>5
  <2>7. PICK r : r = made[k]
    OBVIOUS
  <2> HIDE DEF made
  <2>8. r = [q EXCEPT !.pending = z, !.debt = m, !.dropped = n]
    BY <2>6, <2>7
  <2>9. /\ r \in Claw /\ r.state = q.state /\ r.source = q.source /\ r.unit = q.unit
        /\ r.want = q.want /\ r.took = q.took /\ r.paid = q.paid
        /\ r.pending = z /\ r.debt = m /\ r.dropped = n
    BY <2>8 DEF Claw
  <2> QED BY <2>1, <2>4, <2>5, <2>7, <2>9
<1>6. made \in [Claws -> Claw]
  BY <1>5
<1> HIDE DEF made
<1>7. /\ b \in Account /\ b.lot = a.lot /\ b.claw = made /\ b.forgiven = a.forgiven
      /\ b.back = a.back
      /\ b.debt = a.debt + SumTo(owed, MaxClaw)
  <2>1. PICK d \in Nat : d = a.debt + SumTo(owed, MaxClaw)
    BY <1>1, <1>4
  <2>2. b = [a EXCEPT !.debt = d, !.claw = made]
    BY <1>2, <2>1
  <2>3. b \in Account /\ b.lot = a.lot /\ b.claw = made /\ b.forgiven = a.forgiven /\ b.debt = d
        /\ b.back = a.back
    BY <1>1, <1>6, <2>2 DEF Account
  <2> QED BY <2>1, <2>3
<1>8. \A k \in Claws :
         /\ b.claw[k] \in Claw
         /\ b.claw[k].state = a.claw[k].state /\ b.claw[k].source = a.claw[k].source
         /\ b.claw[k].unit = a.claw[k].unit /\ b.claw[k].want = a.claw[k].want
         /\ b.claw[k].took = a.claw[k].took /\ b.claw[k].paid = a.claw[k].paid
         /\ b.claw[k].pending = 0
         /\ b.claw[k].debt = a.claw[k].debt + owed[k]
         /\ b.claw[k].dropped = a.claw[k].dropped + a.claw[k].pending - owed[k]
  BY <1>5, <1>7
<1>9. \A k \in Claws : /\ a.claw[k].pending \in Nat /\ a.claw[k].debt \in Nat
                       /\ a.claw[k].dropped \in Nat /\ a.claw[k].want \in Nat
                       /\ Total(a.claw[k].took) \in Nat /\ Total(a.claw[k].paid) \in Nat
  BY <1>1, ClawTypes
<1>10. DebtMade(b) = DebtMade(a) + SumTo(owed, MaxClaw)
  <2> DEFINE f == [k \in Claws |-> a.claw[k].debt]
             g == [k \in Claws |-> b.claw[k].debt]
  <2>1. ASSUME NEW k \in Claws PROVE f[k] \in Nat /\ owed[k] \in Nat /\ g[k] = f[k] + owed[k]
    BY <1>3, <1>8, <1>9
  <2> HIDE DEF f, g
  <2>2. /\ IntsUpTo(f, MaxClaw) /\ IntsUpTo(owed, MaxClaw)
        /\ \A k \in 1 .. MaxClaw : g[k] = f[k] + owed[k]
    BY <2>1 DEF IntsUpTo, Claws
  <2>3. SumTo(g, MaxClaw) = SumTo(f, MaxClaw) + SumTo(owed, MaxClaw)
    BY ONLY <2>2, Sizes, SumAdd
  <2> QED BY <2>3 DEF f, g, DebtMade
<1>11. Charged(b) = Charged(a) + PendingClaimTotal(a)
  <2> DEFINE f == [k \in Claws |-> a.claw[k].debt + a.claw[k].dropped]
             h == [k \in Claws |-> a.claw[k].pending]
             g == [k \in Claws |-> b.claw[k].debt + b.claw[k].dropped]
  <2>1. ASSUME NEW k \in Claws PROVE f[k] \in Nat /\ h[k] \in Nat /\ g[k] = f[k] + h[k]
    <3>1. /\ a.claw[k].debt \in Nat /\ a.claw[k].dropped \in Nat /\ a.claw[k].pending \in Nat
          /\ owed[k] \in Nat
      BY <1>3, <1>9
    <3>2. /\ b.claw[k].debt = a.claw[k].debt + owed[k]
          /\ b.claw[k].dropped = a.claw[k].dropped + a.claw[k].pending - owed[k]
      BY <1>8
    <3> QED BY <3>1, <3>2
  <2> HIDE DEF f, g, h
  <2>2. /\ IntsUpTo(f, MaxClaw) /\ IntsUpTo(h, MaxClaw)
        /\ \A k \in 1 .. MaxClaw : g[k] = f[k] + h[k]
    BY <2>1 DEF IntsUpTo, Claws
  <2>3. SumTo(g, MaxClaw) = SumTo(f, MaxClaw) + SumTo(h, MaxClaw)
    BY ONLY <2>2, Sizes, SumAdd
  <2> QED BY <2>3 DEF f, g, h, Charged, PendingClaimTotal
<1>12. PendingClaimTotal(b) = 0
  <2> DEFINE f == [k \in Claws |-> b.claw[k].pending]
  <2>1. \A k \in 1 .. MaxClaw : f[k] = 0
    BY <1>8 DEF Claws
  <2> HIDE DEF f
  <2>2. SumTo(f, MaxClaw) = 0
    BY <2>1, Sizes, SumZero
  <2> QED BY <2>2 DEF f, PendingClaimTotal
<1>13. ASSUME NEW k \in Claws PROVE ClawIsSound(b, k)
  <2>1. ClawIsSound(a, k)
    BY DEF Sound
  <2>2. ASSUME b.claw[k].state = "none" PROVE b.claw[k] = NoClaw /\ b.back.released[k] = 0
    <3>1. a.claw[k] = NoClaw /\ a.back.released[k] = 0
      BY <1>8, <2>1, <2>2 DEF ClawIsSound
    <3>2. a.claw[k].pending = 0
      BY <3>1 DEF NoClaw
    <3>3. owed[k] = 0
      BY <1>3, <3>2
    <3>4. /\ b.claw[k].debt = a.claw[k].debt /\ b.claw[k].dropped = a.claw[k].dropped
          /\ b.claw[k].pending = a.claw[k].pending
      BY <1>8, <1>9, <3>2, <3>3
    <3>5. b.claw[k] = a.claw[k]
      BY <1>1, <1>8, <3>4, SameClaw
    <3> QED BY <1>7, <3>1, <3>5
  <2>3. b.claw[k].want = Total(b.claw[k].took) + Total(b.claw[k].paid) + b.claw[k].pending
                         + b.back.released[k] + b.claw[k].debt + b.claw[k].dropped
    <3>1. a.claw[k].want = Total(a.claw[k].took) + Total(a.claw[k].paid) + a.claw[k].pending
                           + a.back.released[k] + a.claw[k].debt + a.claw[k].dropped
      BY <2>1 DEF ClawIsSound
    <3>2. owed[k] \in Nat
      BY <1>3
    <3>3. a.back.released[k] \in Nat
      BY <1>1, BackTypes
    <3> QED BY <1>7, <1>8, <1>9, <3>1, <3>2, <3>3
  <2>4. ASSUME b.claw[k].dropped > 0
        PROVE  b.claw[k].source = "reversal" /\ b.claw[k].unit \in Annual
    <3>1. CASE a.claw[k].dropped > 0
      BY <1>8, <2>1, <3>1 DEF ClawIsSound
    <3>2. CASE owed[k] < a.claw[k].pending
      BY <1>3, <1>8, <3>2
    <3>3. a.claw[k].dropped > 0 \/ owed[k] < a.claw[k].pending
      BY <1>3, <1>8, <1>9, <2>4
    <3> QED BY <3>1, <3>2, <3>3
  <2>5. ASSUME NEW l \in Lots, b.claw[k].source # "plan_change",
               b.lot[l].unit # b.claw[k].unit
        PROVE  b.claw[k].took[l] = 0 /\ b.claw[k].paid[l] = 0
    BY <1>7, <1>8, <2>1, <2>5 DEF ClawIsSound
  <2> QED BY <2>2, <2>3, <2>4, <2>5 DEF ClawIsSound
<1>14. Repaid(b) = Repaid(a) /\ \A l \in Lots : Clawed(b, l) = Clawed(a, l)
  BY <1>7, <1>8 DEF Repaid, Clawed
<1>15. Sound(b)
  <2>1. b.debt - DebtMade(b) + Repaid(b) + b.forgiven
           = a.debt - DebtMade(a) + Repaid(a) + a.forgiven
    <3>1. DebtMade(a) \in Nat /\ Repaid(a) \in Nat /\ a.forgiven \in Nat
      BY <1>1, AmountTypes, AccountTypes
    <3> QED BY <1>1, <1>4, <1>7, <1>10, <1>14, <3>1
  <2>2. \A l \in Lots : a.lot[l].held <= a.lot[l].remaining
    BY DEF Sound, LotIsSound
  <2>3. ChargesKept(a, b)
    <3>1. ASSUME NEW k \in Claws
          PROVE  /\ b.claw[k].unit = a.claw[k].unit
                 /\ b.claw[k].debt >= a.claw[k].debt /\ b.claw[k].dropped >= a.claw[k].dropped
                 /\ \A l \in Lots : /\ b.claw[k].took[l] >= a.claw[k].took[l]
                                    /\ b.claw[k].paid[l] >= a.claw[k].paid[l]
      <4>1. \A l \in Lots : a.claw[k].took[l] \in Nat /\ a.claw[k].paid[l] \in Nat
        BY <1>1, ClawTypes
      <4>2. owed[k] \in Nat /\ owed[k] <= a.claw[k].pending
        BY <1>3
      <4> QED BY <1>8, <1>9, <4>1, <4>2
    <3>2. \A l \in Lots : a.lot[l].repaid >= a.lot[l].repaid
      BY <1>1, AccountTypes, LotTypes
    <3> QED BY <1>7, <3>1, <3>2 DEF ChargesKept
  <2> QED BY <1>7, <1>13, <1>14, <2>1, <2>2, <2>3, StaysSound
<1>16. Worth(b)
  <2> SUFFICES ASSUME NEW u \in Units, Alone(b, u)
               PROVE  /\ Charged(b) <= UsedOf(b, u)
                      /\ Charged(b) + PendingClaimTotal(b) <= HeldOf(b, u) + UsedOf(b, u)
    BY DEF Worth
  <2>1. Alone(a, u)
    BY <1>8 DEF Alone
  <2>2. Charged(a) + PendingClaimTotal(a) <= HeldOf(a, u) + UsedOf(a, u)
    BY <2>1 DEF Worth
  <2>3. HeldOf(b, u) = HeldOf(a, u) /\ UsedOf(b, u) = UsedOf(a, u)
    BY <1>7 DEF HeldOf, UsedOf, OfUnit
  <2>4. HeldOf(a, u) <= 0
    BY <1>1, HeldOfFits
  <2>5. /\ HeldOf(a, u) \in Nat /\ UsedOf(a, u) \in Int /\ Charged(a) \in Nat
        /\ PendingClaimTotal(a) \in Nat
    BY <1>1, AmountTypes
  <2> QED BY <1>11, <1>12, <2>2, <2>3, <2>4, <2>5
<1> QED BY <1>7, <1>8, <1>12, <1>15, <1>16

-----------------------------------------------------------------------------
(* The invariant *)

AccountIsSound ==
    /\ TypeOK
    /\ Sound(acct) /\ Worth(acct)
    /\ TasksAreSound
    /\ ChargeIsTaken
    /\ NothingOwedIdly

\* What a lot holds and was spent of, as column totals over the tasks.
HeldBy(h, open, l) == SumTo([t \in Tasks |-> IF t \in open THEN h[t][l] ELSE 0], MaxTask)
SpentBy(x, l) == SumTo([t \in Tasks |-> x[t][l]], MaxTask)

LEMMA NoLotHeld ==
    ASSUME NEW a, NEW h, \A l \in Lots : a.lot[l].held = HeldBy(h, {}, l)
    PROVE  HeldMicro(a) = 0
<1>1. ASSUME NEW l \in Lots PROVE HeldBy(h, {}, l) = 0
  <2> DEFINE f == [t \in Tasks |-> IF t \in {} THEN h[t][l] ELSE 0]
  <2>1. \A t \in 1 .. MaxTask : f[t] = 0
    BY DEF Tasks
  <2> HIDE DEF f
  <2>2. SumTo(f, MaxTask) = 0
    BY <2>1, Sizes, SumZero
  <2> QED BY <2>2 DEF f, HeldBy
<1> DEFINE g == [l \in Lots |-> a.lot[l].held]
<1>2. \A l \in 1 .. MaxLot : g[l] = 0
  BY <1>1 DEF Lots
<1> HIDE DEF g
<1>3. SumTo(g, MaxLot) = 0
  BY <1>2, Sizes, SumZero
<1> QED BY <1>3 DEF g, HeldMicro, Total

OnlyOf(t, h, g) == \A u \in Tasks : u # t => g[u] = h[u]

\* A task that opens adds its holds to its lots', one that closes takes them away.
LEMMA HeldMoves ==
    ASSUME NEW h \in [Tasks -> [Lots -> Nat]], NEW g \in [Tasks -> [Lots -> Nat]],
           NEW t \in Tasks, NEW S, NEW R, t \notin S, R = S \cup {t},
           OnlyOf(t, h, g), NEW l \in Lots
    PROVE  HeldBy(g, R, l) = HeldBy(h, S, l) + g[t][l]
<1> DEFINE e == [u \in Tasks |-> IF u \in S THEN h[u][l] ELSE 0]
           f == [u \in Tasks |-> IF u \in R THEN g[u][l] ELSE 0]
<1>1. ASSUME NEW u \in Tasks
      PROVE  e[u] \in Nat /\ f[u] \in Nat /\ (u # t => f[u] = e[u])
  <2>1. h[u][l] \in Nat /\ g[u][l] \in Nat /\ (u # t => g[u][l] = h[u][l])
    BY DEF OnlyOf
  <2> QED BY <2>1
<1>2. e[t] = 0 /\ f[t] = g[t][l]
  OBVIOUS
<1> HIDE DEF e, f
<1>3. /\ IntsUpTo(e, MaxTask) /\ IntsUpTo(f, MaxTask) /\ t \in 1 .. MaxTask
      /\ \A u \in 1 .. MaxTask : u # t => f[u] = e[u]
  <2>1. Tasks = 1 .. MaxTask /\ t \in Tasks
    BY DEF Tasks
  <2>2. \A u \in 1 .. MaxTask : e[u] \in Int /\ f[u] \in Int /\ (u # t => f[u] = e[u])
    BY ONLY <1>1, <2>1
  <2> QED BY ONLY <2>1, <2>2, SMTT(15) DEF IntsUpTo
<1>4. SumTo(e, MaxTask) \in Int
  BY <1>3, Sizes, SumStep
<1>5. SumTo(f, MaxTask) = SumTo(e, MaxTask) + f[t] - e[t]
  BY ONLY <1>3, Sizes, SumChange, ZenonT(30)
<1>6. SumTo(f, MaxTask) = SumTo(e, MaxTask) + g[t][l]
  <2>1. f[t] \in Nat
    BY <1>1
  <2> QED BY <1>2, <1>4, <1>5, <2>1
<1> QED BY <1>6 DEF e, f, HeldBy

LEMMA SpentMoves ==
    ASSUME NEW x \in [Tasks -> [Lots -> Nat]], NEW y \in [Tasks -> [Lots -> Nat]],
           NEW t \in Tasks, OnlyOf(t, x, y), NEW l \in Lots, x[t][l] = 0
    PROVE  SpentBy(y, l) = SpentBy(x, l) + y[t][l]
<1> DEFINE e == [u \in Tasks |-> x[u][l]]
           f == [u \in Tasks |-> y[u][l]]
<1>1. ASSUME NEW u \in Tasks
      PROVE  e[u] \in Nat /\ f[u] \in Nat /\ (u # t => f[u] = e[u])
  BY DEF OnlyOf
<1>2. e[t] = 0 /\ f[t] = y[t][l] /\ y[t][l] \in Nat
  OBVIOUS
<1> HIDE DEF e, f
<1>3. /\ IntsUpTo(e, MaxTask) /\ IntsUpTo(f, MaxTask) /\ t \in 1 .. MaxTask
      /\ \A u \in 1 .. MaxTask : u # t => f[u] = e[u]
  <2>1. Tasks = 1 .. MaxTask /\ t \in Tasks
    BY DEF Tasks
  <2>2. \A u \in 1 .. MaxTask : e[u] \in Int /\ f[u] \in Int /\ (u # t => f[u] = e[u])
    BY ONLY <1>1, <2>1
  <2> QED BY ONLY <2>1, <2>2, SMTT(15) DEF IntsUpTo
<1>4. SumTo(e, MaxTask) \in Int
  BY <1>3, Sizes, SumStep
<1>5. SumTo(f, MaxTask) = SumTo(e, MaxTask) + f[t] - e[t]
  BY ONLY <1>3, Sizes, SumChange, ZenonT(30)
<1>6. SumTo(f, MaxTask) = SumTo(e, MaxTask) + y[t][l]
  BY <1>2, <1>4, <1>5
<1> QED BY <1>6 DEF e, f, SpentBy

\* A running task's holds are in its lots.
LEMMA HeldCovers ==
    ASSUME NEW h \in [Tasks -> [Lots -> Nat]], NEW S, NEW t \in Tasks, t \in S, NEW l \in Lots
    PROVE  h[t][l] <= HeldBy(h, S, l)
<1> DEFINE e == [u \in Tasks |-> IF u \in S THEN h[u][l] ELSE 0]
<1>1. \A u \in 1 .. MaxTask : e[u] \in Nat
  BY DEF Tasks
<1>2. t \in 1 .. MaxTask /\ e[t] = h[t][l]
  BY DEF Tasks
<1> HIDE DEF e
<1>3. e[t] <= SumTo(e, MaxTask)
  BY <1>1, <1>2, Sizes, SumCovers
<1> QED BY <1>2, <1>3 DEF e, HeldBy

\* What a settlement makes of the account, step by step.
Settling(t, charged, held, take, released, p, over, left, c) ==
    /\ t \in Open /\ charged \in 0 .. task[t].reserved
    /\ held = hold[t] /\ take = TakeInSpendOrder(held, charged)
    /\ released = [l \in Lots |-> held[l] - take[l]]
    /\ p = PaidUpTo(acct, released) /\ over = ReleaseHolds(acct, held, take, p)
    /\ left = ClaimsLeftBecomeDebt(over, Open \ {t}) /\ c = SettleDebtFromFree(left)

SettledAs(t, charged, held, take, c) ==
    /\ Sound(c) /\ Worth(c)
    /\ c.debt > 0 => SpendableMicro(c) = 0
    /\ take \in [Lots -> Nat] /\ Total(take) = charged
    /\ \A l \in Lots : /\ take[l] <= held[l]
                       /\ c.lot[l].held = HeldBy(hold, Open \ {t}, l)
                       /\ c.lot[l].spent = acct.lot[l].spent + take[l]
    /\ \A k \in Claws : c.claw[k].state = acct.claw[k].state
    /\ PendingClaimTotal(c) <= PendingClaimTotal(acct)
    /\ Open \ {t} = {} => PendingClaimTotal(c) = 0
    /\ Open \ {t} # {} => \A k \in Claws : c.claw[k].debt = acct.claw[k].debt

LEMMA SettleChain ==
    ASSUME AccountIsSound, NEW t, NEW charged,
           NEW held, NEW take, NEW released, NEW p, NEW over, NEW left, NEW c,
           Settling(t, charged, held, take, released, p, over, left, c)
    PROVE  SettledAs(t, charged, held, take, c)
<1>1. PICK a : a = acct
  OBVIOUS
<1>0. /\ t \in Open /\ charged \in 0 .. task[t].reserved
      /\ c = SettleDebtFromFree(left)
      /\ held = hold[t] /\ take = TakeInSpendOrder(held, charged)
      /\ released = [l \in Lots |-> held[l] - take[l]]
      /\ p = PaidUpTo(a, released) /\ over = ReleaseHolds(a, held, take, p)
      /\ left = ClaimsLeftBecomeDebt(over, Open \ {t})
  BY <1>1 DEF Settling
<1>2. /\ Sound(a) /\ Worth(a) /\ a \in Account
      /\ hold \in [Tasks -> [Lots -> Nat]] /\ t \in Tasks /\ charged \in Nat
      /\ task[t].reserved \in Nat /\ charged <= task[t].reserved
  <2>1. t \in Tasks /\ task \in [Tasks -> Task] /\ hold \in [Tasks -> [Lots -> Nat]]
    BY <1>0 DEF AccountIsSound, TypeOK, Open
  <2>2. task[t].reserved \in Nat
    BY <2>1 DEF Task
  <2> QED BY <1>0, <1>1, <2>1, <2>2 DEF AccountIsSound, Sound
<1>3. held \in [Lots -> Nat] /\ Total(held) = task[t].reserved
  BY <1>0, <1>2 DEF AccountIsSound, TasksAreSound
<1>4. \A l \in Lots : a.lot[l].held = HeldBy(hold, Open \ {t}, l) + held[l] /\ held[l] <= a.lot[l].held
  <2> SUFFICES ASSUME NEW l \in Lots
               PROVE  a.lot[l].held = HeldBy(hold, Open \ {t}, l) + held[l]
                      /\ held[l] <= a.lot[l].held
    OBVIOUS
  <2>1. a.lot[l].held = HeldBy(hold, Open, l)
    BY <1>1 DEF AccountIsSound, TasksAreSound, HeldBy
  <2>2. t \notin Open \ {t} /\ (Open \ {t}) \cup {t} = Open
    BY <1>0
  <2>3. HeldBy(hold, Open, l) = HeldBy(hold, Open \ {t}, l) + hold[t][l]
    <3>1. PICK S, R : S = Open \ {t} /\ R = Open
      OBVIOUS
    <3>2. t \notin S /\ R = S \cup {t} /\ OnlyOf(t, hold, hold)
      BY <2>2, <3>1 DEF OnlyOf
    <3>3. HeldBy(hold, R, l) = HeldBy(hold, S, l) + hold[t][l]
      BY <1>2, <3>2, HeldMoves
    <3> QED BY <3>1, <3>3
  <2>4. hold[t][l] <= HeldBy(hold, Open, l)
    BY <1>0, <1>2, HeldCovers
  <2> QED BY <1>0, <2>1, <2>3, <2>4
<1>5. /\ take \in [Lots -> Nat] /\ Total(take) = charged
      /\ \A l \in Lots : take[l] <= held[l]
  <2>1. take = [l \in Lots |-> Waterfall(charged, held, l)]
    BY <1>0 DEF TakeInSpendOrder
  <2>2. \A l \in 1 .. MaxLot : held[l] \in Nat /\ take[l] = Waterfall(charged, held, l)
    BY <1>3, <2>1 DEF Lots
  <2>3. /\ \A i \in 1 .. MaxLot : take[i] \in Nat /\ take[i] <= held[i]
        /\ SumTo(take, MaxLot) = Least(charged, SumTo(held, MaxLot))
    BY ONLY <1>2, <2>2, Sizes, WaterfallFits
  <2>4. SumTo(take, MaxLot) = charged
    <3>1. PICK R \in Nat : R = task[t].reserved
      BY <1>2
    <3>2. charged <= R /\ SumTo(held, MaxLot) = R
      BY <1>2, <1>3, <3>1 DEF Total
    <3>3. Least(charged, R) = charged
      BY <1>2, <3>2 DEF Least
    <3> QED BY ONLY <2>3, <3>2, <3>3
  <2>5. \A l \in Lots : take[l] \in Nat /\ take[l] <= held[l]
    BY <2>3 DEF Lots
  <2> QED BY <2>1, <2>4, <2>5 DEF Total
<1>6. Releasing(a, over, held, take, p) /\ released \in [Lots -> Nat]
  <2>1. \A l \in Lots : take[l] <= held[l] /\ held[l] <= a.lot[l].held
    BY <1>4, <1>5
  <2> QED BY ONLY <1>0, <1>2, <1>3, <1>5, <2>1, ReleaseParts
<1>7. p = PaidUpTo(a, released) /\ \A l \in Lots : released[l] = held[l] - take[l]
  BY <1>0
<1>8. Sound(over) /\ Worth(over)
  <2>1. Sound(over)
    BY <1>2, <1>6, <1>7, ReleaseIsSound
  <2>2. Worth(over)
    BY <1>2, <1>3, <1>5, <1>6, <1>7, ReleaseWorth
  <2> QED BY <2>1, <2>2
<1>9. /\ PendingClaimTotal(over) <= PendingClaimTotal(a)
      /\ \A l \in Lots : /\ over.lot[l].held = HeldBy(hold, Open \ {t}, l)
                         /\ over.lot[l].spent = a.lot[l].spent + take[l]
      /\ \A k \in Claws : over.claw[k].state = a.claw[k].state
                          /\ over.claw[k].debt = a.claw[k].debt
  <2>1. PendingClaimTotal(over) <= PendingClaimTotal(a)
    BY <1>2, <1>6, <1>7, ReleaseTotals
  <2>2. ASSUME NEW l \in Lots
        PROVE  /\ over.lot[l].held = HeldBy(hold, Open \ {t}, l)
               /\ over.lot[l].spent = a.lot[l].spent + take[l]
    <3>1. /\ over.lot[l].held = a.lot[l].held - held[l]
          /\ over.lot[l].spent = a.lot[l].spent + take[l]
      BY <1>6 DEF Releasing
    <3>2. a.lot[l].held = HeldBy(hold, Open \ {t}, l) + held[l] /\ held[l] \in Nat
      BY <1>3, <1>4
    <3>3. HeldBy(hold, Open \ {t}, l) \in Int
      <4> DEFINE f == [u \in Tasks |-> IF u \in Open \ {t} THEN hold[u][l] ELSE 0]
      <4>1. IntsUpTo(f, MaxTask)
        BY <1>2 DEF IntsUpTo, Tasks
      <4> HIDE DEF f
      <4>2. SumTo(f, MaxTask) \in Int
        BY <4>1, Sizes, SumStep
      <4> QED BY <4>2 DEF f, HeldBy
    <3> QED BY <3>1, <3>2, <3>3
  <2>3. \A k \in Claws : over.claw[k].state = a.claw[k].state
                         /\ over.claw[k].debt = a.claw[k].debt
    BY <1>6 DEF Releasing
  <2> QED BY <2>1, <2>2, <2>3
<1>10. /\ Sound(left) /\ Worth(left) /\ left.lot = over.lot
       /\ PendingClaimTotal(left) <= PendingClaimTotal(a)
       /\ \A k \in Claws : left.claw[k].state = a.claw[k].state
       /\ Open \ {t} = {} => PendingClaimTotal(left) = 0
       /\ Open \ {t} # {} => \A k \in Claws : left.claw[k].debt = a.claw[k].debt
  <2>1. CASE Open \ {t} = {}
    <3>1. left = ClaimsLeftBecomeDebt(over, {})
      BY <1>0, <2>1
    <3>2. HeldMicro(over) = 0
      <4>1. \A l \in Lots : over.lot[l].held = HeldBy(hold, {}, l)
        BY <1>9, <2>1
      <4> QED BY <4>1, NoLotHeld
    <3>3. /\ Sound(left) /\ Worth(left) /\ left.lot = over.lot /\ PendingClaimTotal(left) = 0
          /\ \A k \in Claws : left.claw[k].state = over.claw[k].state
      BY ONLY <1>8, <3>1, <3>2, LastClaims
    <3>4. PendingClaimTotal(a) \in Nat
      BY <1>2, AmountTypes
    <3>5. PendingClaimTotal(left) <= PendingClaimTotal(a)
      BY ONLY <3>3, <3>4
    <3>6. \A k \in Claws : left.claw[k].state = a.claw[k].state
      BY ONLY <1>9, <3>3
    <3> QED BY ONLY <2>1, <3>3, <3>5, <3>6
  <2>2. CASE Open \ {t} # {}
    <3>1. left = over
      BY <1>0, <2>2 DEF ClaimsLeftBecomeDebt
    <3> QED BY ONLY <1>8, <1>9, <2>2, <3>1
  <2> QED BY <2>1, <2>2
<1>11. /\ Sound(c) /\ Worth(c) /\ c.claw = left.claw
       /\ c.debt > 0 => SpendableMicro(c) = 0
       /\ \A l \in Lots : /\ c.lot[l].held = left.lot[l].held
                          /\ c.lot[l].spent = left.lot[l].spent
  <2>1. c = SettleDebtFromFree(left)
    BY <1>0
  <2>2. /\ Sound(c) /\ Worth(c) /\ Keeps(left, c) /\ c.claw = left.claw
        /\ c.debt > 0 => SpendableMicro(c) = 0
    BY ONLY <1>10, <2>1, SettleDebtSteps
  <2>3. \A l \in Lots : c.lot[l].held = left.lot[l].held /\ c.lot[l].spent = left.lot[l].spent
    BY <2>2 DEF Keeps
  <2> QED BY ONLY <2>2, <2>3
<1>12. PendingClaimTotal(c) = PendingClaimTotal(left)
  <2>1. c.claw = left.claw /\ c \in Account /\ left \in Account
    BY <1>10, <1>11 DEF Sound
  <2> QED BY ONLY <2>1, ClawsSame, SMTT(15)
<1>13. \A l \in Lots : /\ c.lot[l].held = HeldBy(hold, Open \ {t}, l)
                       /\ c.lot[l].spent = a.lot[l].spent + take[l]
  BY ONLY <1>9, <1>10, <1>11
<1>14. \A k \in Claws : c.claw[k].state = a.claw[k].state
  BY ONLY <1>10, <1>11
<1>15. Open \ {t} # {} => \A k \in Claws : c.claw[k].debt = a.claw[k].debt
  BY ONLY <1>10, <1>11
<1>16. /\ PendingClaimTotal(c) <= PendingClaimTotal(a)
       /\ Open \ {t} = {} => PendingClaimTotal(c) = 0
  BY ONLY <1>10, <1>12
<1> QED BY ONLY <1>1, <1>5, <1>11, <1>13, <1>14, <1>15, <1>16 DEF SettledAs

-----------------------------------------------------------------------------
(* The steps *)

LastResort == ClaimsStandOnHeldCredit /\ DebtWaitsForTheLastTask /\ ShortfallMeansEmpty

LEMMA SoundAtFirst ==
    ASSUME Init
    PROVE  AccountIsSound
<1>1. PICK a : a = acct
  OBVIOUS
<1>2. NoLot \in Lot
  BY DEF NoLot, Lot
<1>3. NoClaw \in Claw
  BY DEF NoClaw, Claw
<1>4. /\ a.lot = [l \in Lots |-> NoLot] /\ a.claw = [k \in Claws |-> NoClaw]
      /\ a.debt = 0 /\ a.forgiven = 0 /\ a.back = NoneBack /\ a \in Account
  <2>1. PICK q, c, e : q = NoLot /\ c = NoClaw /\ e = NoneBack
    OBVIOUS
  <2>2. a = [lot |-> [l \in Lots |-> q], claw |-> [k \in Claws |-> c],
             debt |-> 0, forgiven |-> 0, back |-> e]
    BY <1>1, <2>1 DEF Init
  <2>3. NoneBack \in Back
    BY DEF NoneBack, Back
  <2>4. a \in Account
    BY <1>2, <1>3, <2>1, <2>2, <2>3 DEF Account
  <2> QED BY <2>1, <2>2, <2>4
<1>0. /\ \A k \in Claws : a.back.released[k] = 0
      /\ \A l \in Lots : a.back.restored[l] = 0 /\ a.back.returned[l] = 0
      /\ \A u \in Units : a.back.excused[u] = 0 /\ a.back.undone[u] = 0
  BY <1>4 DEF NoneBack
<1>5. \A l \in Lots : a.lot[l] = NoLot
  BY <1>4
<1>6. \A k \in Claws : a.claw[k] = NoClaw
  BY <1>4
<1>7. /\ NoLot.held = 0 /\ NoLot.remaining = 0 /\ NoLot.granted = 0 /\ NoLot.expired = 0
      /\ NoLot.spent = 0 /\ NoLot.repaid = 0 /\ NoLot.seq = 0
  BY DEF NoLot
<1>8. /\ NoClaw.state = "none" /\ NoClaw.want = 0 /\ NoClaw.pending = 0 /\ NoClaw.debt = 0
      /\ NoClaw.dropped = 0 /\ NoClaw.took = [l \in Lots |-> 0]
      /\ NoClaw.paid = [l \in Lots |-> 0] /\ NoClaw.unit = None
  BY DEF NoClaw
<1>9. ASSUME NEW f, \A l \in Lots : f[l] = 0 PROVE Total(f) = 0
  <2>1. \A l \in 1 .. MaxLot : f[l] = 0
    BY <1>9 DEF Lots
  <2> QED BY <2>1, Sizes, SumZero DEF Total
<1>10. ASSUME NEW f, \A k \in Claws : f[k] = 0 PROVE SumTo(f, MaxClaw) = 0
  <2>1. \A k \in 1 .. MaxClaw : f[k] = 0
    BY <1>10 DEF Claws
  <2> QED BY <2>1, Sizes, SumZero
<1>11. ASSUME NEW f, \A t \in Tasks : f[t] = 0 PROVE SumTo(f, MaxTask) = 0
  <2>1. \A t \in 1 .. MaxTask : f[t] = 0
    BY <1>11 DEF Tasks
  <2> QED BY <2>1, Sizes, SumZero
<1>12. ASSUME NEW l \in Lots PROVE Clawed(a, l) = 0
  <2> DEFINE f == [k \in Claws |-> a.claw[k].took[l] + a.claw[k].paid[l]]
  <2>1. \A k \in Claws : f[k] = 0
    BY <1>6, <1>8
  <2> HIDE DEF f
  <2>2. SumTo(f, MaxClaw) = 0
    BY <1>10, <2>1
  <2> QED BY <2>2 DEF f, Clawed
<1>13. DebtMade(a) = 0 /\ PendingClaimTotal(a) = 0 /\ Charged(a) = 0
  <2> DEFINE f == [k \in Claws |-> a.claw[k].debt]
             g == [k \in Claws |-> a.claw[k].pending]
             h == [k \in Claws |-> a.claw[k].debt + a.claw[k].dropped]
  <2>1. \A k \in Claws : f[k] = 0 /\ g[k] = 0 /\ h[k] = 0
    BY <1>6, <1>8
  <2> HIDE DEF f, g, h
  <2>2. SumTo(f, MaxClaw) = 0 /\ SumTo(g, MaxClaw) = 0 /\ SumTo(h, MaxClaw) = 0
    BY <1>10, <2>1
  <2> QED BY <2>2 DEF f, g, h, DebtMade, PendingClaimTotal, Charged
<1>14. Repaid(a) = 0
  <2> DEFINE f == [l \in Lots |-> a.lot[l].repaid]
  <2>1. \A l \in Lots : f[l] = 0
    BY <1>5, <1>7
  <2> HIDE DEF f
  <2>2. Total(f) = 0
    BY <1>9, <2>1
  <2> QED BY <2>2 DEF f, Repaid
<1>15. Sound(a)
  <2>1. ASSUME NEW l \in Lots PROVE LotIsSound(a, l)
    <3>1. TakenFrom(a, l) \in Nat /\ PaidFrom(a, l) \in Nat
      BY <1>4, TakenAndPaid
    <3>2. a.lot[l] = NoLot /\ Clawed(a, l) = 0
      BY <1>5, <1>12
    <3>3. a.back.restored[l] = 0 /\ a.back.returned[l] = 0
      BY <1>0
    <3> QED BY ONLY <1>7, <3>1, <3>2, <3>3 DEF LotIsSound
  <2>2. SeqIsSound(a)
    <3>1. \A l \in Lots : ~ Exists(a, l) /\ a.lot[l].seq = 0
      BY <1>5, <1>7 DEF Exists
    <3>2. {m \in Lots : Exists(a, m)} = {}
      BY <3>1
    <3>3. Cardinality({}) = 0
      BY FS_EmptySet
    <3>4. \A l \in Lots : a.lot[l].seq <= Cardinality({m \in Lots : Exists(a, m)})
      BY <3>1, <3>2, <3>3
    <3>5. \A l, m \in Lots : Exists(a, l) /\ a.lot[l].seq = a.lot[m].seq => l = m
      BY <3>1
    <3> QED BY <3>4, <3>5 DEF SeqIsSound
  <2>3. ASSUME NEW k \in Claws PROVE ClawIsSound(a, k)
    <3>1. Total(NoClaw.took) = 0 /\ Total(NoClaw.paid) = 0
      <4>1. PICK f : f = [l \in Lots |-> 0]
        OBVIOUS
      <4>2. Total(f) = 0
        BY <1>9, <4>1
      <4> QED BY <1>8, <4>1, <4>2
    <3>2. \A l \in Lots : NoClaw.took[l] = 0 /\ NoClaw.paid[l] = 0
      BY <1>8
    <3>3. a.claw[k] = NoClaw /\ a.back.released[k] = 0
      BY <1>0, <1>6
    <3> QED BY <1>8, <3>1, <3>2, <3>3 DEF ClawIsSound
  <2>4. ASSUME NEW u \in Units PROVE ChargedBeyond(a, u) >= 0
    <3> DEFINE f == [k \in Claws |->
                        IF a.claw[k].unit = u
                        THEN a.claw[k].debt + a.claw[k].dropped
                             + Total([l \in Lots |-> IF l \in OfUnit(a, u) THEN 0
                                                     ELSE a.claw[k].paid[l]])
                        ELSE 0]
    <3>1. \A k \in Claws : f[k] = 0
      <4>1. u # None
        BY ConstantsAssumption
      <4> QED BY <1>6, <1>8, <4>1
    <3>2. BilledOf(a, u) = SumTo(f, MaxClaw)
      BY DEF BilledOf
    <3> HIDE DEF f
    <3>3. SumTo(f, MaxClaw) = 0
      BY <1>10, <3>1
    <3>4. a.back.excused[u] = 0 /\ a.back.undone[u] = 0
      BY <1>0
    <3> QED BY <3>2, <3>3, <3>4 DEF ChargedBeyond
  <2> QED BY <1>4, <1>13, <1>14, <2>1, <2>2, <2>3, <2>4 DEF Sound
<1>16. Worth(a)
  <2>2. ASSUME NEW u \in Units
        PROVE  /\ Charged(a) <= UsedOf(a, u)
               /\ Charged(a) + PendingClaimTotal(a) <= HeldOf(a, u) + UsedOf(a, u)
    <3>1. HeldOf(a, u) \in Nat
      BY <1>4, AmountTypes
    <3>2. UsedOf(a, u) = 0
      <4> DEFINE f == [l \in Lots |-> IF l \in OfUnit(a, u)
                                      THEN a.lot[l].spent + a.lot[l].repaid - a.back.returned[l]
                                      ELSE 0]
      <4>1. \A l \in Lots : f[l] = 0
        <5>1. \A l \in Lots : /\ a.lot[l].spent = 0 /\ a.lot[l].repaid = 0
                              /\ a.back.returned[l] = 0
          BY <1>0, <1>5, <1>7
        <5> QED BY <5>1
      <4> HIDE DEF f
      <4>2. Total(f) = 0
        BY <1>9, <4>1
      <4>3. a.back.excused[u] = 0 /\ a.back.undone[u] = 0
        BY <1>0
      <4> QED BY <4>2, <4>3 DEF f, UsedOf
    <3> QED BY <1>13, <3>1, <3>2
  <2> QED BY <2>2 DEF Worth
<1>17. /\ task \in [Tasks -> Task] /\ hold \in [Tasks -> [Lots -> Nat]]
       /\ taken \in [Tasks -> [Lots -> Nat]] /\ now \in Nat
       /\ \A t \in Tasks : task[t].state = "none" /\ \A l \in Lots : taken[t][l] = 0
  BY DEF Init, Task
<1>18. TasksAreSound /\ ChargeIsTaken
  <2>1. Open = {}
    BY <1>17 DEF Open
  <2>2. ASSUME NEW l \in Lots
        PROVE  /\ SumTo([t \in Tasks |-> IF t \in Open THEN hold[t][l] ELSE 0], MaxTask) = 0
               /\ SumTo([t \in Tasks |-> taken[t][l]], MaxTask) = 0
    <3> DEFINE f == [t \in Tasks |-> IF t \in Open THEN hold[t][l] ELSE 0]
               g == [t \in Tasks |-> taken[t][l]]
    <3>1. \A t \in Tasks : f[t] = 0 /\ g[t] = 0
      BY <1>17, <2>1
    <3> HIDE DEF f, g
    <3>2. SumTo(f, MaxTask) = 0 /\ SumTo(g, MaxTask) = 0
      BY <1>11, <3>1
    <3> QED BY <3>2 DEF f, g
  <2>3. \A l \in Lots : acct.lot[l].held = 0 /\ acct.lot[l].spent = 0
    BY <1>1, <1>5, <1>7
  <2>4. TasksAreSound
    BY <1>17, <2>1, <2>2, <2>3 DEF TasksAreSound
  <2> QED BY <1>17, <2>4 DEF ChargeIsTaken
<1>19. NothingOwedIdly
  BY <1>1, <1>4, <1>13 DEF NothingOwedIdly, NoDebtBesideCredit, ClaimsHaveATask
<1> QED BY <1>1, <1>4, <1>15, <1>16, <1>17, <1>18, <1>19 DEF AccountIsSound, TypeOK

\* A transaction that leaves the tasks alone.
LEMMA MovesStep ==
    ASSUME AccountIsSound, Moves(acct, acct'), UNCHANGED <<task, hold, taken, now>>
    PROVE  AccountIsSound' /\ LastResort
<1>1. PICK a, d : a = acct /\ d = acct'
  OBVIOUS
<1>2. /\ Sound(a) /\ Sound(d) /\ Worth(d) /\ Keeps(a, d)
      /\ d.debt > 0 => SpendableMicro(d) = 0
      /\ a \in Account /\ d \in Account
  BY <1>1 DEF Moves, AccountIsSound, Sound
<1>3. /\ \A l \in Lots : d.lot[l].held = a.lot[l].held /\ d.lot[l].spent = a.lot[l].spent
      /\ \A k \in Claws : a.claw[k].state = "applied" => d.claw[k].debt = a.claw[k].debt
      /\ PendingClaimTotal(d) > PendingClaimTotal(a) => PendingClaimTotal(d) <= HeldMicro(d)
  BY <1>2 DEF Keeps
<1>4. Open' = Open
  BY DEF Open
<1>5. TypeOK'
  BY <1>1, <1>2 DEF AccountIsSound, TypeOK
<1>6. TasksAreSound'
  BY <1>1, <1>3, <1>4 DEF AccountIsSound, TasksAreSound
<1>7. ChargeIsTaken'
  BY DEF AccountIsSound, ChargeIsTaken
<1>8. NothingOwedIdly'
  <2>1. NoDebtBesideCredit'
    <3>1. d.debt > 0 => SpendableMicro(d) = 0
      BY <1>2
    <3> QED BY <1>1, <3>1 DEF NoDebtBesideCredit, SpendableMicro, Spendable, Done, Free
  <2>2. ASSUME Open = {} PROVE PendingClaimTotal(d) = 0
    <3>1. PendingClaimTotal(a) = 0
      BY <1>1, <2>2 DEF AccountIsSound, NothingOwedIdly, ClaimsHaveATask
    <3>2. HeldMicro(d) = 0
      <4>1. \A l \in Lots : a.lot[l].held = HeldBy(hold, Open, l)
        BY <1>1 DEF AccountIsSound, TasksAreSound, HeldBy
      <4>2. \A l \in Lots : d.lot[l].held = HeldBy(hold, {}, l)
        BY ONLY <1>3, <2>2, <4>1
      <4> QED BY <4>2, NoLotHeld
    <3>3. PendingClaimTotal(d) \in Nat
      BY <1>2, AmountTypes
    <3> QED BY <1>3, <3>1, <3>2, <3>3
  <2>3. ClaimsHaveATask'
    BY <1>1, <1>4, <2>2 DEF ClaimsHaveATask
  <2> QED BY <2>1, <2>3 DEF NothingOwedIdly
<1>9. LastResort
  <2>1. ClaimsStandOnHeldCredit
    BY <1>1, <1>3 DEF ClaimsStandOnHeldCredit
  <2>2. DebtWaitsForTheLastTask
    <3> SUFFICES ASSUME NEW k \in Claws, a.claw[k].state = "applied",
                        d.claw[k].debt > a.claw[k].debt
                 PROVE  FALSE
      BY <1>1 DEF DebtWaitsForTheLastTask
    <3>1. d.claw[k].debt = a.claw[k].debt /\ a.claw[k].debt \in Nat
      BY <1>2, <1>3, AccountTypes, ClawTypes
    <3> QED BY <3>1
  <2>3. ShortfallMeansEmpty
    <3>1. PICK b : /\ Sound(b) /\ b.claw = a.claw /\ Lowers(b, d)
                   /\ \A l \in Lots : GivenInto(b, l) >= GivenInto(a, l)
      BY <1>1 DEF Moves
    <3>2. ASSUME NEW k \in Claws, a.claw[k].state = "none",
                 d.claw[k].pending + d.claw[k].debt > 0,
                 NEW l \in OfUnit(d, d.claw[k].unit)
          PROVE  Free(d, l) <= GivenInto(d, l) - GivenInto(a, l)
      <4>1. l \in Lots
        BY DEF OfUnit
      <4>2. Free(d, l) <= GivenInto(d, l) - GivenInto(b, l)
        BY <3>1, <3>2 DEF Lowers
      <4>3. GivenInto(b, l) >= GivenInto(a, l)
        BY <3>1, <4>1
      <4>4. /\ Free(d, l) \in Nat /\ GivenInto(d, l) \in Nat
            /\ GivenInto(b, l) \in Nat /\ GivenInto(a, l) \in Nat
        BY <1>2, <3>1, <4>1, OwnTypes
      <4> QED BY ONLY <4>2, <4>3, <4>4
    <3> QED BY <1>1, <3>2 DEF ShortfallMeansEmpty, OfUnit, Free, GivenInto
  <2> QED BY <2>1, <2>2, <2>3 DEF LastResort
<1> QED BY <1>1, <1>2, <1>5, <1>6, <1>7, <1>8, <1>9 DEF AccountIsSound

LEMMA RefreshStep ==
    ASSUME AccountIsSound, RefreshCredits
    PROVE  AccountIsSound' /\ LastResort
<1>1. Sound(acct) /\ Worth(acct) /\ now \in Nat
  BY DEF AccountIsSound, TypeOK
<1>2. acct' \in Refreshed(acct) /\ UNCHANGED <<task, hold, taken, now>>
  BY DEF RefreshCredits
<1>3. Moves(acct, acct')
  BY <1>1, <1>2, RefreshSteps
<1> QED BY <1>2, <1>3, MovesStep

LEMMA ReverseStep ==
    ASSUME AccountIsSound, NEW u \in Units, Reverse(u)
    PROVE  AccountIsSound' /\ LastResort
<1>1. Sound(acct) /\ Worth(acct) /\ now \in Nat
  BY DEF AccountIsSound, TypeOK
<1>2. PICK a \in LevelReconciled(acct) : \E b \in TakenBack(a, "reversal", u) :
         \E c \in CoverReconciled(b) : acct' = SettleDebtFromFree(c)
  BY DEF Reverse
<1>3. PICK b \in TakenBack(a, "reversal", u) :
         \E c \in CoverReconciled(b) : acct' = SettleDebtFromFree(c)
  BY <1>2
<1>4. PICK c \in CoverReconciled(b) : acct' = SettleDebtFromFree(c)
  BY <1>3
<1>5. Moves(acct, acct')
  BY <1>1, <1>4, ReverseSteps
<1>6. UNCHANGED <<task, hold, taken, now>>
  BY DEF Reverse
<1> QED BY <1>5, <1>6, MovesStep

LEMMA GrantStep ==
    ASSUME AccountIsSound, GrantGoodwill
    PROVE  AccountIsSound' /\ LastResort
<1>1. Sound(acct) /\ Worth(acct) /\ now \in Nat
  BY DEF AccountIsSound, TypeOK
<1>2. PICK b \in Granted(acct, None) : acct' = SettleDebtFromFree(b)
  BY DEF GrantGoodwill
<1>3. Moves(acct, acct')
  BY <1>1, <1>2, GoodwillSteps
<1>4. UNCHANGED <<task, hold, taken, now>>
  BY DEF GrantGoodwill
<1> QED BY <1>3, <1>4, MovesStep

\* A step that leaves the clawbacks alone claims nothing and owes nothing.
LEMMA ClawlessStep ==
    ASSUME Sound(acct), acct'.claw = acct.claw
    PROVE  LastResort
<1>1. PICK a, d : a = acct /\ d = acct'
  OBVIOUS
<1>2. /\ PendingClaimTotal(d) = PendingClaimTotal(a) /\ PendingClaimTotal(a) \in Nat
      /\ \A k \in Claws : a.claw[k].debt \in Nat
  BY <1>1, ClawsSame, AmountTypes, AccountTypes, ClawTypes DEF Sound
<1>3. ClaimsStandOnHeldCredit
  BY <1>1, <1>2 DEF ClaimsStandOnHeldCredit
<1>4. DebtWaitsForTheLastTask
  BY <1>1, <1>2 DEF DebtWaitsForTheLastTask
<1>5. ASSUME NEW k \in Claws, a.claw[k].state = "none", d.claw[k].pending + d.claw[k].debt > 0
      PROVE  FALSE
  <2>1. d.claw[k] = NoClaw
    BY <1>1, <1>5 DEF Sound, ClawIsSound
  <2> QED BY <1>5, <2>1 DEF NoClaw
<1>6. ShortfallMeansEmpty
  BY <1>1, <1>5 DEF ShortfallMeansEmpty
<1> QED BY <1>3, <1>4, <1>6 DEF LastResort

LEMMA ForgiveStep ==
    ASSUME AccountIsSound, ForgiveDebt
    PROVE  AccountIsSound' /\ LastResort
<1>1. PICK a, d : a = acct /\ d = acct'
  OBVIOUS
<1>2. Sound(a) /\ Worth(a) /\ d = Forgiven(a)
  BY <1>1 DEF AccountIsSound, ForgiveDebt, Forgiven
<1>3. /\ Sound(d) /\ Worth(d) /\ d.lot = a.lot /\ d.claw = a.claw /\ d.debt = 0
      /\ d \in Account
  BY <1>2, ForgiveSteps DEF Sound
<1>4. UNCHANGED <<task, hold, taken, now>> /\ Open' = Open
  BY DEF ForgiveDebt, Open
<1>5. TypeOK' /\ TasksAreSound' /\ ChargeIsTaken'
  BY <1>1, <1>3, <1>4 DEF AccountIsSound, TypeOK, TasksAreSound, ChargeIsTaken
<1>6. NothingOwedIdly'
  <2>1. PendingClaimTotal(d) = PendingClaimTotal(a)
    BY <1>2, <1>3, ClawsSame DEF Sound
  <2> QED BY <1>1, <1>3, <1>4, <2>1
          DEF AccountIsSound, NothingOwedIdly, NoDebtBesideCredit, ClaimsHaveATask
<1>7. LastResort
  BY <1>1, <1>2, <1>3, ClawlessStep
<1> QED BY <1>1, <1>3, <1>5, <1>6, <1>7 DEF AccountIsSound

LEMMA AdvanceStep ==
    ASSUME AccountIsSound, Advance
    PROVE  AccountIsSound' /\ LastResort
<1>1. PICK a : a = acct
  OBVIOUS
<1>2. Sound(a) /\ Worth(a) /\ acct' = a /\ now \in Nat /\ now' = now + 1
  BY <1>1 DEF AccountIsSound, TypeOK, Advance
<1>3. UNCHANGED <<acct, task, hold, taken>> /\ Open' = Open
  BY DEF Advance, Open
<1>4. TypeOK' /\ TasksAreSound' /\ ChargeIsTaken'
  BY <1>2, <1>3 DEF AccountIsSound, TypeOK, TasksAreSound, ChargeIsTaken
<1>5. ASSUME acct.debt > 0 PROVE SpendableMicro(acct)' = 0
  <2> DEFINE f == Spendable(a)
             g == [l \in Lots |-> IF a.lot[l].ends <= now + 1 THEN 0 ELSE Free(a, l)]
  <2>1. SumTo(f, MaxLot) = 0
    BY <1>1, <1>5 DEF AccountIsSound, NothingOwedIdly, NoDebtBesideCredit, SpendableMicro, Total
  <2>2. \A l \in 1 .. MaxLot : f[l] \in Nat
    BY <1>2, FreeTypes DEF Lots
  <2>3. ASSUME NEW l \in 1 .. MaxLot PROVE g[l] = 0
    <3>1. f[l] <= 0
      <4> HIDE DEF f
      <4> QED BY <2>1, <2>2, Sizes, SumCovers
    <3>2. l \in Lots /\ a.lot[l].ends \in Nat
      <4>1. l \in Lots
        BY DEF Lots
      <4> QED BY <1>2, <4>1, AccountTypes, LotTypes DEF Sound
    <3>3. f[l] = IF a.lot[l].ends <= now THEN 0 ELSE Free(a, l)
      BY <3>2 DEF Spendable, Done
    <3>4. f[l] = 0
      BY <2>2, <3>1
    <3> QED BY <1>2, <3>2, <3>3, <3>4
  <2>4. SpendableMicro(acct)' = SumTo(g, MaxLot)
    BY <1>1, <1>2 DEF SpendableMicro, Spendable, Done, Free, Total
  <2> HIDE DEF g
  <2>5. SumTo(g, MaxLot) = 0
    BY <2>3, Sizes, SumZero
  <2> QED BY <2>4, <2>5
<1>6. NothingOwedIdly'
  BY <1>3, <1>5 DEF AccountIsSound, NothingOwedIdly, NoDebtBesideCredit, ClaimsHaveATask
<1>7. LastResort
  BY <1>1, <1>2, ClawlessStep
<1> QED BY <1>1, <1>2, <1>4, <1>6, <1>7 DEF AccountIsSound

LEMMA ReserveStep ==
    ASSUME AccountIsSound, NEW t \in Tasks, Reserve(t)
    PROVE  AccountIsSound' /\ LastResort
<1>1. PICK a0, d : a0 = acct /\ d = acct'
  OBVIOUS
<1>2. PICK a \in {acct} \cup Refreshed(acct) :
         LET reserved == Least(MaxReserve, SpendableMicro(a))
             held == [l \in Lots |-> Waterfall(reserved, Spendable(a), l)]
         IN  /\ MovesOf(a) < MaxMoves
             /\ a.debt = 0
             /\ SpendableMicro(a) >= MinStart
             /\ task' = [task EXCEPT ![t] = [@ EXCEPT !.state = "open", !.reserved = reserved]]
             /\ hold' = [hold EXCEPT ![t] = held]
             /\ acct' = [a EXCEPT !.lot = [l \in Lots |->
                                              [a.lot[l] EXCEPT !.held = @ + held[l]]]]
  BY DEF Reserve
<1>3. PICK reserved, held :
         /\ reserved = Least(MaxReserve, SpendableMicro(a))
         /\ held = [l \in Lots |-> Waterfall(reserved, Spendable(a), l)]
  OBVIOUS
<1>4. /\ a.debt = 0
      /\ task' = [task EXCEPT ![t] = [@ EXCEPT !.state = "open", !.reserved = reserved]]
      /\ hold' = [hold EXCEPT ![t] = held]
      /\ d = Holding(a, held)
  BY <1>1, <1>2, <1>3 DEF Holding
<1>5. /\ Sound(a0) /\ Worth(a0) /\ now \in Nat /\ task \in [Tasks -> Task]
      /\ hold \in [Tasks -> [Lots -> Nat]] /\ taken \in [Tasks -> [Lots -> Nat]]
      /\ UNCHANGED <<taken, now>> /\ task[t].state = "none"
  BY <1>1 DEF AccountIsSound, TypeOK, Reserve
<1>6. /\ Sound(a) /\ Worth(a) /\ Keeps(a0, a)
      /\ \E b : /\ Sound(b) /\ b.claw = a0.claw /\ Lowers(b, a)
               /\ \A l \in Lots : GivenInto(b, l) >= GivenInto(a0, l)
  <2>1. CASE a = a0
    <3>1. Up(a0, a0) /\ Down(a0, a0)
      BY <1>5, StandStill
    <3> QED BY <2>1, <1>5, <3>1 DEF Up, Down
  <2>2. CASE a \in Refreshed(a0)
    <3>1. Moves(a0, a)
      BY <1>5, <2>2, RefreshSteps
    <3> QED BY <3>1 DEF Moves
  <2> QED BY <1>1, <1>2, <2>1, <2>2
<1>7. /\ Sound(d) /\ Worth(d) /\ d.claw = a.claw /\ d.debt = 0
      /\ reserved \in Nat /\ held \in [Lots -> Nat] /\ Total(held) = reserved
      /\ \A l \in Lots :
            /\ d.lot[l].unit = a.lot[l].unit /\ d.lot[l].spent = a.lot[l].spent
            /\ d.lot[l].held = a.lot[l].held + held[l] /\ Free(d, l) <= Free(a, l)
            /\ GivenInto(d, l) = GivenInto(a, l)
  BY ONLY <1>3, <1>4, <1>6, ReserveSteps
<1>8. /\ \A l \in Lots : a.lot[l].held = a0.lot[l].held /\ a.lot[l].spent = a0.lot[l].spent
      /\ \A k \in Claws : a0.claw[k].state = "applied" => a.claw[k].debt = a0.claw[k].debt
      /\ PendingClaimTotal(a) > PendingClaimTotal(a0) => PendingClaimTotal(a) <= HeldMicro(a)
  BY <1>6 DEF Keeps
<1>9. /\ task' \in [Tasks -> Task]
      /\ task'[t].state = "open" /\ task'[t].reserved = reserved
      /\ \A u \in Tasks : u # t => task'[u] = task[u]
  <2>1. PICK q \in Task : q = task[t]
    BY <1>5
  <2>2. PICK r : r = [q EXCEPT !.state = "open", !.reserved = reserved]
    OBVIOUS
  <2>3. r \in Task /\ r.state = "open" /\ r.reserved = reserved
    BY <1>7, <2>2 DEF Task
  <2>4. task' = [task EXCEPT ![t] = r]
    BY <1>4, <2>1, <2>2
  <2> QED BY ONLY <1>5, <2>3, <2>4
<1>10. /\ hold' \in [Tasks -> [Lots -> Nat]] /\ hold'[t] = held
       /\ \A u \in Tasks : u # t => hold'[u] = hold[u]
  BY ONLY <1>4, <1>5, <1>7
<1>11. t \notin Open /\ Open' = Open \cup {t}
  BY ONLY <1>5, <1>9 DEF Open
<1>12. TypeOK'
  BY <1>1, <1>5, <1>7, <1>9, <1>10 DEF TypeOK, Sound
<1>13. ASSUME NEW l \in Lots
       PROVE  /\ d.lot[l].held = HeldBy(hold', Open', l)
              /\ d.lot[l].spent = SpentBy(taken, l)
  <2>1. a0.lot[l].held = HeldBy(hold, Open, l) /\ a0.lot[l].spent = SpentBy(taken, l)
    BY <1>1 DEF AccountIsSound, TasksAreSound, HeldBy, SpentBy
  <2>2. PICK S, R, h, g : S = Open /\ R = S \cup {t} /\ h = hold /\ g = hold'
    OBVIOUS
  <2>3. HeldBy(g, R, l) = HeldBy(h, S, l) + g[t][l]
    <3>1. /\ h \in [Tasks -> [Lots -> Nat]] /\ g \in [Tasks -> [Lots -> Nat]]
          /\ t \in Tasks /\ t \notin S /\ R = S \cup {t}
          /\ OnlyOf(t, h, g) /\ l \in Lots
      BY <1>5, <1>10, <1>11, <2>2 DEF OnlyOf
    <3> QED BY ONLY <3>1, HeldMoves, SMTT(60) DEF OnlyOf
  <2>4. /\ HeldBy(hold', Open', l) = HeldBy(hold, Open, l) + held[l]
        /\ d.lot[l].held = a0.lot[l].held + held[l] /\ d.lot[l].spent = a0.lot[l].spent
    BY <1>7, <1>8, <1>10, <1>11, <2>2, <2>3
  <2> QED BY ONLY <2>1, <2>4
<1>14. TasksAreSound'
  <2>1. \A u \in Open' : Total(hold'[u]) = task'[u].reserved
    <3> SUFFICES ASSUME NEW u \in Open' PROVE Total(hold'[u]) = task'[u].reserved
      OBVIOUS
    <3>1. CASE u = t
      BY <1>7, <1>9, <1>10, <3>1
    <3>2. CASE u # t
      <4>1. u \in Open /\ u \in Tasks
        BY <1>11, <3>2 DEF Open
      <4>2. Total(hold[u]) = task[u].reserved
        BY <4>1 DEF AccountIsSound, TasksAreSound
      <4> QED BY <1>9, <1>10, <3>2, <4>1, <4>2
    <3> QED BY <3>1, <3>2
  <2>2. \A u \in Tasks : task'[u].state # "settled" => \A l \in Lots : taken[u][l] = 0
    <3>1. \A u \in Tasks : task[u].state # "settled" => \A l \in Lots : taken[u][l] = 0
      BY DEF AccountIsSound, TasksAreSound
    <3>2. \A l \in Lots : taken[t][l] = 0
      BY <1>5, <3>1
    <3> QED BY <1>9, <3>1, <3>2
  <2>3. \A l \in Lots :
           /\ d.lot[l].held = SumTo([u \in Tasks |-> IF u \in Open' THEN hold'[u][l] ELSE 0], MaxTask)
           /\ d.lot[l].spent = SumTo([u \in Tasks |-> taken[u][l]], MaxTask)
    BY <1>13 DEF HeldBy, SpentBy
  <2> QED BY <1>1, <1>5, <2>1, <2>2, <2>3 DEF TasksAreSound
<1>15. ChargeIsTaken'
  <2> SUFFICES ASSUME NEW u \in Tasks, task'[u].state = "settled"
               PROVE  /\ Total(taken[u]) = task'[u].charged
                      /\ \A l \in Lots : taken[u][l] <= hold'[u][l]
    BY <1>5 DEF ChargeIsTaken
  <2>1. u # t
    BY <1>9
  <2>2. task'[u] = task[u] /\ hold'[u] = hold[u]
    BY <1>9, <1>10, <2>1
  <2> QED BY <2>2 DEF AccountIsSound, ChargeIsTaken
<1>16. NothingOwedIdly'
  BY <1>1, <1>7, <1>11 DEF NothingOwedIdly, NoDebtBesideCredit, ClaimsHaveATask
<1>17. LastResort
  <2>1. PendingClaimTotal(d) = PendingClaimTotal(a) /\ HeldMicro(a) <= HeldMicro(d)
    <3>1. PendingClaimTotal(d) = PendingClaimTotal(a)
      BY <1>6, <1>7, ClawsSame DEF Sound
    <3> DEFINE f == [l \in Lots |-> a.lot[l].held]
               g == [l \in Lots |-> d.lot[l].held]
    <3>2. ASSUME NEW l \in Lots PROVE f[l] \in Nat /\ g[l] \in Nat /\ f[l] <= g[l]
      <4>1. a.lot[l].held \in Nat /\ held[l] \in Nat /\ d.lot[l].held = a.lot[l].held + held[l]
        BY <1>6, <1>7, AccountTypes, LotTypes DEF Sound
      <4> QED BY ONLY <4>1
    <3> HIDE DEF f, g
    <3>3. /\ IntsUpTo(f, MaxLot) /\ IntsUpTo(g, MaxLot)
          /\ \A l \in 1 .. MaxLot : f[l] <= g[l]
      BY <3>2 DEF IntsUpTo, Lots
    <3>4. SumTo(f, MaxLot) <= SumTo(g, MaxLot)
      BY ONLY <3>3, Sizes, SumMonotone
    <3> QED BY <3>1, <3>4 DEF f, g, HeldMicro, Total
  <2>2. ClaimsStandOnHeldCredit
    <3>1. /\ PendingClaimTotal(a0) \in Nat /\ PendingClaimTotal(a) \in Nat
          /\ HeldMicro(a) \in Nat /\ HeldMicro(d) \in Nat
      BY <1>5, <1>6, <1>7, AmountTypes DEF Sound
    <3>2. PendingClaimTotal(d) > PendingClaimTotal(a0) => PendingClaimTotal(d) <= HeldMicro(d)
      BY ONLY <1>8, <2>1, <3>1
    <3> QED BY <1>1, <3>2 DEF ClaimsStandOnHeldCredit
  <2>3. DebtWaitsForTheLastTask
    <3> SUFFICES ASSUME NEW k \in Claws, a0.claw[k].state = "applied",
                        d.claw[k].debt > a0.claw[k].debt
                 PROVE  FALSE
      BY <1>1 DEF DebtWaitsForTheLastTask
    <3>1. d.claw[k].debt = a0.claw[k].debt /\ a0.claw[k].debt \in Nat
      BY <1>5, <1>7, <1>8, AccountTypes, ClawTypes DEF Sound
    <3> QED BY <3>1
  <2>4. ShortfallMeansEmpty
    <3>1. PICK b : /\ Sound(b) /\ b.claw = a0.claw /\ Lowers(b, a)
                   /\ \A l \in Lots : GivenInto(b, l) >= GivenInto(a0, l)
      BY <1>6
    <3>2. ASSUME NEW k \in Claws, a0.claw[k].state = "none",
                 d.claw[k].pending + d.claw[k].debt > 0,
                 NEW l \in OfUnit(d, d.claw[k].unit)
          PROVE  Free(d, l) <= GivenInto(d, l) - GivenInto(a0, l)
      <4>1. l \in Lots /\ l \in OfUnit(a, a.claw[k].unit)
        BY <1>7, <3>2 DEF OfUnit
      <4>2. Free(a, l) <= GivenInto(a, l) - GivenInto(b, l)
        BY <1>7, <3>1, <3>2, <4>1 DEF Lowers
      <4>3. /\ Free(d, l) <= Free(a, l) /\ GivenInto(d, l) = GivenInto(a, l)
            /\ GivenInto(b, l) >= GivenInto(a0, l)
        BY <1>7, <3>1, <4>1
      <4>4. /\ Free(d, l) \in Nat /\ Free(a, l) \in Nat /\ GivenInto(a, l) \in Nat
            /\ GivenInto(b, l) \in Nat /\ GivenInto(a0, l) \in Nat
        BY <1>5, <1>6, <1>7, <3>1, <4>1, OwnTypes
      <4> QED BY ONLY <4>2, <4>3, <4>4
    <3> QED BY <1>1, <3>2 DEF ShortfallMeansEmpty, OfUnit, Free, GivenInto
  <2> QED BY <2>2, <2>3, <2>4 DEF LastResort
<1> QED BY <1>1, <1>7, <1>12, <1>14, <1>15, <1>16, <1>17 DEF AccountIsSound

LEMMA SettleStep ==
    ASSUME AccountIsSound, NEW t \in Tasks, NEW charged, SettleIn(t, charged)
    PROVE  AccountIsSound' /\ LastResort
<1>1. PICK a, d : a = acct /\ d = acct'
  OBVIOUS
<1>2. PICK held, take, released, p, over, left :
         Settling(t, charged, held, take, released, p, over, left, d)
  BY <1>1 DEF SettleIn, Settling
<1>3. /\ t \in Open /\ charged \in 0 .. task[t].reserved
      /\ taken' = [taken EXCEPT ![t] = take]
      /\ d = SettleDebtFromFree(left)
      /\ task' = [task EXCEPT ![t] = [@ EXCEPT !.state = "settled", !.charged = charged]]
      /\ UNCHANGED <<hold, now>>
  BY <1>1, <1>2 DEF SettleIn, Settling
<1>4. /\ Sound(a) /\ task \in [Tasks -> Task]
      /\ hold \in [Tasks -> [Lots -> Nat]] /\ taken \in [Tasks -> [Lots -> Nat]] /\ now \in Nat
      /\ task[t].state = "open" /\ task[t].reserved \in Nat
  <2>1. /\ Sound(a) /\ task \in [Tasks -> Task]
        /\ hold \in [Tasks -> [Lots -> Nat]] /\ taken \in [Tasks -> [Lots -> Nat]] /\ now \in Nat
        /\ task[t].state = "open"
    BY <1>1, <1>3 DEF AccountIsSound, TypeOK, Open
  <2>2. task[t].reserved \in Nat
    BY <2>1 DEF Task
  <2> QED BY <2>1, <2>2
<1>5. /\ Sound(d) /\ Worth(d)
      /\ d.debt > 0 => SpendableMicro(d) = 0
      /\ take \in [Lots -> Nat] /\ Total(take) = charged
      /\ \A l \in Lots : /\ take[l] <= held[l]
                         /\ d.lot[l].held = HeldBy(hold, Open \ {t}, l)
                         /\ d.lot[l].spent = acct.lot[l].spent + take[l]
      /\ \A k \in Claws : d.claw[k].state = acct.claw[k].state
      /\ PendingClaimTotal(d) <= PendingClaimTotal(acct)
      /\ Open \ {t} = {} => PendingClaimTotal(d) = 0
      /\ Open \ {t} # {} => \A k \in Claws : d.claw[k].debt = acct.claw[k].debt
  <2>1. SettledAs(t, charged, held, take, d)
    BY <1>2, SettleChain
  <2> QED BY <2>1 DEF SettledAs
<1>6. /\ task' \in [Tasks -> Task]
      /\ task'[t].state = "settled" /\ task'[t].charged = charged
      /\ \A u \in Tasks : u # t => task'[u] = task[u]
  <2>1. PICK q \in Task : q = task[t]
    BY <1>4
  <2>2. PICK r : r = [q EXCEPT !.state = "settled", !.charged = charged]
    OBVIOUS
  <2>3. charged \in Nat
    BY <1>3, <1>4
  <2>4. r \in Task /\ r.state = "settled" /\ r.charged = charged
    BY <2>2, <2>3 DEF Task
  <2>5. task' = [task EXCEPT ![t] = r]
    BY <1>3, <2>1, <2>2
  <2> QED BY <1>4, <2>4, <2>5
<1>7. /\ taken' \in [Tasks -> [Lots -> Nat]] /\ taken'[t] = take
      /\ \A u \in Tasks : u # t => taken'[u] = taken[u]
  BY <1>3, <1>4, <1>5
<1>8. Open' = Open \ {t}
  BY <1>6 DEF Open
<1>9. TypeOK'
  BY <1>1, <1>3, <1>4, <1>5, <1>6, <1>7 DEF TypeOK, Sound
<1>10. TasksAreSound'
  <2>1. ASSUME NEW l \in Lots
        PROVE  /\ d.lot[l].held = HeldBy(hold, Open', l)
               /\ d.lot[l].spent = SpentBy(taken', l)
    <3>1. acct.lot[l].spent = SpentBy(taken, l) /\ taken[t][l] = 0
      BY <1>4 DEF AccountIsSound, TasksAreSound, SpentBy
    <3>2. PICK y : y = taken'
      OBVIOUS
    <3>3. /\ y \in [Tasks -> [Lots -> Nat]] /\ OnlyOf(t, taken, y)
          /\ t \in Tasks /\ l \in Lots /\ y[t] = take
      BY <1>7, <3>2 DEF OnlyOf
    <3>4. SpentBy(y, l) = SpentBy(taken, l) + y[t][l]
      BY ONLY <1>4, <3>1, <3>3, SpentMoves
    <3> QED BY <1>5, <1>8, <3>1, <3>2, <3>3, <3>4
  <2>2. \A u \in Open' : Total(hold[u]) = task'[u].reserved
    <3> SUFFICES ASSUME NEW u \in Open' PROVE Total(hold[u]) = task'[u].reserved
      OBVIOUS
    <3>1. u \in Open /\ u # t /\ u \in Tasks
      BY <1>8 DEF Open
    <3>2. Total(hold[u]) = task[u].reserved
      BY <3>1 DEF AccountIsSound, TasksAreSound
    <3> QED BY <1>6, <3>1, <3>2
  <2>3. ASSUME NEW u \in Tasks, task'[u].state # "settled", NEW l \in Lots
        PROVE  taken'[u][l] = 0
    <3>1. u # t
      BY <1>6, <2>3
    <3>2. task[u].state # "settled" /\ taken'[u] = taken[u]
      BY <1>6, <1>7, <2>3, <3>1
    <3> QED BY <3>2 DEF AccountIsSound, TasksAreSound
  <2>4. \A l \in Lots :
           /\ d.lot[l].held = SumTo([u \in Tasks |-> IF u \in Open' THEN hold[u][l] ELSE 0], MaxTask)
           /\ d.lot[l].spent = SumTo([u \in Tasks |-> taken'[u][l]], MaxTask)
    BY <2>1 DEF HeldBy, SpentBy
  <2> QED BY <1>1, <1>3, <2>2, <2>3, <2>4 DEF TasksAreSound
<1>11. ChargeIsTaken'
  <2> SUFFICES ASSUME NEW u \in Tasks, task'[u].state = "settled"
               PROVE  /\ Total(taken'[u]) = task'[u].charged
                      /\ \A l \in Lots : taken'[u][l] <= hold[u][l]
    BY <1>3 DEF ChargeIsTaken
  <2>1. CASE u = t
    BY <1>2, <1>5, <1>6, <1>7, <2>1 DEF Settling
  <2>2. CASE u # t
    <3>1. task'[u] = task[u] /\ taken'[u] = taken[u]
      BY <1>6, <1>7, <2>2
    <3> QED BY <3>1 DEF AccountIsSound, ChargeIsTaken
  <2> QED BY <2>1, <2>2
<1>12. NothingOwedIdly'
  <2>1. NoDebtBesideCredit'
    BY <1>1, <1>3, <1>5 DEF NoDebtBesideCredit, SpendableMicro, Spendable, Done, Free
  <2>2. ClaimsHaveATask'
    BY <1>1, <1>5, <1>8 DEF ClaimsHaveATask
  <2> QED BY <2>1, <2>2 DEF NothingOwedIdly
<1>13. LastResort
  <2>1. ClaimsStandOnHeldCredit
    <3>1. PendingClaimTotal(d) \in Nat /\ PendingClaimTotal(a) \in Nat
      BY <1>4, <1>5, AmountTypes DEF Sound
    <3> QED BY <1>1, <1>5, <3>1 DEF ClaimsStandOnHeldCredit
  <2>2. DebtWaitsForTheLastTask
    <3> SUFFICES ASSUME NEW k \in Claws, d.claw[k].debt > a.claw[k].debt, NEW u \in Tasks
                 PROVE  task'[u].state # "open"
      BY <1>1 DEF DebtWaitsForTheLastTask
    <3>1. a.claw[k].debt \in Nat
      BY <1>4, AccountTypes, ClawTypes DEF Sound
    <3>2. Open' = {}
      BY <1>1, <1>5, <1>8, <3>1
    <3> QED BY <3>2 DEF Open
  <2>3. ShortfallMeansEmpty
    <3>1. ASSUME NEW k \in Claws, a.claw[k].state = "none",
                 d.claw[k].pending + d.claw[k].debt > 0
          PROVE  FALSE
      <4>1. d.claw[k] = NoClaw
        BY <1>1, <1>5, <3>1 DEF Sound, ClawIsSound
      <4> QED BY <3>1, <4>1 DEF NoClaw
    <3> QED BY <1>1, <3>1 DEF ShortfallMeansEmpty
  <2> QED BY <2>1, <2>2, <2>3 DEF LastResort
<1> QED BY <1>1, <1>5, <1>9, <1>10, <1>11, <1>12, <1>13 DEF AccountIsSound

LEMMA NextStep ==
    ASSUME AccountIsSound, Next
    PROVE  AccountIsSound' /\ LastResort
<1>1. CASE RefreshCredits
  BY <1>1, RefreshStep
<1>2. CASE \E u \in Units : Reverse(u)
  BY <1>2, ReverseStep
<1>3. CASE GrantGoodwill
  BY <1>3, GrantStep
<1>4. CASE ForgiveDebt
  BY <1>4, ForgiveStep
<1>5. CASE \E t \in Tasks : Reserve(t)
  BY <1>5, ReserveStep
<1>6. CASE \E t \in Tasks : Settle(t)
  <2>1. PICK t \in Tasks, charged \in 0 .. MaxReserve : SettleIn(t, charged)
    BY <1>6 DEF Settle
  <2> QED BY <2>1, SettleStep
<1>7. CASE Advance
  BY <1>7, AdvanceStep
<1> QED BY <1>1, <1>2, <1>3, <1>4, <1>5, <1>6, <1>7 DEF Next

LEMMA IdleStep ==
    ASSUME AccountIsSound, UNCHANGED vars
    PROVE  AccountIsSound'
<1>1. PICK a : a = acct
  OBVIOUS
<1>2. acct' = a /\ UNCHANGED <<task, hold, taken, now>>
  BY <1>1 DEF vars
<1>3. TypeOK'
  BY <1>1, <1>2 DEF AccountIsSound, TypeOK
<1>4. Open' = Open
  BY <1>2 DEF Open
<1>5. TasksAreSound'
  BY <1>1, <1>2, <1>4 DEF AccountIsSound, TasksAreSound
<1>6. ChargeIsTaken'
  BY <1>2 DEF AccountIsSound, ChargeIsTaken
<1>7. NothingOwedIdly'
  BY <1>1, <1>2, <1>4
     DEF AccountIsSound, NothingOwedIdly, NoDebtBesideCredit, ClaimsHaveATask,
         SpendableMicro, Spendable, Done, Free
<1>8. Sound(acct)' /\ Worth(acct)'
  BY <1>1, <1>2 DEF AccountIsSound
<1> QED BY <1>3, <1>5, <1>6, <1>7, <1>8 DEF AccountIsSound

\* The account is sound in every state.
LEMMA AlwaysSound == Spec => []AccountIsSound
<1>1. Init => AccountIsSound
  BY SoundAtFirst
<1>2. AccountIsSound /\ [Next]_vars => AccountIsSound'
  BY NextStep, IdleStep
<1> QED BY <1>1, <1>2, PTL DEF Spec

-----------------------------------------------------------------------------
(* What it means for the customer *)

LEMMA SoundIsBacked ==
    ASSUME AccountIsSound
    PROVE  HoldsAreBacked
<1>1. \A l \in Lots : acct.lot[l].held <= acct.lot[l].remaining
  BY DEF AccountIsSound, Sound, LotIsSound
<1> QED BY <1>1 DEF AccountIsSound, TasksAreSound, HoldsAreBacked

LEMMA SoundBalances ==
    ASSUME AccountIsSound
    PROVE  BooksBalance
<1>1. LedgerAddsUp
  <2>1. ASSUME NEW l \in Lots
        PROVE  acct.lot[l].granted + acct.back.restored[l] + acct.back.returned[l]
                   = acct.lot[l].remaining + acct.lot[l].expired
                     + SumTo([t \in Tasks |-> taken[t][l]], MaxTask) + acct.lot[l].repaid
                     + SumTo([k \in Claws |-> acct.claw[k].took[l] + acct.claw[k].paid[l]], MaxClaw)
    <3>1. LotIsSound(acct, l)
      BY DEF AccountIsSound, Sound
    <3>2. acct.lot[l].spent = SumTo([t \in Tasks |-> taken[t][l]], MaxTask)
      BY DEF AccountIsSound, TasksAreSound
    <3> QED BY ONLY <3>1, <3>2 DEF LotIsSound, Clawed
  <2>2. acct.debt = SumTo([k \in Claws |-> acct.claw[k].debt], MaxClaw)
                    - Total([l \in Lots |-> acct.lot[l].repaid]) - acct.forgiven
    BY DEF AccountIsSound, Sound, DebtMade, Repaid
  <2> QED BY ONLY <2>1, <2>2 DEF LedgerAddsUp
<1>2. ClawbackIsAccounted
  BY DEF AccountIsSound, Sound, ClawIsSound, ClawbackIsAccounted
<1>3. NothingGivenBackTwice
  BY DEF AccountIsSound, Sound, LotIsSound, NothingGivenBackTwice
<1> QED BY <1>1, <1>2, <1>3 DEF AccountIsSound, BooksBalance

LEMMA SoundKeepsHome ==
    ASSUME AccountIsSound
    PROVE  ReversalsKeepToTheirPayment
<1>1. PICK a : a = acct
  OBVIOUS
<1>2. a \in Account /\ Sound(a) /\ Worth(a)
  BY <1>1 DEF AccountIsSound, Sound
<1>3. ReversalsStayHome
  BY <1>1, <1>2 DEF Sound, ClawIsSound, ReversalsStayHome
<1>4. ReversalsWithinWorth
  <2> SUFFICES ASSUME NEW u \in Units, Alone(a, u) PROVE PositionOf(a, u) >= 0
    BY <1>1 DEF ReversalsWithinWorth, Alone
  <2> DEFINE f == [l \in Lots |-> IF l \in OfUnit(a, u) THEN a.lot[l].held ELSE 0]
             g == [l \in Lots |-> IF l \in OfUnit(a, u) THEN a.lot[l].remaining ELSE 0]
  <2>1. ASSUME NEW l \in Lots PROVE f[l] \in Nat /\ g[l] \in Nat /\ f[l] <= g[l]
    <3>1. a.lot[l].held \in Nat /\ a.lot[l].remaining \in Nat
      BY <1>2, AccountTypes, LotTypes
    <3>2. a.lot[l].held <= a.lot[l].remaining
      BY <1>2 DEF Sound, LotIsSound
    <3> QED BY <3>1, <3>2
  <2>2. PositionOf(a, u) = Total(g) + UsedOf(a, u) - (Charged(a) + PendingClaimTotal(a))
    BY <1>2, PositionAlone
  <2>3. /\ Charged(a) + PendingClaimTotal(a) <= HeldOf(a, u) + UsedOf(a, u)
        /\ HeldOf(a, u) = Total(f)
    BY <1>2 DEF Worth, HeldOf
  <2> HIDE DEF f, g
  <2>4. Total(f) \in Nat /\ Total(g) \in Nat /\ Total(f) <= Total(g)
    <3>1. \A l \in 1 .. MaxLot : f[l] \in Nat /\ g[l] \in Nat /\ f[l] <= g[l]
      BY <2>1 DEF Lots
    <3> QED BY <3>1, Sizes, SumNat, SumMonotone DEF IntsUpTo, Total
  <2>5. Charged(a) \in Nat /\ PendingClaimTotal(a) \in Nat /\ UsedOf(a, u) \in Int
    BY <1>2, AmountTypes
  <2> QED BY ONLY <2>2, <2>3, <2>4, <2>5
<1> QED BY <1>3, <1>4 DEF ReversalsKeepToTheirPayment

\* No transaction takes a lot, a hold, a claim or the debt below zero, whatever
\* the order of grants, clawbacks, reservations and settlements: the CHECKs of
\* the ledger's tables never refuse what the credit service writes.
THEOREM AmountsStayNatural == Spec => []TypeOK
<1>1. AccountIsSound => TypeOK
  BY DEF AccountIsSound
<1> QED BY <1>1, AlwaysSound, PTL

\* Credit a running task holds is there until the task settles: no clawback,
\* expiry, repayment or other task's settlement takes a lot below what
\* reserveCredit had held of it.
THEOREM HoldsAlwaysBacked == Spec => []HoldsAreBacked
<1>1. AccountIsSound => HoldsAreBacked
  BY SoundIsBacked
<1> QED BY <1>1, AlwaysSound, PTL

\* After every transaction of the credit service what a lot was granted or given
\* back is what is left of it and what left it, every clawback is what its lots
\* gave, its claim, its debt and what giveBack released of it, the debt is what
\* clawbacks made of it less what was repaid and forgiven, and nothing is given
\* back that was not taken or charged.  A settled charge came out of the task's
\* own holds.
THEOREM BooksAlwaysBalance == Spec => []BooksBalance
<1>1. AccountIsSound => BooksBalance
  BY SoundBalances
<1> QED BY <1>1, AlwaysSound, PTL

\* settleDebtFromFree and claimsLeftBecomeDebt leave nothing behind: no commit
\* has debt beside credit that could repay it, nor a claim without a running
\* task that might pay it.
THEOREM NothingEverOwedIdly == Spec => []NothingOwedIdly
<1>1. AccountIsSound => NothingOwedIdly
  BY DEF AccountIsSound
<1> QED BY <1>1, AlwaysSound, PTL

\* Reversing a payment takes nothing out of another payment's lots and, while it
\* is the only one taken back, never more than its own credit was worth.
THEOREM ReversalsAlwaysStayHome == Spec => []ReversalsKeepToTheirPayment
<1>1. AccountIsSound => ReversalsKeepToTheirPayment
  BY SoundKeepsHome
<1> QED BY <1>1, AlwaysSound, PTL

\* A clawback takes free credit before it claims any (all but what the same
\* transaction gave back), claims only held credit no other claim stands on, and
\* turns a claim into debt only once no task runs.
THEOREM DebtIsAlwaysLast == Spec => DebtIsTheLastResort
<1>1. AccountIsSound /\ [Next]_vars => [LastResort]_vars
  BY NextStep
<1>2. AccountIsSound /\ [Next]_vars
         => [ClaimsStandOnHeldCredit /\ DebtWaitsForTheLastTask /\ ShortfallMeansEmpty]_vars
  BY <1>1 DEF LastResort
<1> QED BY <1>2, AlwaysSound, PTL DEF Spec, DebtIsTheLastResort
=============================================================================
