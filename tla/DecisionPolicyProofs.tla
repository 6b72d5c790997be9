------------------------- MODULE DecisionPolicyProofs -------------------------
(***************************************************************************)
(* DecisionPolicy, for every validation set, score, label, scan step and   *)
(* candidate setting.  Sorting by score ranks the rows, a policy's buckets *)
(* are sets of best-ranked rows completed by the rows that tie with the    *)
(* last one, and such sets are compared by their sizes.                    *)
(***************************************************************************)
EXTENDS DecisionPolicy, FiniteSetTheorems, WellFoundedInduction, TLAPS

----------------------------------------------------------------------------
(* Numbers *)

(* A non-empty set of naturals has a least element, and a greatest one if   *)
(* it is bounded.                                                           *)
LEMMA LeastNumber ==
  ASSUME NEW S \in SUBSET Nat, S # {}
  PROVE  \E m \in S : \A k \in S : m <= k
<1>1. \E m \in S : \A k \in S : ~(<<k, m>> \in OpToRel(<, Nat))
  BY NatLessThanWellFounded, WFMin
<1>2. PICK m \in S : \A k \in S : ~(<<k, m>> \in OpToRel(<, Nat))
  BY <1>1
<1>3. \A k \in S : ~(k < m)
  BY <1>2 DEF OpToRel
<1> QED BY <1>3

LEMMA GreatestNumber ==
  ASSUME NEW n \in Nat, NEW S \in SUBSET (0..n), S # {}
  PROVE  \E m \in S : \A k \in S : k <= m
<1> DEFINE T == {n - x : x \in S}
<1>1. T \in SUBSET Nat /\ T # {}
  <2>1. \A x \in S : n - x \in Nat /\ n - x \in T
    OBVIOUS
  <2> QED BY <2>1
<1>2. PICK t \in T : \A k \in T : t <= k
  BY <1>1, LeastNumber
<1>3. PICK m \in S : t = n - m
  BY <1>2
<1>4. ASSUME NEW k \in S PROVE k <= m
  <2>1. n - m <= n - k
    BY <1>2, <1>3
  <2> QED BY <2>1
<1> QED BY <1>4

(* Integer division, the ceiling of a fraction of the rows included.        *)
LEMMA DivFacts ==
  ASSUME NEW a \in Nat, NEW b \in Nat \ {0}
  PROVE  a \div b \in Nat /\ b * (a \div b) <= a /\ a < b * (a \div b) + b
  OBVIOUS

LEMMA MulMonotone ==
  ASSUME NEW a \in Nat, NEW x \in Int, NEW y \in Int, x <= y
  PROVE  a * x <= a * y
  OBVIOUS

LEMMA QuotientBound ==
  ASSUME NEW a \in Nat, NEW b \in Nat \ {0}, NEW q \in Int, b * q <= a
  PROVE  q <= a \div b
<1> DEFINE r == a \div b
<1>1. r \in Nat /\ a < b * r + b
  BY DivFacts
<1> HIDE DEF r
<1>2. ASSUME r + 1 <= q PROVE FALSE
  <2>1. b * (r + 1) <= b * q
    BY <1>1, <1>2, MulMonotone
  <2> QED BY <1>1, <2>1
<1> QED BY <1>1, <1>2 DEF r

LEMMA DivMonotone ==
  ASSUME NEW a \in Nat, NEW b \in Nat \ {0}, NEW c \in Nat, a <= c
  PROVE  a \div b <= c \div b
<1>1. a \div b \in Nat /\ b * (a \div b) <= a
  BY DivFacts
<1> QED BY <1>1, QuotientBound

LEMMA WholeQuotient ==
  ASSUME NEW a \in Nat, NEW b \in Nat \ {0}, a % b = 0
  PROVE  a = b * (a \div b)
  OBVIOUS

LEMMA MultipleOf ==
  ASSUME NEW k \in Nat, NEW b \in Nat \ {0}
  PROVE  (k * b) % b = 0
  OBVIOUS

(* The exact number of rows a fraction selects, at least one and at most    *)
(* all, more of a larger fraction.                                          *)
Exact(f) == Max({1, (N * f + Units - 1) \div Units})

LEMMA ExactFacts ==
  ASSUME NEW f \in 1..Units
  PROVE  /\ Exact(f) \in 1..N /\ \A g \in 1..f : Exact(g) <= Exact(f)
         /\ Exact(f) = (N * f + Units - 1) \div Units
<1>1. N \in Nat \ {0} /\ Units \in Nat \ {0}
  BY PolicyAssumption
<1> DEFINE q(g) == (N * g + Units - 1) \div Units
<1>2. ASSUME NEW g \in 1..Units
      PROVE  /\ N * g + Units - 1 \in Nat /\ Units <= N * g + Units - 1
             /\ N * g <= N * Units
  <2>1. N * 1 <= N * g /\ N * g <= N * Units /\ N * g \in Nat
    BY <1>1, MulMonotone
  <2> QED BY <1>1, <2>1
<1>3. ASSUME NEW g \in 1..Units PROVE q(g) \in 1..N
  <2> DEFINE a == N * g + Units - 1
  <2>1. q(g) \in Nat /\ Units * q(g) <= a
    BY <1>1, <1>2, DivFacts
  <2>2. Units * 1 <= a
    BY <1>1, <1>2
  <2>3. 1 <= q(g)
    BY <1>1, <1>2, <2>2, QuotientBound
  <2>4. ASSUME N + 1 <= q(g) PROVE FALSE
    <3>1. Units * (N + 1) <= Units * q(g)
      BY <1>1, <2>1, <2>4, MulMonotone
    <3>2. Units * (N + 1) = N * Units + Units
      BY <1>1
    <3>3. Units * q(g) \in Int /\ N * Units \in Int /\ a \in Int /\ a <= N * Units + Units - 1
      BY <1>1, <1>2, <2>1
    <3> HIDE DEF q, a
    <3> QED BY <1>1, <2>1, <3>1, <3>2, <3>3
  <2> QED BY <1>1, <2>1, <2>3, <2>4
<1>4. ASSUME NEW g \in 1..Units PROVE Exact(g) = q(g)
  <2> DEFINE x == q(g)
  <2>1. x \in Nat /\ 1 <= x
    BY <1>3
  <2>2. Exact(g) = Max({1, x})
    BY DEF Exact
  <2> HIDE DEF x, q
  <2>3. x \in {1, x} /\ \A y \in {1, x} : x >= y
    BY <2>1
  <2>4. ASSUME NEW z \in {1, x}, \A y \in {1, x} : z >= y PROVE z = x
    BY <2>1, <2>4
  <2>5. Max({1, x}) = x
    BY <2>3, <2>4 DEF Max
  <2> QED BY <2>2, <2>5 DEF x
<1>5. ASSUME NEW g \in 1..f PROVE q(g) <= q(f)
  <2>1. g \in 1..Units /\ N * g <= N * f
    BY <1>1, MulMonotone
  <2>2. N * g + Units - 1 <= N * f + Units - 1
    BY <1>1, <2>1
  <2> QED BY <1>1, <1>2, <2>1, <2>2, DivMonotone
<1>7. Exact(f) = (N * f + Units - 1) \div Units
  BY <1>4
<1> HIDE DEF q
<1>6. \A g \in 1..f : g \in 1..Units
  BY <1>1
<1> QED BY <1>3, <1>4, <1>5, <1>6, <1>7

(* One row more than a whole number of rows is still no more than all rows, *)
(* or than a larger fraction selects.                                       *)
LEMMA OneMore ==
  ASSUME NEW f \in WholeRows, f # Units
  PROVE  /\ Exact(f) + 1 \in 1..N
         /\ \A g \in 1..Units : f < g => Exact(f) + 1 <= Exact(g)
<1>1. N \in Nat \ {0} /\ Units \in Nat \ {0} /\ f \in 1..Units /\ f < Units
  BY PolicyAssumption DEF WholeRows
<1> DEFINE m == (N * f) \div Units
           q(g) == (N * g + Units - 1) \div Units
<1>2. N * f \in Nat /\ N * f = Units * m /\ m \in Nat
  <2>1. N * f \in Nat /\ (N * f) % Units = 0
    BY <1>1 DEF WholeRows
  <2> QED BY <1>1, <2>1, WholeQuotient, DivFacts
<1>3. ASSUME NEW g \in 1..Units, f < g PROVE m + 1 <= q(g)
  <2>1. N * (f + 1) <= N * g /\ N * (f + 1) = N * f + N /\ N * g \in Nat
    BY <1>1, <1>3, MulMonotone
  <2>2. Units * (m + 1) = Units * m + Units
    BY <1>1, <1>2
  <2> DEFINE x == N * f
             y == N * g
             z == Units * m
  <2>3. x \in Nat /\ y \in Nat /\ x = z /\ x + N <= y /\ Units * (m + 1) = z + Units
    BY <1>2, <2>1, <2>2
  <2> HIDE DEF x, y, z, m
  <2>4. Units * (m + 1) <= y + Units - 1 /\ y + Units - 1 \in Nat
    BY <1>1, <2>3
  <2> QED BY <1>1, <1>2, <2>4, QuotientBound DEF y
<1>4. Exact(f) = m
  <2>1. Exact(f) = q(f) /\ Exact(f) \in 1..N
    BY <1>1, ExactFacts
  <2> DEFINE a == N * f + Units - 1
  <2>2. a \in Nat /\ a = Units * m + Units - 1
    BY <1>1, <1>2
  <2>3. Units * q(f) <= a
    BY <1>1, <2>2, DivFacts
  <2>4. m <= q(f)
    <3>1. Units * m <= a
      BY <1>1, <1>2, <2>2
    <3> QED BY <1>1, <1>2, <2>2, <3>1, QuotientBound
  <2>5. ASSUME m + 1 <= q(f) PROVE FALSE
    <3>1. Units * (m + 1) <= Units * q(f) /\ Units * (m + 1) = Units * m + Units
      BY <1>1, <1>2, <2>1, <2>5, MulMonotone
    <3>2. Units * m \in Int /\ Units * q(f) \in Int
      BY <1>1, <1>2, <2>1
    <3> DEFINE y == Units * m
               z == Units * q(f)
    <3>3. y \in Int /\ z \in Int /\ y + Units <= z /\ z <= y + Units - 1
      BY <2>2, <2>3, <3>1, <3>2
    <3> HIDE DEF y, z
    <3> QED BY <1>1, <3>3
  <2> HIDE DEF q, m
  <2> QED BY <1>2, <2>1, <2>4, <2>5
<1>5. \A g \in 1..Units : Exact(g) = q(g) /\ Exact(g) \in 1..N
  BY ExactFacts
<1>6. Units \in 1..Units
  BY <1>1
<1> HIDE DEF q, m
<1> QED BY <1>1, <1>2, <1>3, <1>4, <1>5, <1>6

(* top_k_mask accepts the fraction: its float is not above 1.0.             *)
Accepted(f, up) == f \in 1..Units /\ up \subseteq WholeRows /\ ~(f = Units /\ f \in up)

(* What it then selects: at least one row and at most all; no more than a   *)
(* larger fraction selects, however either of them is rounded.              *)
LEMMA SelectedFacts ==
  ASSUME NEW f, NEW up, Accepted(f, up)
  PROVE  /\ Selected(f, up) \in 1..N
         /\ \A g, down : Accepted(g, down) /\ g < f => Selected(g, down) <= Selected(f, up)
         /\ \A down : Accepted(f, down) /\ (f \in down => f \in up) =>
                        Selected(f, down) <= Selected(f, up)
<1>1. \A g, down : Selected(g, down) = Exact(g) + (IF g \in down THEN 1 ELSE 0)
  BY DEF Selected, Exact
<1>2. ASSUME NEW g, NEW down, Accepted(g, down)
      PROVE  /\ g \in 1..Units /\ Exact(g) \in 1..N
             /\ Selected(g, down) \in {Exact(g), Exact(g) + 1} /\ Selected(g, down) \in 1..N
             /\ \A h \in 1..Units : g < h => Selected(g, down) <= Exact(h)
  <2>1. g \in 1..Units /\ Exact(g) \in 1..N
    BY <1>2, ExactFacts DEF Accepted
  <2>2. \A h \in 1..Units : g < h => Exact(g) <= Exact(h)
    <3> SUFFICES ASSUME NEW h \in 1..Units, g < h PROVE Exact(g) <= Exact(h)
      OBVIOUS
    <3>1. g \in 1..h
      BY <2>1
    <3> QED BY <3>1, ExactFacts
  <2>3. CASE g \notin down
    BY <1>1, <2>1, <2>2, <2>3
  <2>4. CASE g \in down
    <3>1. g \in WholeRows /\ g # Units
      BY <1>2, <2>4 DEF Accepted
    <3> QED BY <1>1, <2>1, <2>4, <3>1, OneMore
  <2> QED BY <2>3, <2>4
<1>3. ASSUME NEW g, NEW down, Accepted(g, down), g < f PROVE Selected(g, down) <= Selected(f, up)
  <2>1. Selected(g, down) <= Exact(f) /\ Selected(g, down) \in Int
    BY <1>2, <1>3
  <2>2. Exact(f) \in Int /\ Exact(f) <= Selected(f, up) /\ Selected(f, up) \in Int
    BY <1>2
  <2> QED BY <2>1, <2>2
<1>4. ASSUME NEW down, Accepted(f, down), f \in down => f \in up
      PROVE  Selected(f, down) <= Selected(f, up)
  <2>1. Exact(f) \in Int
    BY <1>2
  <2> QED BY <1>1, <1>4, <2>1
<1> QED BY <1>2, <1>3, <1>4

----------------------------------------------------------------------------
(* The ranking of the rows *)

Scored == score \in [Rows -> Int] /\ fraud \subseteq Rows

(* The rows that a stable ascending sort puts behind i.                     *)
Ahead(i) == {j \in Rows : \/ score[j] > score[i]
                          \/ score[j] = score[i] /\ j > i}
Rank(i) == Cardinality(Ahead(i))

LEMMA RowsFinite ==
  /\ N \in Nat /\ Rows \subseteq Nat /\ IsFiniteSet(Rows) /\ Cardinality(Rows) = N
  /\ \A S \in SUBSET Rows : IsFiniteSet(S) /\ Cardinality(S) \in 0..N
<1>1. N \in Nat /\ 1 \in Int /\ N \in Int /\ Rows = 1..N
  BY PolicyAssumption DEF Rows
<1>2. IsFiniteSet(Rows) /\ Cardinality(Rows) = N
  BY <1>1, FS_Interval
<1>3. ASSUME NEW S \in SUBSET Rows
      PROVE  IsFiniteSet(S) /\ Cardinality(S) \in 0..N
  <2>1. IsFiniteSet(S) /\ Cardinality(S) <= N
    BY <1>2, FS_Subset
  <2>2. Cardinality(S) \in Nat
    BY <2>1, FS_CardinalityType
  <2> QED BY <1>1, <2>1, <2>2
<1> QED BY <1>1, <1>2, <1>3

LEMMA SubsetSize ==
  ASSUME NEW S \in SUBSET Rows, NEW T \in SUBSET S
  PROVE  /\ Cardinality(T) <= Cardinality(S)
         /\ Cardinality(T) = Cardinality(S) => T = S
<1>1. IsFiniteSet(S)
  BY RowsFinite
<1> QED BY <1>1, FS_Subset

LEMMA ProperSubset ==
  ASSUME NEW S \in SUBSET Rows, NEW T \in SUBSET S, NEW x \in S, x \notin T
  PROVE  /\ Cardinality(T) < Cardinality(S)
         /\ Cardinality(T) \in 0..N /\ Cardinality(S) \in 0..N
<1>1. T \in SUBSET Rows /\ T # S
  OBVIOUS
<1>2. Cardinality(T) \in 0..N /\ Cardinality(S) \in 0..N
  BY <1>1, RowsFinite
<1>3. /\ Cardinality(T) <= Cardinality(S)
      /\ Cardinality(T) = Cardinality(S) => T = S
  BY SubsetSize
<1>4. Cardinality(T) \in Int /\ Cardinality(S) \in Int
  BY <1>2
<1> QED BY <1>1, <1>2, <1>3, <1>4

LEMMA TopRowsByRank == \A n : TopRows(n) = {i \in Rows : Rank(i) < n}
  BY DEF TopRows, Rank, Ahead

LEMMA RankOrder ==
  ASSUME Scored
  PROVE  /\ \A i \in Rows : Rank(i) \in 0..(N - 1)
         /\ \A i, j \in Rows : j \in Ahead(i) => Rank(j) < Rank(i)
         /\ \A i, j \in Rows : i # j => j \in Ahead(i) \/ i \in Ahead(j)
<1>1. N \in Nat /\ \A i \in Rows : i \in Int /\ score[i] \in Int
  BY RowsFinite DEF Scored
<1>2. ASSUME NEW i \in Rows PROVE Rank(i) \in 0..(N - 1)
  <2>1. Ahead(i) \in SUBSET Rows /\ i \notin Ahead(i)
    BY <1>1 DEF Ahead
  <2>2. Cardinality(Ahead(i)) \in 0..N /\ Cardinality(Rows) = N
    BY <2>1, RowsFinite
  <2>3. Cardinality(Ahead(i)) < Cardinality(Rows)
    BY <2>1, ProperSubset
  <2> QED BY <1>1, <2>2, <2>3 DEF Rank
<1>3. ASSUME NEW i \in Rows, NEW j \in Rows, j \in Ahead(i) PROVE Rank(j) < Rank(i)
  <2>1. Ahead(i) \in SUBSET Rows /\ Ahead(j) \in SUBSET Ahead(i) /\ j \notin Ahead(j)
    BY <1>1, <1>3 DEF Ahead
  <2> QED BY <1>3, <2>1, ProperSubset DEF Rank
<1>4. ASSUME NEW i \in Rows, NEW j \in Rows, i # j PROVE j \in Ahead(i) \/ i \in Ahead(j)
  BY <1>1, <1>4 DEF Ahead
<1> QED BY <1>2, <1>3, <1>4

(* Every rank is taken once, so the selection has the size asked for.       *)
LEMMA RanksFill ==
  ASSUME Scored
  PROVE  [i \in Rows |-> Rank(i)] \in Bijection(Rows, 0..(N - 1))
<1> DEFINE r == [i \in Rows |-> Rank(i)]
           T == 0..(N - 1)
<1>1. r \in [Rows -> T] /\ N \in Nat
  BY RankOrder, RowsFinite
<1>2. \A i, j \in Rows : Rank(i) = Rank(j) => i = j
  <2> SUFFICES ASSUME NEW i \in Rows, NEW j \in Rows, i # j PROVE Rank(i) # Rank(j)
    OBVIOUS
  <2>1. Rank(i) \in Int /\ Rank(j) \in Int /\ (Rank(i) < Rank(j) \/ Rank(j) < Rank(i))
    BY <1>1, RankOrder
  <2> QED BY <2>1
<1>3. r \in Injection(Rows, T)
  BY <1>1, <1>2 DEF Injection, IsInjective
<1>4. IsFiniteSet(T) /\ Cardinality(T) = N
  <2>1. IsFiniteSet(T) /\ Cardinality(T) = IF 0 > N - 1 THEN 0 ELSE (N - 1) - 0 + 1
    BY <1>1, FS_Interval
  <2> QED BY <1>1, <2>1
<1>5. r \in Surjection(Rows, T)
  BY <1>3, <1>4, RowsFinite, FS_Injection
<1> QED BY <1>3, <1>5 DEF Bijection

LEMMA TopRowsSize ==
  ASSUME Scored, NEW n \in 0..N
  PROVE  TopRows(n) \in SUBSET Rows /\ Cardinality(TopRows(n)) = n
<1> DEFINE r == [i \in Rows |-> Rank(i)]
           S == {i \in Rows : Rank(i) < n}
           g == [i \in S |-> Rank(i)]
           T == 0..(n - 1)
<1>1. N \in Nat /\ n \in Nat /\ n <= N
  BY RowsFinite
<1>2. r \in Bijection(Rows, 0..(N - 1))
  BY RanksFill
<1>3. g \in [S -> T]
  BY <1>1, RankOrder
<1>4. \A i, j \in S : g[i] = g[j] => i = j
  <2> TAKE i, j \in S
  <2>1. g[i] = r[i] /\ g[j] = r[j]
    OBVIOUS
  <2>2. r[i] = r[j] => i = j
    BY <1>2 DEF Bijection, Injection, IsInjective
  <2> QED BY <2>1, <2>2
<1>5. \A k \in T : \E i \in S : g[i] = k
  <2> TAKE k \in T
  <2>1. k \in 0..(N - 1) /\ k < n
    BY <1>1
  <2>2. PICK i \in Rows : r[i] = k
    BY <1>2, <2>1 DEF Bijection, Surjection
  <2>3. Rank(i) = k /\ i \in S
    BY <2>1, <2>2
  <2> QED BY <2>3
<1>6. g \in Bijection(S, T)
  BY <1>3, <1>4, <1>5 DEF Bijection, Injection, Surjection, IsInjective
<1>7. S \in SUBSET Rows /\ IsFiniteSet(S)
  BY RowsFinite
<1> HIDE DEF g
<1>8. Cardinality(T) = Cardinality(S)
  <2>1. ExistsBijection(S, T)
    BY <1>6 DEF ExistsBijection
  <2> QED BY <1>7, <2>1, FS_Bijection
<1>9. Cardinality(T) = n
  <2>1. Cardinality(T) = IF 0 > n - 1 THEN 0 ELSE (n - 1) - 0 + 1
    BY <1>1, FS_Interval
  <2> QED BY <1>1, <2>1
<1>10. TopRows(n) = S
  BY TopRowsByRank
<1> QED BY <1>7, <1>8, <1>9, <1>10

(* A set of rows that contains every row ahead of its own is a selection.   *)
LEMMA ClosedIsTop ==
  ASSUME Scored, NEW S \in SUBSET Rows, \A i \in S : Ahead(i) \subseteq S
  PROVE  S = TopRows(Cardinality(S))
<1> DEFINE n == Cardinality(S)
<1>1. n \in 0..N
  BY RowsFinite
<1>2. TopRows(n) \in SUBSET Rows /\ Cardinality(TopRows(n)) = n
  BY <1>1, TopRowsSize
<1>3. ASSUME NEW i \in S PROVE i \in TopRows(n)
  <2>1. i \notin Ahead(i) /\ Ahead(i) \in SUBSET S
    BY RowsFinite DEF Ahead, Scored
  <2>2. Rank(i) < n
    BY <2>1, ProperSubset DEF Rank
  <2> QED BY <2>2, TopRowsByRank
<1>4. S \in SUBSET TopRows(n)
  BY <1>3
<1> QED BY <1>2, <1>4, SubsetSize
----------------------------------------------------------------------------
(* Thresholds *)

LEMMA LowestScore ==
  ASSUME Scored, NEW S \in SUBSET Rows, S # {}
  PROVE  /\ Min({score[i] : i \in S}) \in Int
         /\ \E i \in S : score[i] = Min({score[j] : j \in S})
         /\ \A i \in S : Min({score[j] : j \in S}) <= score[i]
<1> DEFINE R == {Rank(i) : i \in S}
           V == {score[i] : i \in S}
<1>1. N \in Nat /\ \A i \in Rows : score[i] \in Int /\ i \in Int
  BY RowsFinite DEF Scored
<1>2. R \in SUBSET (0..N) /\ R # {}
  <2>1. \A i \in S : Rank(i) \in 0..N /\ Rank(i) \in R
    BY <1>1, RankOrder
  <2> QED BY <2>1
<1>3. PICK last \in S : \A i \in S : Rank(i) <= Rank(last)
  <2>1. PICK m \in R : \A k \in R : k <= m
    BY <1>1, <1>2, GreatestNumber
  <2> QED BY <2>1
<1>4. \A i \in S : score[last] <= score[i]
  <2> SUFFICES ASSUME NEW i \in S, score[i] < score[last] PROVE FALSE
    BY <1>1
  <2>1. last \in Ahead(i)
    BY <1>1 DEF Ahead
  <2>2. Rank(last) < Rank(i) /\ Rank(i) <= Rank(last) /\ Rank(i) \in Int /\ Rank(last) \in Int
    BY <1>1, <1>3, <2>1, RankOrder
  <2> QED BY <2>2
<1>5. Min(V) = score[last]
  <2>1. score[last] \in V /\ \A y \in V : score[last] <= y
    BY <1>4
  <2>2. ASSUME NEW x \in V, \A y \in V : x <= y PROVE x = score[last]
    <3>1. x \in Int /\ score[last] \in Int /\ x <= score[last] /\ score[last] <= x
      BY <1>1, <2>1, <2>2
    <3> QED BY <3>1
  <2> HIDE DEF V
  <2> QED BY <2>1, <2>2 DEF Min
<1> QED BY <1>1, <1>4, <1>5

(* score_at_top_fraction: the selection reaches its threshold, and only the *)
(* rows that tie with it are above the threshold beyond the selection.      *)
LEMMA ThresholdFacts ==
  ASSUME Scored, NEW f, NEW up, Accepted(f, up)
  PROVE  /\ ScoreAtTopFraction(f, up) \in Int
         /\ TopKMask(f, up) \in SUBSET Rows /\ Cardinality(TopKMask(f, up)) = Selected(f, up)
         /\ \E i \in TopKMask(f, up) : score[i] = ScoreAtTopFraction(f, up)
         /\ \A i \in TopKMask(f, up) : ScoreAtTopFraction(f, up) <= score[i]
         /\ \A i \in Rows : ScoreAtTopFraction(f, up) < score[i] => i \in TopKMask(f, up)
<1>1. Selected(f, up) \in 1..N /\ Selected(f, up) \in 0..N /\ N \in Nat
  BY SelectedFacts, RowsFinite
<1>2. TopKMask(f, up) \in SUBSET Rows /\ Cardinality(TopKMask(f, up)) = Selected(f, up)
  BY <1>1, TopRowsSize DEF TopKMask
<1>3. TopKMask(f, up) # {}
  <2>1. Cardinality({}) = 0
    BY FS_EmptySet
  <2> QED BY <1>1, <1>2, <2>1
<1>4. /\ ScoreAtTopFraction(f, up) \in Int
      /\ \E i \in TopKMask(f, up) : score[i] = ScoreAtTopFraction(f, up)
      /\ \A i \in TopKMask(f, up) : ScoreAtTopFraction(f, up) <= score[i]
  BY <1>2, <1>3, LowestScore DEF ScoreAtTopFraction
<1>5. ASSUME NEW i \in Rows, ScoreAtTopFraction(f, up) < score[i] PROVE i \in TopKMask(f, up)
  <2>1. PICK last \in TopKMask(f, up) : score[last] = ScoreAtTopFraction(f, up)
    BY <1>4
  <2>2. last \in Rows /\ i \in Ahead(last)
    BY <1>2, <1>5, <2>1 DEF Ahead
  <2>3. Rank(last) < Selected(f, up) /\ Rank(i) < Rank(last)
    BY <2>1, <2>2, TopRowsByRank, RankOrder DEF TopKMask
  <2>4. Rank(i) \in Int /\ Rank(last) \in Int /\ Selected(f, up) \in Int
    BY <1>1, <2>2, RankOrder
  <2>5. Rank(i) < Selected(f, up)
    BY <2>3, <2>4
  <2> QED BY <2>5, TopRowsByRank DEF TopKMask
<1> QED BY <1>2, <1>4, <1>5

(* A selection of no fewer rows has a lower threshold, or the same.         *)
LEMMA ThresholdFalls ==
  ASSUME Scored, NEW f, NEW up, Accepted(f, up), NEW g, NEW down, Accepted(g, down),
         Selected(g, down) <= Selected(f, up)
  PROVE  ScoreAtTopFraction(f, up) <= ScoreAtTopFraction(g, down)
<1>1. Selected(f, up) \in Int /\ Selected(g, down) \in Int
  BY SelectedFacts
<1>2. PICK i \in TopKMask(g, down) : score[i] = ScoreAtTopFraction(g, down)
  BY ThresholdFacts
<1>3. i \in Rows /\ Rank(i) < Selected(g, down)
  BY <1>2, TopRowsByRank DEF TopKMask
<1>4. Rank(i) < Selected(f, up)
  BY <1>1, <1>3, RankOrder
<1>5. i \in TopKMask(f, up)
  BY <1>3, <1>4, TopRowsByRank DEF TopKMask
<1> QED BY <1>2, <1>5, ThresholdFacts

----------------------------------------------------------------------------
(* The scan for the block fraction *)

LEMMA CandidateFacts ==
  ASSUME NEW c \in 1..Units
  PROVE  /\ \A f \in CandidateFractions(c) : f \in 1..c /\ f \in 1..Units /\ Step <= f
         /\ \A f \in CandidateFractions(c) : f % Step = 0
         /\ \A d \in 1..c : CandidateFractions(d) \subseteq CandidateFractions(c)
         /\ CandidateFractions(c) # {} => Step \in CandidateFractions(c)
         /\ CandidateFractions(c) = {} => c < Step
<1>1. Step \in Nat \ {0} /\ Units \in Nat /\ c \in Nat
  BY PolicyAssumption
<1>2. ASSUME NEW d \in 1..c PROVE d \in Nat /\ d \div Step \in Nat /\ d \div Step <= c \div Step
  BY <1>1, DivFacts, DivMonotone
<1>3. c \div Step \in Nat /\ Step * (c \div Step) <= c
  BY <1>1, DivFacts
<1>4. ASSUME NEW k \in 1..(c \div Step)
      PROVE  k * Step \in 1..c /\ k * Step \in 1..Units /\ Step <= k * Step
  <2> DEFINE q == c \div Step
  <2>1. q \in Nat /\ Step * q <= c /\ k \in Int /\ 1 <= k /\ k <= q
    BY <1>3
  <2> HIDE DEF q
  <2>2. Step * 1 <= Step * k /\ Step * k <= Step * q
    BY <1>1, <2>1, MulMonotone
  <2>3. Step * k \in Int /\ Step * q \in Int /\ Step * k = k * Step
    BY <1>1, <2>1
  <2> DEFINE x == Step * k
             y == Step * q
  <2>4. x \in Int /\ y \in Int /\ Step <= x /\ x <= y /\ y <= c
    BY <1>1, <2>1, <2>2, <2>3
  <2> HIDE DEF x, y
  <2>5. x \in 1..c /\ x \in 1..Units /\ Step <= x
    BY <1>1, <2>4
  <2> QED BY <2>3, <2>5 DEF x
<1>5. \A f \in CandidateFractions(c) : f \in 1..c /\ f \in 1..Units /\ Step <= f
  BY <1>4 DEF CandidateFractions
<1>10. ASSUME NEW f \in CandidateFractions(c) PROVE f % Step = 0
  <2>1. PICK k \in 1..(c \div Step) : f = k * Step
    BY DEF CandidateFractions
  <2>2. k \in Nat
    BY <1>3, <2>1
  <2> QED BY <1>1, <2>1, <2>2, MultipleOf
<1>6. ASSUME NEW d \in 1..c PROVE CandidateFractions(d) \subseteq CandidateFractions(c)
  <2>1. 1..(d \div Step) \subseteq 1..(c \div Step)
    BY <1>2, <1>3
  <2> QED BY <2>1 DEF CandidateFractions
<1>7. ASSUME 1 \in 1..(c \div Step) PROVE Step \in CandidateFractions(c)
  <2>1. 1 * Step = Step
    BY <1>1
  <2> QED BY <1>7, <2>1 DEF CandidateFractions
<1>8. CandidateFractions(c) # {} => Step \in CandidateFractions(c)
  <2> SUFFICES ASSUME CandidateFractions(c) # {} PROVE Step \in CandidateFractions(c)
    OBVIOUS
  <2>1. PICK k \in 1..(c \div Step) : TRUE
    BY DEF CandidateFractions
  <2> QED BY <1>3, <1>7, <2>1
<1>9. ASSUME Step <= c PROVE Step \in CandidateFractions(c)
  <2>1. 1 <= c \div Step
    BY <1>1, <1>9, QuotientBound
  <2> QED BY <1>3, <1>7, <2>1
<1> QED BY <1>1, <1>5, <1>6, <1>8, <1>9, <1>10

(* derive_block_fraction_for_precision_target: the largest candidate that   *)
(* meets the target, the smallest candidate when none does.                 *)
LEMMA BlockFractionFacts ==
  ASSUME NEW c \in 1..Units, NEW target, CandidateFractions(c) # {}
  PROVE  /\ BlockFraction(c, target) \in CandidateFractions(c)
         /\ TargetAchieved(c, target) => PrecisionMeets(BlockFraction(c, target), target)
         /\ ~TargetAchieved(c, target) => BlockFraction(c, target) = Step
         /\ \A f \in CandidateFractions(c) :
              PrecisionMeets(f, target) => f <= BlockFraction(c, target)
<1> DEFINE meeting == {f \in CandidateFractions(c) : PrecisionMeets(f, target)}
<1>1. CASE meeting = {}
  BY <1>1, CandidateFacts DEF BlockFraction, TargetAchieved
<1>2. CASE meeting # {}
  <2>1. c \in Nat /\ meeting \in SUBSET (0..c)
    BY PolicyAssumption, CandidateFacts
  <2>2. PICK m \in meeting : \A k \in meeting : k <= m
    BY <1>2, <2>1, GreatestNumber
  <2>3. \A k \in meeting : m >= k
    BY <2>1, <2>2
  <2>4. Max(meeting) \in meeting /\ \A k \in meeting : Max(meeting) >= k
    BY <2>2, <2>3 DEF Max
  <2>5. BlockFraction(c, target) = Max(meeting)
    BY <1>2 DEF BlockFraction
  <2>6. \A k \in meeting : k <= Max(meeting)
    BY <2>1, <2>4
  <2> HIDE DEF Max
  <2> QED BY <1>2, <2>4, <2>5, <2>6 DEF TargetAchieved
<1> QED BY <1>1, <1>2
----------------------------------------------------------------------------
(* Policies *)

LEMMA SettingType ==
  ASSUME NEW p \in Settings
  PROVE  p.capacity \in 1..Units /\ p.target \in 0..100
  BY PolicyAssumption

LEMMA RoundingType ==
  ASSUME rounding \in Roundings
  PROVE  rounding.literal \subseteq WholeRows /\ Units \notin rounding.literal
         /\ rounding.grid \subseteq WholeRows
  BY PolicyAssumption

(* With candidate fractions to try, none above 1.0, both thresholds are     *)
(* scores, and they cross only when the scan's last fraction is the         *)
(* capacity and selects one row more.                                       *)
LEMMA PolicyFacts ==
  ASSUME Scored, rounding \in Roundings, NEW p \in Settings,
         CandidateFractions(p.capacity) # {},
         Units \notin CandidateFractions(p.capacity) \cap rounding.grid
  PROVE  /\ Accepted(p.capacity, rounding.literal)
         /\ \A f \in CandidateFractions(p.capacity) : Accepted(f, rounding.grid)
         /\ PolicyOf(p).approve = ScoreAtTopFraction(p.capacity, rounding.literal)
         /\ PolicyOf(p).block =
              ScoreAtTopFraction(BlockFraction(p.capacity, p.target), rounding.grid)
         /\ PolicyOf(p).achieved = TargetAchieved(p.capacity, p.target)
         /\ PolicyOf(p).approve \in Int /\ PolicyOf(p).block \in Int
         /\ PolicyOf(p) # Raised
         /\ PolicyOf(p).block < PolicyOf(p).approve =>
              p.capacity % Step = 0 /\ p.capacity \in rounding.grid \ rounding.literal
<1> DEFINE c == p.capacity
           b == BlockFraction(c, p.target)
<1>1. c \in 1..Units
  BY SettingType
<1>2. b \in CandidateFractions(c) /\ b \in 1..c
  BY <1>1, BlockFractionFacts, CandidateFacts
<1>3. /\ Accepted(c, rounding.literal)
      /\ \A f \in CandidateFractions(c) : Accepted(f, rounding.grid)
  BY <1>1, RoundingType, CandidateFacts DEF Accepted
<1>4. /\ PolicyOf(p).approve = ScoreAtTopFraction(c, rounding.literal)
      /\ PolicyOf(p).block = ScoreAtTopFraction(b, rounding.grid)
      /\ PolicyOf(p).achieved = TargetAchieved(c, p.target)
  BY DEF PolicyOf
<1>5. /\ ScoreAtTopFraction(c, rounding.literal) \in Int
      /\ ScoreAtTopFraction(b, rounding.grid) \in Int
  BY <1>2, <1>3, ThresholdFacts
<1>6. PolicyOf(p) \in [approve : Int, block : Int, achieved : BOOLEAN]
  BY <1>5 DEF PolicyOf, TargetAchieved
<1>7. ASSUME Selected(b, rounding.grid) <= Selected(c, rounding.literal)
      PROVE  ~(PolicyOf(p).block < PolicyOf(p).approve)
  <2>1. ScoreAtTopFraction(c, rounding.literal) <= ScoreAtTopFraction(b, rounding.grid)
    BY <1>2, <1>3, <1>7, ThresholdFalls
  <2> QED BY <1>4, <1>5, <2>1
<1>8. ASSUME b < c PROVE ~(PolicyOf(p).block < PolicyOf(p).approve)
  <2>1. Accepted(b, rounding.grid) /\ Accepted(c, rounding.literal)
    BY <1>2, <1>3
  <2> HIDE DEF b, c
  <2>2. Selected(b, rounding.grid) <= Selected(c, rounding.literal)
    BY <1>8, <2>1, SelectedFacts
  <2> QED BY <1>7, <2>2
<1>9. ASSUME b = c, c \in rounding.grid => c \in rounding.literal
      PROVE  ~(PolicyOf(p).block < PolicyOf(p).approve)
  <2>1. Accepted(c, rounding.grid) /\ Accepted(c, rounding.literal)
    BY <1>2, <1>3, <1>9
  <2> HIDE DEF b, c
  <2>2. Selected(c, rounding.grid) <= Selected(c, rounding.literal)
    BY <1>9, <2>1, SelectedFacts
  <2> QED BY <1>7, <1>9, <2>2
<1>10. ASSUME b = c PROVE c % Step = 0
  BY <1>1, <1>2, <1>10, CandidateFacts
<1>11. b < c \/ b = c
  BY <1>1, <1>2
<1> HIDE DEF b, c
<1>12. PolicyOf(p).block < PolicyOf(p).approve =>
         c % Step = 0 /\ c \in rounding.grid \ rounding.literal
  BY <1>8, <1>9, <1>10, <1>11
<1>13. PolicyOf(p) # Raised
  BY <1>6, PolicyAssumption
<1> QED BY <1>3, <1>4, <1>5, <1>12, <1>13 DEF b, c

(* Who is blocked, and who is reviewed or blocked.                          *)
LEMMA BucketFacts ==
  ASSUME Scored, NEW policy, policy.approve \in Int, policy.block \in Int,
         policy.approve <= policy.block
  PROVE  /\ Bucket(policy, "BLOCK") = {i \in Rows : policy.block <= score[i]}
         /\ Intervened(policy) = {i \in Rows : policy.approve <= score[i]}
<1>1. ASSUME NEW i \in Rows
      PROVE  /\ Decide(policy, score[i]) = "BLOCK" <=> policy.block <= score[i]
             /\ Decide(policy, score[i]) \in {"REVIEW", "BLOCK"} <=> policy.approve <= score[i]
  <2>1. score[i] \in Int
    BY DEF Scored
  <2>2. CASE score[i] >= policy.block
    <3>1. Decide(policy, score[i]) = "BLOCK" /\ policy.approve <= score[i]
      BY <2>1, <2>2 DEF Decide
    <3> QED BY <2>1, <2>2, <3>1
  <2>3. CASE score[i] < policy.block
    <3>1. Decide(policy, score[i]) = IF score[i] < policy.approve THEN "APPROVE" ELSE "REVIEW"
      BY <2>1, <2>3 DEF Decide
    <3> QED BY <2>1, <2>3, <3>1
  <2> QED BY <2>1, <2>2, <2>3
<1> QED BY <1>1 DEF Bucket, Intervened

(* What is built is what the setting and the validation set determine.      *)
IInv == /\ Scored /\ rounding \in Roundings
        /\ DOMAIN built \subseteq Settings
        /\ \A p \in DOMAIN built : built[p] = IF Raises(p) THEN Raised ELSE PolicyOf(p)

LEMMA BuiltFacts ==
  ASSUME IInv, NEW p \in Policies
  PROVE  /\ p \in Settings /\ CandidateFractions(p.capacity) # {} /\ built[p] = PolicyOf(p)
         /\ Units \notin CandidateFractions(p.capacity) \cap rounding.grid
         /\ PolicyOf(p).approve \in Int /\ PolicyOf(p).block \in Int
         /\ Bucket(built[p], "BLOCK") = {i \in Rows : PolicyOf(p).block <= score[i]}
         /\ Intervened(built[p]) = {i \in Rows : PolicyOf(p).approve <= score[i]}
<1>1. p \in Settings /\ ~Raises(p) /\ built[p] = PolicyOf(p)
  BY DEF IInv, Policies
<1>2. /\ CandidateFractions(p.capacity) # {}
      /\ Units \notin CandidateFractions(p.capacity) \cap rounding.grid
      /\ ~(PolicyOf(p).block < PolicyOf(p).approve)
  BY <1>1 DEF Raises
<1>3. PolicyOf(p).approve \in Int /\ PolicyOf(p).block \in Int
  BY <1>1, <1>2, PolicyFacts DEF IInv
<1>4. PolicyOf(p).approve <= PolicyOf(p).block
  BY <1>2, <1>3
<1> QED BY <1>1, <1>2, <1>3, <1>4, BucketFacts DEF IInv

----------------------------------------------------------------------------
(* The invariant *)

(* The validation set does not change, so neither does what it determines.  *)
LEMMA SameValidationSet ==
  ASSUME UNCHANGED validation
  PROVE  \A p : /\ PolicyOf(p)' = PolicyOf(p)
                /\ Raises(p)' = Raises(p)
<1>1. fraud' = fraud /\ score' = score /\ rounding' = rounding
  BY DEF validation
<1>2. \A n : TopRows(n)' = TopRows(n)
  <2>1. \A i : Ahead(i)' = Ahead(i)
    BY <1>1 DEF Ahead
  <2>2. \A i : Rank(i)' = Rank(i)
    BY <2>1 DEF Rank
  <2>3. \A n : TopRows(n)' = {i \in Rows : Rank(i)' < n}
    BY DEF TopRows, Rank, Ahead
  <2> QED BY <2>2, <2>3, TopRowsByRank
<1>4. /\ \A f : ScoreAtTopFraction(f, rounding.grid)' = ScoreAtTopFraction(f, rounding.grid)
      /\ \A f : ScoreAtTopFraction(f, rounding.literal)'
                 = ScoreAtTopFraction(f, rounding.literal)
  BY <1>1, <1>2 DEF ScoreAtTopFraction, TopKMask, Selected
<1>5. \A f, t : PrecisionMeets(f, t)' <=> PrecisionMeets(f, t)
  BY <1>1, <1>2 DEF PrecisionMeets, TopKMask, Selected
<1>6. \A c, t : BlockFraction(c, t)' = BlockFraction(c, t)
  BY <1>5 DEF BlockFraction
<1>7. \A c, t : TargetAchieved(c, t)' = TargetAchieved(c, t)
  BY <1>5 DEF TargetAchieved
<1>8. \A p : PolicyOf(p)' = PolicyOf(p)
  BY <1>4, <1>6, <1>7 DEF PolicyOf
<1>9. \A p : Raises(p)' = Raises(p)
  BY <1>1, <1>8 DEF Raises
<1> QED BY <1>8, <1>9

LEMMA InvariantHolds == Spec => []IInv
<1>1. Init => IInv
  <2> SUFFICES ASSUME Init PROVE IInv
    OBVIOUS
  <2>1. DOMAIN built = {}
    BY DEF Init
  <2> QED BY <2>1, PolicyAssumption DEF Init, IInv, Scored
<1>2. IInv /\ [Next]_vars => IInv'
  <2> SUFFICES ASSUME IInv, [Next]_vars PROVE IInv'
    OBVIOUS
  <2>1. ASSUME NEW p \in Settings, BuildPolicy(p) PROVE IInv'
    <3>1. /\ UNCHANGED validation
          /\ built' = [q \in DOMAIN built \cup {p} |->
                         IF q # p THEN built[q] ELSE IF Raises(p) THEN Raised ELSE PolicyOf(p)]
      BY <2>1 DEF BuildPolicy
    <3>2. /\ Scored' /\ rounding' \in Roundings
          /\ \A q : PolicyOf(q)' = PolicyOf(q) /\ Raises(q)' = Raises(q)
      BY <3>1, SameValidationSet DEF IInv, Scored, validation
    <3>3. DOMAIN built' = DOMAIN built \cup {p} /\ DOMAIN built' \subseteq Settings
      BY <3>1 DEF IInv
    <3>4. \A q \in DOMAIN built' : built'[q] = IF Raises(q) THEN Raised ELSE PolicyOf(q)
      BY <3>1, <3>3 DEF IInv
    <3> QED BY <3>2, <3>3, <3>4 DEF IInv
  <2>2. CASE UNCHANGED vars
    <3>1. UNCHANGED validation /\ built' = built
      BY <2>2 DEF vars
    <3>2. /\ Scored' /\ rounding' \in Roundings
          /\ \A q : PolicyOf(q)' = PolicyOf(q) /\ Raises(q)' = Raises(q)
      BY <3>1, SameValidationSet DEF IInv, Scored, validation
    <3> QED BY <3>1, <3>2 DEF IInv
  <2> QED BY <2>1, <2>2 DEF Next
<1> QED BY <1>1, <1>2, PTL DEF Spec

----------------------------------------------------------------------------
(* The properties *)

(* The assert of build_policy_from_validation fires on no validation set by *)
(* itself: a policy that cannot be built has a capacity below the scan's    *)
(* step, or one that the scan's float reaches with a row more.              *)
THEOREM ThresholdsCrossOnlyByAFloat == Spec => []ThresholdsCrossOnlyByRounding
<1>1. IInv => ThresholdsCrossOnlyByRounding
  <2> SUFFICES ASSUME IInv, NEW p \in DOMAIN built, built[p] = Raised
               PROVE  \/ p.capacity < Step
                      \/ /\ p.capacity % Step = 0
                         /\ p.capacity \in rounding.grid \ rounding.literal
    BY DEF ThresholdsCrossOnlyByRounding
  <2>1. p \in Settings /\ Scored /\ rounding \in Roundings /\ p.capacity \in 1..Units
    BY SettingType DEF IInv
  <2>2. CASE CandidateFractions(p.capacity) = {}
    BY <2>1, <2>2, CandidateFacts
  <2>3. CASE Units \in CandidateFractions(p.capacity) \cap rounding.grid
    <3>1. Units \in 1..p.capacity /\ Units % Step = 0
      BY <2>1, <2>3, CandidateFacts
    <3>2. p.capacity = Units
      BY <2>1, <3>1
    <3> QED BY <2>1, <2>3, <3>1, <3>2, RoundingType
  <2>4. CASE /\ CandidateFractions(p.capacity) # {}
             /\ Units \notin CandidateFractions(p.capacity) \cap rounding.grid
    <3>1. PolicyOf(p) # Raised
      BY <2>1, <2>4, PolicyFacts
    <3>2. Raises(p)
      BY <3>1 DEF IInv
    <3>3. PolicyOf(p).block < PolicyOf(p).approve
      BY <2>4, <3>2 DEF Raises
    <3> QED BY <2>1, <2>4, <3>3, PolicyFacts
  <2> QED BY <2>2, <2>3, <2>4
<1> QED BY <1>1, InvariantHolds, PTL

(* The intervention budget is used up and exceeded only by ties             *)
(* (build_policy_from_validation, evaluate_policy).                         *)
THEOREM BudgetIsUsedUp == Spec => []CapacityIsCovered
<1>1. IInv => CapacityIsCovered
  <2> SUFFICES ASSUME IInv, NEW p \in Policies
               PROVE  /\ Cardinality(Intervened(built[p])) >= Selected(p.capacity, rounding.literal)
                      /\ Cardinality({i \in Rows : score[i] > built[p].approve})
                           < Selected(p.capacity, rounding.literal)
    BY DEF CapacityIsCovered
  <2> DEFINE a == ScoreAtTopFraction(p.capacity, rounding.literal)
             top == TopKMask(p.capacity, rounding.literal)
             above == {i \in Rows : score[i] > a}
  <2>1. /\ Scored /\ Accepted(p.capacity, rounding.literal)
        /\ Intervened(built[p]) = {i \in Rows : a <= score[i]}
        /\ built[p].approve = a /\ a \in Int
    BY BuiltFacts, PolicyFacts DEF IInv
  <2>2. /\ top \in SUBSET Rows /\ Cardinality(top) = Selected(p.capacity, rounding.literal)
        /\ \A i \in top : a <= score[i]
        /\ \A i \in Rows : a < score[i] => i \in top
    BY <2>1, ThresholdFacts
  <2>3. PICK last \in top : score[last] = a
    BY <2>1, ThresholdFacts
  <2> HIDE DEF a, top
  <2>4. \A i \in Rows : score[i] \in Int
    BY <2>1 DEF Scored
  <2>5. above \in SUBSET top /\ last \notin above
    BY <2>1, <2>2, <2>3, <2>4
  <2>6. Intervened(built[p]) \in SUBSET Rows /\ top \in SUBSET Intervened(built[p])
    BY <2>1, <2>2
  <2> HIDE DEF above
  <2>7. /\ Cardinality(top) <= Cardinality(Intervened(built[p]))
        /\ Cardinality(above) < Cardinality(top)
    <3>1. Cardinality(top) <= Cardinality(Intervened(built[p]))
      BY <2>6, SubsetSize
    <3>2. Cardinality(above) < Cardinality(top)
      BY <2>2, <2>3, <2>5, ProperSubset
    <3> QED BY <3>1, <3>2
  <2>8. /\ Cardinality(top) \in Int /\ Cardinality(above) \in Int
        /\ Cardinality(Intervened(built[p])) \in Int
    BY <2>2, <2>5, <2>6, RowsFinite
  <2> QED BY <2>1, <2>2, <2>7, <2>8 DEF above
<1> QED BY <1>1, InvariantHolds, PTL

(* A looser candidate intervenes on and blocks at least what a tighter one  *)
(* does (derive_block_fraction_for_precision_target).                       *)
THEOREM LooserPoliciesCatchMore == Spec => []PoliciesAreNested
<1>1. IInv => PoliciesAreNested
  <2> SUFFICES ASSUME IInv, NEW p \in Policies, NEW q \in Policies,
                      p.capacity <= q.capacity, p.target >= q.target
               PROVE  /\ Intervened(built[p]) \subseteq Intervened(built[q])
                      /\ Bucket(built[p], "BLOCK") \subseteq Bucket(built[q], "BLOCK")
    BY DEF PoliciesAreNested
  <2> DEFINE c == p.capacity
             d == q.capacity
             f == BlockFraction(c, p.target)
             g == BlockFraction(d, q.target)
  <2>1. /\ Scored /\ p \in Settings /\ q \in Settings
        /\ rounding \in Roundings
        /\ CandidateFractions(c) # {} /\ CandidateFractions(d) # {}
        /\ Units \notin CandidateFractions(c) \cap rounding.grid
        /\ Units \notin CandidateFractions(d) \cap rounding.grid
    BY BuiltFacts DEF IInv
  <2>2. /\ c \in 1..Units /\ d \in 1..Units /\ p.target \in 0..100 /\ q.target \in 0..100
        /\ Step \in Nat
    BY <2>1, SettingType, PolicyAssumption
  <2>3. c \in 1..d
    BY <2>2
  <2>4. f \in CandidateFractions(c) /\ f \in CandidateFractions(d) /\ g \in CandidateFractions(d)
        /\ f \in 1..Units /\ g \in 1..Units
        /\ Accepted(f, rounding.grid) /\ Accepted(g, rounding.grid)
        /\ Accepted(c, rounding.literal) /\ Accepted(d, rounding.literal)
    <3>1. f \in CandidateFractions(c) /\ g \in CandidateFractions(d)
      BY <2>1, <2>2, BlockFractionFacts
    <3>2. f \in CandidateFractions(d) /\ f \in 1..Units /\ g \in 1..Units
      BY <2>2, <2>3, <3>1, CandidateFacts
    <3> HIDE DEF f, g
    <3> QED BY <2>1, <3>1, <3>2, PolicyFacts
  <2>5. f <= g
    <3>1. CASE TargetAchieved(c, p.target)
      <4>1. PrecisionMeets(f, p.target)
        BY <2>1, <2>2, <3>1, BlockFractionFacts
      <4>2. PrecisionMeets(f, q.target)
        <5>1. /\ Selected(f, rounding.grid) \in Nat
              /\ q.target <= p.target /\ q.target \in Int /\ p.target \in Int
          BY <2>2, <2>4, SelectedFacts
        <5>2. Selected(f, rounding.grid) * q.target <= Selected(f, rounding.grid) * p.target
          BY <5>1, MulMonotone
        <5>3. /\ Selected(f, rounding.grid) * q.target = q.target * Selected(f, rounding.grid)
              /\ Selected(f, rounding.grid) * p.target = p.target * Selected(f, rounding.grid)
              /\ Selected(f, rounding.grid) * q.target \in Int
              /\ Selected(f, rounding.grid) * p.target \in Int
          BY <5>1
        <5>4. TopKMask(f, rounding.grid) \cap fraud \in SUBSET Rows
          BY <2>1, <2>4, ThresholdFacts
        <5>5. 100 * Cardinality(TopKMask(f, rounding.grid) \cap fraud) \in Int
          BY <5>4, RowsFinite
        <5> QED BY <4>1, <5>2, <5>3, <5>5 DEF PrecisionMeets
      <4> QED BY <2>1, <2>2, <2>4, <4>2, BlockFractionFacts
    <3>2. CASE ~TargetAchieved(c, p.target)
      <4>1. f = Step
        BY <2>1, <2>2, <3>2, BlockFractionFacts
      <4> QED BY <2>2, <2>4, <4>1, CandidateFacts
    <3> QED BY <3>1, <3>2
  <2>6. /\ ScoreAtTopFraction(d, rounding.literal) <= ScoreAtTopFraction(c, rounding.literal)
        /\ ScoreAtTopFraction(g, rounding.grid) <= ScoreAtTopFraction(f, rounding.grid)
    <3>1. ASSUME NEW x, NEW y, NEW up, Accepted(x, up), Accepted(y, up), x <= y
          PROVE  ScoreAtTopFraction(y, up) <= ScoreAtTopFraction(x, up)
      <4>1. x < y \/ x = y
        BY <3>1 DEF Accepted
      <4>2. Selected(x, up) <= Selected(y, up)
        BY <3>1, <4>1, SelectedFacts
      <4> QED BY <2>1, <3>1, <4>2, ThresholdFalls
    <3> HIDE DEF f, g
    <3> QED BY <2>4, <2>5, <3>1
  <2>7. /\ PolicyOf(q).approve <= PolicyOf(p).approve /\ PolicyOf(q).block <= PolicyOf(p).block
        /\ PolicyOf(q).approve \in Int /\ PolicyOf(p).approve \in Int
        /\ PolicyOf(q).block \in Int /\ PolicyOf(p).block \in Int
    BY <2>1, <2>6, PolicyFacts, BuiltFacts
  <2>8. \A i \in Rows : score[i] \in Int
    BY <2>1 DEF Scored
  <2>9. /\ Intervened(built[p]) = {i \in Rows : PolicyOf(p).approve <= score[i]}
        /\ Intervened(built[q]) = {i \in Rows : PolicyOf(q).approve <= score[i]}
        /\ Bucket(built[p], "BLOCK") = {i \in Rows : PolicyOf(p).block <= score[i]}
        /\ Bucket(built[q], "BLOCK") = {i \in Rows : PolicyOf(q).block <= score[i]}
    BY BuiltFacts
  <2> QED BY <2>7, <2>8, <2>9
<1> QED BY <1>1, InvariantHolds, PTL

(* When no row ties at the block threshold, an achieved target is the       *)
(* bucket's own precision, and no larger slice meets it                     *)
(* (derive_block_fraction_for_precision_target).                            *)
THEOREM AchievedTargetHolds == Spec => []TargetHoldsWithoutTies
<1>1. IInv => TargetHoldsWithoutTies
  <2> SUFFICES ASSUME IInv, NEW p \in Policies, built[p].achieved,
                      Cardinality({i \in Rows : score[i] = built[p].block}) = 1
               PROVE  LET blocked == Bucket(built[p], "BLOCK")
                      IN  /\ 100 * Cardinality(blocked \cap fraud)
                               >= p.target * Cardinality(blocked)
                          /\ \A f \in CandidateFractions(p.capacity) :
                               Selected(f, rounding.grid) > Cardinality(blocked) =>
                                 ~PrecisionMeets(f, p.target)
    BY DEF TargetHoldsWithoutTies
  <2> DEFINE c == p.capacity
             b == BlockFraction(c, p.target)
             t == ScoreAtTopFraction(b, rounding.grid)
             ties == {i \in Rows : score[i] = t}
             blocked == Bucket(built[p], "BLOCK")
  <2>1. /\ Scored /\ p \in Settings /\ CandidateFractions(c) # {} /\ c \in 1..Units
        /\ \A f \in CandidateFractions(c) : Accepted(f, rounding.grid)
        /\ b \in CandidateFractions(c) /\ t \in Int
        /\ blocked = {i \in Rows : t <= score[i]}
        /\ TargetAchieved(c, p.target) /\ Cardinality(ties) = 1
    <3>1. /\ Scored /\ p \in Settings /\ CandidateFractions(c) # {} /\ built[p] = PolicyOf(p)
          /\ blocked = {i \in Rows : PolicyOf(p).block <= score[i]}
      BY BuiltFacts DEF IInv
    <3>2. /\ c \in 1..Units /\ PolicyOf(p).block = t /\ PolicyOf(p).block \in Int
          /\ PolicyOf(p).achieved = TargetAchieved(c, p.target)
          /\ \A f \in CandidateFractions(c) : Accepted(f, rounding.grid)
      BY <3>1, PolicyFacts, SettingType, BuiltFacts DEF IInv
    <3>3. b \in CandidateFractions(c)
      BY <3>1, <3>2, BlockFractionFacts
    <3> HIDE DEF b, t, blocked
    <3> QED BY <3>1, <3>2, <3>3
  <2>2. PrecisionMeets(b, p.target)
    BY <2>1, BlockFractionFacts
  <2>3. blocked = TopKMask(b, rounding.grid)
    <3>1. PICK last \in TopKMask(b, rounding.grid) : score[last] = t
      BY <2>1, ThresholdFacts
    <3>2. last \in Rows /\ TopKMask(b, rounding.grid) \in SUBSET Rows
      BY <2>1, ThresholdFacts
    <3>3. ties \in SUBSET Rows /\ last \in ties
      BY <3>1, <3>2
    <3>4. ties = {last}
      <4>1. IsFiniteSet(ties)
        BY <3>3, RowsFinite
      <4>2. \E x : ties = {x}
        BY <2>1, <4>1, FS_Singleton
      <4> QED BY <3>3, <4>2
    <3>5. \A i \in Rows : score[i] \in Int
      BY <2>1 DEF Scored
    <3>6. ASSUME NEW i \in blocked PROVE i \in TopKMask(b, rounding.grid)
      <4>1. i \in Rows /\ (t < score[i] \/ i \in ties)
        BY <2>1, <3>5
      <4> HIDE DEF ties
      <4> QED BY <2>1, <3>4, <4>1, ThresholdFacts
    <3>7. ASSUME NEW i \in TopKMask(b, rounding.grid) PROVE i \in blocked
      BY <2>1, <3>2, ThresholdFacts
    <3> QED BY <3>6, <3>7
  <2>4. Cardinality(blocked) = Selected(b, rounding.grid)
    BY <2>1, <2>3, ThresholdFacts
  <2>5. 100 * Cardinality(blocked \cap fraud) >= p.target * Cardinality(blocked)
    BY <2>2, <2>3, <2>4 DEF PrecisionMeets
  <2>6. ASSUME NEW f \in CandidateFractions(c), Selected(f, rounding.grid) > Cardinality(blocked),
               PrecisionMeets(f, p.target)
        PROVE  FALSE
    <3>1. f \in 1..b /\ f \in 1..Units
      BY <2>1, <2>6, BlockFractionFacts, CandidateFacts
    <3>3. f < b \/ f = b
      <4>1. b \in 1..Units
        BY <2>1, CandidateFacts
      <4> HIDE DEF b
      <4> QED BY <3>1, <4>1
    <3>2. /\ Selected(f, rounding.grid) <= Selected(b, rounding.grid)
          /\ Selected(f, rounding.grid) \in Int /\ Selected(b, rounding.grid) \in Int
      BY <2>1, <2>6, <3>3, SelectedFacts
    <3> QED BY <2>4, <2>6, <3>2
  <2> QED BY <2>5, <2>6
<1> QED BY <1>1, InvariantHolds, PTL

(* A flat ranking with the policy's own budget flags the policy's own rows, *)
(* and one more if the rate's float is rounded up, so its recall is the     *)
(* policy's or one fraud better (compare_policy_to_fixed_budget).           *)
THEOREM FlatRankingIsNoWorse == Spec => []MatchedBudgetRecall
<1>1. IInv => MatchedBudgetRecall
  <2> SUFFICES ASSUME IInv, NEW p \in Policies
               PROVE  LET own == Cardinality(Intervened(built[p]) \cap fraud)
                      IN  /\ own \in FlatCaptures(built[p])
                          /\ FlatCaptures(built[p]) \subseteq {own, own + 1}
    BY DEF MatchedBudgetRecall
  <2> DEFINE rows == Intervened(built[p])
             m == Cardinality(rows)
             caught(n) == Cardinality(TopRows(n) \cap fraud)
  <2>1. /\ Scored /\ PolicyOf(p).approve \in Int
        /\ rows = {i \in Rows : PolicyOf(p).approve <= score[i]}
    BY BuiltFacts DEF IInv
  <2>2. \A i \in Rows : score[i] \in Int
    BY <2>1 DEF Scored
  <2>3. rows \in SUBSET Rows /\ \A i \in rows : Ahead(i) \subseteq rows
    BY <2>1, <2>2 DEF Ahead
  <2> HIDE DEF rows
  <2>4. rows = TopRows(m)
    BY <2>1, <2>3, ClosedIsTop
  <2>5. m \in Rows
    <3>1. \E i \in Rows : score[i] = PolicyOf(p).approve
      <4>1. /\ Accepted(p.capacity, rounding.literal)
            /\ PolicyOf(p).approve = ScoreAtTopFraction(p.capacity, rounding.literal)
        BY BuiltFacts, PolicyFacts DEF IInv
      <4> QED BY <2>1, <4>1, ThresholdFacts
    <3>2. PICK i \in rows : TRUE
      BY <2>1, <3>1
    <3>3. {} \in SUBSET rows /\ i \notin {}
      OBVIOUS
    <3>4. Cardinality({}) < m /\ Cardinality({}) = 0
      BY <2>3, <3>2, <3>3, ProperSubset, FS_EmptySet
    <3>5. m \in 0..N /\ N \in Nat
      BY <2>3, RowsFinite
    <3> QED BY <3>4, <3>5 DEF Rows
  <2>6. ASSUME m + 1 \in Rows PROVE caught(m + 1) \in {caught(m), caught(m) + 1}
    <3>1. /\ m \in 0..N /\ m + 1 \in 0..N /\ m \in Nat
      BY <2>5, <2>6, PolicyAssumption DEF Rows
    <3> DEFINE few == TopRows(m)
               many == TopRows(m + 1)
    <3>2. /\ few \in SUBSET Rows /\ many \in SUBSET Rows
          /\ Cardinality(few) = m /\ Cardinality(many) = m + 1
      BY <2>1, <3>1, TopRowsSize
    <3>3. few \in SUBSET many
      <4>1. \A i \in Rows : Rank(i) \in Int
        BY <2>1, RankOrder
      <4> QED BY <3>1, <4>1, TopRowsByRank
    <3> HIDE DEF few, many, m
    <3>4. PICK x \in many : x \notin few
      BY <3>1, <3>2, <3>3
    <3>5. Cardinality(few \cup {x}) = m + 1 /\ few \cup {x} \in SUBSET many
      BY <3>1, <3>2, <3>3, <3>4, RowsFinite, FS_AddElement
    <3>6. many = few \cup {x}
      BY <3>2, <3>5, SubsetSize
    <3>7. CASE x \in fraud
      <4>1. many \cap fraud = (few \cap fraud) \cup {x} /\ x \notin few \cap fraud
        BY <3>4, <3>6, <3>7
      <4>2. IsFiniteSet(few \cap fraud)
        BY <3>2, RowsFinite
      <4>3. Cardinality(many \cap fraud) = Cardinality(few \cap fraud) + 1
        BY <4>1, <4>2, FS_AddElement
      <4> QED BY <4>3 DEF few, many
    <3>8. CASE x \notin fraud
      <4>1. many \cap fraud = few \cap fraud
        BY <3>6, <3>8
      <4> QED BY <4>1 DEF few, many
    <3> QED BY <3>7, <3>8
  <2>7. FlatCaptures(built[p]) = {caught(n) : n \in {m, m + 1} \cap Rows}
    BY DEF FlatCaptures, FlatBudgets, rows
  <2>8. Cardinality(Intervened(built[p]) \cap fraud) = caught(m)
    BY <2>4 DEF rows
  <2> HIDE DEF m, caught
  <2> QED BY <2>5, <2>6, <2>7, <2>8
<1> QED BY <1>1, InvariantHolds, PTL
=============================================================================
