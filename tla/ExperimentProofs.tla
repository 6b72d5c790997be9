-------------------------- MODULE ExperimentProofs --------------------------
(***************************************************************************)
(* Theorems about the experiment, for every dataset, split, set of jobs and *)
(* plan: the chronological split is an exact, ordered partition that the    *)
(* scripts' own verification never refuses; no decision depends on the test *)
(* partition except through the sampled types and ties at the cut; the      *)
(* warm-started simulation sees the history the offline features summarise; *)
(* unless training was raced there is one model; and unless phase 5 was, no *)
(* policy is older than the metrics saved for it.                           *)
(***************************************************************************)
EXTENDS ExperimentPipeline, FiniteSetTheorems, SequenceTheorems, TLAPS

-----------------------------------------------------------------------------
(* The columns of a dataset. *)
LEMMA DatasetColumns ==
  ASSUME NEW d \in Datasets
  PROVE  /\ d.n \in Nat
         /\ d.time \in [Rows(d) -> Nat]
         /\ d.id \in [Rows(d) -> Nat]
         /\ d.card \in [Rows(d) -> Nat]
         /\ Rows(d) = 1..d.n
  BY DEF Datasets, DatasetsOf, Rows

LEMMA RowsFinite ==
  ASSUME NEW d \in Datasets
  PROVE  IsFiniteSet(Rows(d)) /\ Cardinality(Rows(d)) = d.n
<1>1. d.n \in Nat /\ Rows(d) = 1..d.n
  BY DatasetColumns
<1>2. 1 \in Int /\ d.n \in Int
  BY <1>1
<1> QED BY <1>1, <1>2, FS_Interval

-----------------------------------------------------------------------------
(* The position of a row in time order. *)

LEMMA PositionType ==
  ASSUME NEW d \in Datasets, NEW r \in Rows(d)
  PROVE  Position(d, r) \in Nat /\ Position(d, r) < d.n
<1> DEFINE earlier == {q \in Rows(d) : Before(d, q, r)}
<1>1. earlier \in SUBSET Rows(d)
  OBVIOUS
<1>2. IsFiniteSet(Rows(d)) /\ Cardinality(Rows(d)) = d.n
  BY RowsFinite
<1>3. /\ IsFiniteSet(earlier)
      /\ Cardinality(earlier) <= d.n
      /\ d.n = Cardinality(earlier) => Rows(d) = earlier
  BY <1>1, <1>2, FS_Subset
<1>4. Cardinality(earlier) \in Nat
  BY <1>3, FS_CardinalityType
<1>5. r \notin earlier
  BY DatasetColumns DEF Before
<1>6. Cardinality(earlier) # d.n
  BY <1>3, <1>5
<1> QED BY <1>3, <1>4, <1>6, DatasetColumns DEF Position

(* Sorting by time, ties in file order, is a strict total order of the rows, *)
(* and positions follow it (sort_values with kind="mergesort").             *)
LEMMA BeforeIsTotal ==
  ASSUME NEW d \in Datasets, NEW q \in Rows(d), NEW r \in Rows(d), q # r
  PROVE  Before(d, q, r) \/ Before(d, r, q)
  BY DatasetColumns DEF Before

LEMMA PositionFollowsOrder ==
  ASSUME NEW d \in Datasets, NEW q \in Rows(d), NEW r \in Rows(d), Before(d, q, r)
  PROVE  Position(d, q) < Position(d, r)
<1> DEFINE lower == {x \in Rows(d) : Before(d, x, q)}
           upper == {x \in Rows(d) : Before(d, x, r)}
<1>1. lower \in SUBSET upper
  BY DatasetColumns DEF Before
<1>2. q \in upper /\ q \notin lower
  BY DatasetColumns DEF Before
<1>3. IsFiniteSet(upper)
  <2>1. upper \in SUBSET Rows(d)
    OBVIOUS
  <2> QED BY <2>1, RowsFinite, FS_Subset
<1>4. /\ Cardinality(lower) <= Cardinality(upper)
      /\ Cardinality(upper) = Cardinality(lower) => upper = lower
  BY <1>1, <1>3, FS_Subset
<1>5. Cardinality(lower) = Position(d, q) /\ Cardinality(upper) = Position(d, r)
  BY DEF Position
<1>6. Position(d, q) # Position(d, r)
  BY <1>2, <1>4, <1>5
<1> HIDE DEF lower, upper
<1> QED BY <1>4, <1>5, <1>6, PositionType

(* A row that is sorted earlier is no later in time. *)
LEMMA PositionOrdersTime ==
  ASSUME NEW d \in Datasets, NEW q \in Rows(d), NEW r \in Rows(d),
         Position(d, q) < Position(d, r)
  PROVE  d.time[q] <= d.time[r]
<1>1. q # r
  BY PositionType
<1>2. ~Before(d, r, q)
  BY PositionFollowsOrder, PositionType
<1>3. Before(d, q, r)
  BY <1>1, <1>2, BeforeIsTotal
<1> QED BY <1>3, DatasetColumns DEF Before

-----------------------------------------------------------------------------
(* The cuts. *)

LEMMA ProductMonotone ==
  ASSUME NEW n \in Nat, NEW a \in Nat, NEW b \in Nat, a <= b
  PROVE  n * a <= n * b
<1>1. PICK k \in Nat : b = a + k
  <2>1. b - a \in Nat /\ b = a + (b - a)
    OBVIOUS
  <2> QED BY <2>1
<1>2. n * b = n * a + n * k
  BY <1>1
<1>3. n * k \in Nat /\ n * a \in Nat /\ n * b \in Nat
  BY <1>1
<1> QED BY <1>2, <1>3

LEMMA ProductGrows ==
  ASSUME NEW n \in Nat, NEW a \in Nat, NEW b \in Nat, n # 0, a < b
  PROVE  n * a < n * b
<1>1. PICK k \in Nat : b = (a + 1) + k
  <2>1. b - (a + 1) \in Nat /\ b = (a + 1) + (b - (a + 1))
    OBVIOUS
  <2> QED BY <2>1
<1>2. n * (a + 1) <= n * b
  BY <1>1, ProductMonotone
<1>3. n * (a + 1) = n * a + n
  OBVIOUS
<1>4. n * a \in Nat /\ n * b \in Nat
  OBVIOUS
<1> QED BY <1>2, <1>3, <1>4

(* A cut loses at most one row of the exact share. *)
LEMMA CutBounds ==
  ASSUME NEW n \in Nat, NEW share \in Nat, NEW short \in BOOLEAN
  PROVE  /\ Cut(n, share, short) \in Nat
         /\ 100 * Cut(n, share, short) <= n * share
         /\ n * share <= 100 * Cut(n, share, short) + 100
<1> DEFINE x == n * share
<1>1. x \in Nat
  OBVIOUS
<1>2. Cut(n, share, short) = IF short /\ x \div 100 > 0 /\ x % 100 = 0
                             THEN x \div 100 - 1 ELSE x \div 100
  BY DEF Cut
<1> HIDE DEF x
<1>3. PICK k \in Nat, m \in 0..99 : x = 100 * k + m /\ x \div 100 = k /\ x % 100 = m
  BY <1>1
<1>4. Cut(n, share, short) = IF short /\ k > 0 /\ m = 0 THEN k - 1 ELSE k
  BY <1>2, <1>3
<1>5. /\ Cut(n, share, short) \in Nat
      /\ 100 * Cut(n, share, short) <= x /\ x <= 100 * Cut(n, share, short) + 100
  BY <1>3, <1>4
<1> QED BY <1>5 DEF x

(* int(n * ratio) puts the cuts in order and inside the file, each at most  *)
(* one row short.                                                           *)
LEMMA CutsOrdered ==
  ASSUME NEW d \in Datasets, NEW c \in Configs, c.train + c.val + c.test = 100
  PROVE  /\ TrainEnd(d, c) \in Nat
         /\ ValEnd(d, c) \in Nat
         /\ TrainEnd(d, c) <= ValEnd(d, c)
         /\ ValEnd(d, c) <= d.n
         /\ 100 * TrainEnd(d, c) <= d.n * c.train
         /\ d.n * c.train <= 100 * TrainEnd(d, c) + 100
         /\ 100 * ValEnd(d, c) <= d.n * (c.train + c.val)
         /\ d.n * (c.train + c.val) <= 100 * ValEnd(d, c) + 100
<1> DEFINE n == d.n
           a == c.train
           b == c.train + c.val
           s == "train" \in c.short
           t == "val" \in c.short
<1>1. /\ n \in Nat /\ a \in Nat /\ b \in Nat /\ a <= b /\ b <= 100
      /\ s \in BOOLEAN /\ t \in BOOLEAN /\ (a = b => s = t)
  BY DatasetColumns DEF Configs
<1>2. TrainEnd(d, c) = Cut(n, a, s) /\ ValEnd(d, c) = Cut(n, b, t)
  BY DEF TrainEnd, ValEnd
<1> HIDE DEF n, a, b, s, t
<1>3. n * a <= n * b /\ n * b <= n * 100
  BY <1>1, ProductMonotone
<1>3a. /\ Cut(n, a, s) \in Nat
       /\ 100 * Cut(n, a, s) <= n * a /\ n * a <= 100 * Cut(n, a, s) + 100
  <2>1. n \in Nat /\ a \in Nat /\ s \in BOOLEAN
    BY <1>1
  <2> QED BY ONLY <2>1, CutBounds, Zenon
<1>3b. /\ Cut(n, b, t) \in Nat
       /\ 100 * Cut(n, b, t) <= n * b /\ n * b <= 100 * Cut(n, b, t) + 100
  <2>1. n \in Nat /\ b \in Nat /\ t \in BOOLEAN
    BY <1>1
  <2> QED BY ONLY <2>1, CutBounds, Zenon
<1> DEFINE x == n * a
           y == n * b
<1>4. x \in Nat /\ y \in Nat /\ x <= y /\ y <= 100 * n
  BY <1>1, <1>3
<1>5. /\ Cut(n, a, s) = IF s /\ x \div 100 > 0 /\ x % 100 = 0
                        THEN x \div 100 - 1 ELSE x \div 100
      /\ Cut(n, b, t) = IF t /\ y \div 100 > 0 /\ y % 100 = 0
                        THEN y \div 100 - 1 ELSE y \div 100
  BY DEF Cut
<1>6. x = y => n = 0 \/ a = b
  BY <1>1, ProductGrows
<1>7. n = 0 => y = 0
  BY <1>1
<1>8. /\ Cut(n, a, s) \in Nat /\ 100 * Cut(n, a, s) <= x /\ x <= 100 * Cut(n, a, s) + 100
      /\ Cut(n, b, t) \in Nat /\ 100 * Cut(n, b, t) <= y /\ y <= 100 * Cut(n, b, t) + 100
  BY <1>3a, <1>3b DEF x, y
<1> HIDE DEF x, y
<1>9x. PICK k \in Nat, m \in 0..99 : x = 100 * k + m /\ x \div 100 = k /\ x % 100 = m
  BY <1>4
<1>9y. PICK l \in Nat, o \in 0..99 : y = 100 * l + o /\ y \div 100 = l /\ y % 100 = o
  BY <1>4
<1>9. /\ x = 100 * k + m /\ x \div 100 = k /\ x % 100 = m
      /\ y = 100 * l + o /\ y \div 100 = l /\ y % 100 = o
  BY <1>9x, <1>9y
<1>10. Cut(n, a, s) <= Cut(n, b, t)
  <2>1. /\ Cut(n, a, s) = IF s /\ k > 0 /\ m = 0 THEN k - 1 ELSE k
        /\ Cut(n, b, t) = IF t /\ l > 0 /\ o = 0 THEN l - 1 ELSE l
    BY <1>5, <1>9
  <2>2. CASE t /\ l > 0 /\ o = 0 /\ k = l
    <3>1. x = y /\ m = 0
      BY <1>4, <1>9, <2>2
    <3>2. a = b
      BY <1>4, <1>6, <1>7, <1>9, <2>2, <3>1
    <3> QED BY <1>1, <2>1, <2>2, <3>1, <3>2
  <2>3. CASE ~(t /\ l > 0 /\ o = 0 /\ k = l)
    BY <1>4, <1>9, <2>1, <2>3
  <2> QED BY <2>2, <2>3
<1>11. Cut(n, b, t) <= n
  BY <1>1, <1>4, <1>8
<1> QED BY <1>2, <1>8, <1>10, <1>11 DEF x, y, n, a, b

(* Every position from 0 to n - 1 is taken, once. *)
LEMMA PositionsFill ==
  ASSUME NEW d \in Datasets
  PROVE  [r \in Rows(d) |-> Position(d, r)] \in Bijection(Rows(d), 0..(d.n - 1))
<1> DEFINE p == [r \in Rows(d) |-> Position(d, r)]
           T == 0..(d.n - 1)
<1>1. d.n \in Nat
  BY DatasetColumns
<1>2. p \in [Rows(d) -> T]
  BY <1>1, PositionType
<1>3. \A q, r \in Rows(d) : Position(d, q) = Position(d, r) => q = r
  BY PositionType, PositionFollowsOrder, BeforeIsTotal
<1>4. p \in Injection(Rows(d), T)
  BY <1>2, <1>3 DEF Injection, IsInjective
<1>5. IsFiniteSet(T) /\ Cardinality(T) = d.n
  <2>1. 0 \in Int /\ d.n - 1 \in Int
    BY <1>1
  <2>2. IsFiniteSet(T) /\ Cardinality(T) = IF 0 > d.n - 1 THEN 0 ELSE (d.n - 1) - 0 + 1
    BY <2>1, FS_Interval
  <2> QED BY <1>1, <2>2
<1>6. p \in Surjection(Rows(d), T)
  BY <1>4, <1>5, RowsFinite, FS_Injection
<1> QED BY <1>4, <1>6 DEF Bijection

\* The rows whose position lies between two cuts ...
Slice(d, a, b) == {r \in Rows(d) : a <= Position(d, r) /\ Position(d, r) < b}

(* ... are as many as the cuts are apart.                                   *)
LEMMA SliceSizes ==
  ASSUME NEW d \in Datasets, NEW a \in Nat, NEW b \in Nat, a <= b, b <= d.n
  PROVE  IsFiniteSet(Slice(d, a, b)) /\ Cardinality(Slice(d, a, b)) = b - a
<1> DEFINE S == {r \in Rows(d) : a <= Position(d, r) /\ Position(d, r) < b}
           p == [r \in Rows(d) |-> Position(d, r)]
           g == [r \in S |-> Position(d, r)]
           T == a..(b - 1)
<1>1. d.n \in Nat
  BY DatasetColumns
<1>2. p \in Bijection(Rows(d), 0..(d.n - 1))
  BY PositionsFill
<1>3. g \in [S -> T]
  BY PositionType
<1>4. \A q, r \in S : g[q] = g[r] => q = r
  <2> TAKE q, r \in S
  <2>1. g[q] = p[q] /\ g[r] = p[r]
    OBVIOUS
  <2>2. p[q] = p[r] => q = r
    BY <1>2 DEF Bijection, Injection, IsInjective
  <2> QED BY <2>1, <2>2
<1>5. \A k \in T : \E r \in S : g[r] = k
  <2> TAKE k \in T
  <2>1. k \in 0..(d.n - 1)
    BY <1>1
  <2>2. PICK r \in Rows(d) : p[r] = k
    BY <1>2, <2>1 DEF Bijection, Surjection
  <2>3. Position(d, r) = k
    BY <2>2
  <2>4. a <= k /\ k < b
    OBVIOUS
  <2>5. r \in S
    BY <2>2, <2>3, <2>4
  <2> QED BY <2>3, <2>5
<1>6. g \in Bijection(S, T)
  BY <1>3, <1>4, <1>5 DEF Bijection, Injection, Surjection, IsInjective
<1>7. IsFiniteSet(S)
  <2>1. S \in SUBSET Rows(d)
    OBVIOUS
  <2> QED BY <2>1, RowsFinite, FS_Subset
<1> HIDE DEF g, S
<1>8. Cardinality(T) = Cardinality(S)
  <2>1. ExistsBijection(S, T)
    BY <1>6 DEF ExistsBijection
  <2> QED BY <1>7, <2>1, FS_Bijection
<1>9. Cardinality(T) = b - a
  <2>1. a \in Int /\ b - 1 \in Int
    OBVIOUS
  <2>2. Cardinality(T) = IF a > b - 1 THEN 0 ELSE (b - 1) - a + 1
    BY <2>1, FS_Interval
  <2> QED BY <2>2
<1> QED BY <1>7, <1>8, <1>9 DEF S, Slice

-----------------------------------------------------------------------------
(* The partitions. *)

(* Three disjoint parts that cover the file, cut at most one row short of   *)
(* the shares asked for, whatever the order of the file, the ties in it and *)
(* the rounding of the ratios (compute_temporal_split).                     *)
THEOREM SplitIsAPartition ==
  ASSUME NEW d \in Datasets, NEW c \in Configs, c.train + c.val + c.test = 100
  PROVE  /\ Train(d, c) \cup Validation(d, c) \cup Test(d, c) = Rows(d)
         /\ Train(d, c) \cap Validation(d, c) = {}
         /\ Train(d, c) \cap Test(d, c) = {}
         /\ Validation(d, c) \cap Test(d, c) = {}
         /\ SizesAsAsked(d, c)
<1> DEFINE te == TrainEnd(d, c)
           ve == ValEnd(d, c)
<1>1. te \in Nat /\ ve \in Nat /\ te <= ve /\ ve <= d.n /\ d.n \in Nat
  BY CutsOrdered, DatasetColumns
<1>2. \A r \in Rows(d) : Position(d, r) \in Nat /\ Position(d, r) < d.n
  BY PositionType
<1> HIDE DEF te, ve
<1>3. /\ Train(d, c) = Slice(d, 0, te)
      /\ Validation(d, c) = Slice(d, te, ve)
      /\ Test(d, c) = Slice(d, ve, d.n)
  BY <1>1, <1>2 DEF Train, Validation, Test, Slice, te, ve
<1>4. /\ Cardinality(Slice(d, 0, te)) = te - 0
      /\ Cardinality(Slice(d, te, ve)) = ve - te
      /\ Cardinality(Slice(d, ve, d.n)) = d.n - ve
  BY <1>1, SliceSizes
<1>5. SizesAsAsked(d, c)
  <2>1. /\ Cardinality(Train(d, c)) = te
        /\ te + Cardinality(Validation(d, c)) = ve
        /\ ve + Cardinality(Test(d, c)) = d.n
    BY <1>1, <1>3, <1>4
  <2>2. /\ 100 * te <= d.n * c.train /\ d.n * c.train <= 100 * te + 100
        /\ 100 * ve <= d.n * (c.train + c.val) /\ d.n * (c.train + c.val) <= 100 * ve + 100
    BY CutsOrdered DEF te, ve
  <2> QED BY <2>1, <2>2 DEF SizesAsAsked
<1>6. /\ Slice(d, 0, te) \cup Slice(d, te, ve) \cup Slice(d, ve, d.n) = Rows(d)
      /\ Slice(d, 0, te) \cap Slice(d, te, ve) = {}
      /\ Slice(d, 0, te) \cap Slice(d, ve, d.n) = {}
      /\ Slice(d, te, ve) \cap Slice(d, ve, d.n) = {}
  BY <1>1, <1>2 DEF Slice
<1> QED BY <1>3, <1>5, <1>6

(* Rows of an earlier partition are sorted before rows of a later one.      *)
LEMMA PartitionsOrdered ==
  ASSUME NEW d \in Datasets, NEW c \in Configs, c.train + c.val + c.test = 100
  PROVE  /\ \A q \in Train(d, c), r \in Validation(d, c) : Position(d, q) < Position(d, r)
         /\ \A q \in Validation(d, c), r \in Test(d, c) : Position(d, q) < Position(d, r)
         /\ \A q \in Train(d, c), r \in Test(d, c) : Position(d, q) < Position(d, r)
<1>1. \A r \in Rows(d) : Position(d, r) \in Nat
  BY PositionType
<1> QED BY <1>1, CutsOrdered DEF Train, Validation, Test

LEMMA PartitionsChronological ==
  ASSUME NEW d \in Datasets, NEW c \in Configs, c.train + c.val + c.test = 100
  PROVE  /\ NoLater(d, Train(d, c), Validation(d, c))
         /\ NoLater(d, Validation(d, c), Test(d, c))
         /\ NoLater(d, Train(d, c), Test(d, c))
<1>1. /\ Train(d, c) \subseteq Rows(d)
      /\ Validation(d, c) \subseteq Rows(d)
      /\ Test(d, c) \subseteq Rows(d)
  BY DEF Train, Validation, Test
<1> QED BY <1>1, PartitionsOrdered, PositionOrdersTime DEF NoLater

(* Identifiers of different rows differ in a file the loader accepts, so    *)
(* that those of disjoint parts are disjoint and finite.                    *)
LEMMA IdsOfDisjointParts ==
  ASSUME NEW d \in Datasets, Loadable(d), NEW S \in SUBSET Rows(d), NEW T \in SUBSET Rows(d),
         S \cap T = {}
  PROVE  Ids(d, S) \cap Ids(d, T) = {}
  BY DEF Ids, Loadable

LEMMA IdsFinite ==
  ASSUME NEW d \in Datasets, NEW S \in SUBSET Rows(d)
  PROVE  IsFiniteSet(Ids(d, S)) /\ Cardinality(Ids(d, S)) \in Nat
<1> DEFINE f == [r \in S |-> d.id[r]]
<1>1. f \in Surjection(S, Ids(d, S))
  BY DEF Surjection, Ids
<1>2. IsFiniteSet(S)
  BY RowsFinite, FS_Subset
<1>3. IsFiniteSet(Ids(d, S))
  BY <1>1, <1>2, FS_Surjection
<1> QED BY <1>3, FS_CardinalityType

(* verify_split, which every training script asserts, cannot refuse a split *)
(* of a file the loader accepted: neither the identifier checks, nor the    *)
(* ordering checks across a tie at the cut, nor the count.                  *)
THEOREM VerificationNeverRefuses ==
  ASSUME NEW d \in Datasets, NEW c \in Configs,
         Loadable(d), c.train + c.val + c.test = 100
  PROVE  Verified(d, c)
<1> DEFINE tr == Train(d, c)
           va == Validation(d, c)
           te == Test(d, c)
<1>1. tr \in SUBSET Rows(d) /\ va \in SUBSET Rows(d) /\ te \in SUBSET Rows(d)
  BY DEF Train, Validation, Test
<1>2. tr \cap va = {} /\ va \cap te = {} /\ tr \cap te = {}
  BY SplitIsAPartition
<1>3. NoLater(d, tr, va) /\ NoLater(d, va, te)
  BY PartitionsChronological
<1> HIDE DEF tr, va, te
<1>4. /\ Ids(d, tr) \cap Ids(d, va) = {}
      /\ Ids(d, va) \cap Ids(d, te) = {}
      /\ Ids(d, tr) \cap Ids(d, te) = {}
  BY <1>1, <1>2, IdsOfDisjointParts
<1>5. /\ IsFiniteSet(Ids(d, tr)) /\ Cardinality(Ids(d, tr)) \in Nat
      /\ IsFiniteSet(Ids(d, va)) /\ Cardinality(Ids(d, va)) \in Nat
      /\ IsFiniteSet(Ids(d, te)) /\ Cardinality(Ids(d, te)) \in Nat
  BY <1>1, IdsFinite
<1> DEFINE A == Ids(d, tr)
           B == Ids(d, va)
           C == Ids(d, te)
<1> HIDE DEF A, B, C
<1>6. /\ IsFiniteSet(A \cup B)
      /\ Cardinality(A \cup B) = Cardinality(A) + Cardinality(B) - Cardinality(A \cap B)
  BY <1>5, FS_Union DEF A, B
<1>7. Cardinality((A \cup B) \cup C)
        = Cardinality(A \cup B) + Cardinality(C) - Cardinality((A \cup B) \cap C)
  BY <1>5, <1>6, FS_Union DEF C
<1>8. A \cap B = {} /\ (A \cup B) \cap C = {}
  BY <1>4 DEF A, B, C
<1>9. Cardinality({}) = 0
  BY FS_EmptySet
<1>10. Cardinality(A) + Cardinality(B) + Cardinality(C) = Cardinality(A \cup B \cup C)
  <2>1. Cardinality(A) \in Nat /\ Cardinality(B) \in Nat /\ Cardinality(C) \in Nat
    BY <1>5 DEF A, B, C
  <2>2. Cardinality(A \cap B) = 0 /\ Cardinality((A \cup B) \cap C) = 0
    BY <1>8, <1>9, Zenon
  <2>3. Cardinality(A \cup B) = Cardinality(A) + Cardinality(B)
    BY <1>6, <2>1, <2>2
  <2>4. Cardinality((A \cup B) \cup C) = Cardinality(A \cup B) + Cardinality(C)
    BY <1>7, <2>1, <2>2, <2>3
  <2> QED BY <2>3, <2>4
<1> QED BY <1>3, <1>4, <1>10 DEF Verified, tr, va, te, A, B, C

-----------------------------------------------------------------------------
(* What the decisions depend on. *)

(* A row of an earlier partition summarises a test row only when the two    *)
(* are tied across the cut, with the test row's identifier the smaller one. *)
LEMMA TestIsReachedThroughTies ==
  ASSUME NEW d \in Datasets, NEW c \in Configs, c.train + c.val + c.test = 100,
         NEW q \in Train(d, c) \cup Validation(d, c), NEW r \in Test(d, c),
         r \in Prior(d, q)
  PROVE  ThroughTie(d, c, r)
<1>1. q \in Rows(d) /\ r \in Rows(d)
  BY DEF Train, Validation, Test
<1>2. d.time[q] <= d.time[r]
  BY PartitionsChronological DEF NoLater
<1>3. d.card[r] = d.card[q] /\ Earlier(d, r, q)
  BY DEF Prior
<1>4. d.time[q] \in Nat /\ d.time[r] \in Nat
  BY <1>1, DatasetColumns
<1>5. d.time[r] = d.time[q] /\ d.id[r] < d.id[q]
  BY <1>2, <1>3, <1>4 DEF Earlier
<1> QED BY <1>3, <1>5 DEF ThroughTie

(* A cell of the test partition that a schema, model, threshold, policy or  *)
(* drift reference depends on is one whose type was sampled, or the columns *)
(* of a row that is tied with one before the cut.                           *)
THEOREM DecisionsReadNoTestRow ==
  ASSUME NEW d \in Datasets, NEW c \in Configs, c.train + c.val + c.test = 100,
         NEW f \in Saved \ {"registry"},
         NEW cell \in DecidedFrom(f, d, c) \cap Cells(Test(d, c))
  PROVE  \/ cell \in SampleCells(d)
         \/ cell[2] = "x" /\ ThroughTie(d, c, cell[1])
<1> DEFINE tr == Train(d, c)
           va == Validation(d, c)
           te == Test(d, c)
           widest == SampleCells(d) \cup Cells(tr) \cup Cells(va)
                       \cup Raw(UNION {Prior(d, q) : q \in tr \cup va})
<1>1. DecidedFrom(f, d, c) \subseteq widest
  BY DEF Saved, DecidedFrom, SchemaReads, PreprocessorReads, LogRegReads, LogRegChoiceReads,
         LightGBMReads, DetectorReads, DetectorChoiceReads, ModelBReads, PolicyReads,
         ProfileReads, Behavioral, Raw, Labels, Cells
<1>2. cell \in widest /\ cell \in Cells(te)
  BY <1>1
<1>3. tr \cap te = {} /\ va \cap te = {}
  BY SplitIsAPartition
<1>4. cell[1] \in te
  BY <1>2 DEF Cells
<1>5. cell \in SampleCells(d) \/ cell \in Raw(UNION {Prior(d, q) : q \in tr \cup va})
  BY <1>2, <1>3, <1>4 DEF Cells
<1>6. CASE cell \in Raw(UNION {Prior(d, q) : q \in tr \cup va})
  <2>1. cell[2] = "x" /\ cell[1] \in UNION {Prior(d, q) : q \in tr \cup va}
    BY <1>6 DEF Raw
  <2>2. PICK q \in tr \cup va : cell[1] \in Prior(d, q)
    BY <2>1
  <2>3. ThroughTie(d, c, cell[1])
    BY <1>4, <2>2, TestIsReachedThroughTies
  <2> QED BY <2>1, <2>3
<1> QED BY <1>5, <1>6

(* An engine warm-started on the training and validation rows has seen, at  *)
(* each simulated test row, what the offline features summarise; what it    *)
(* has seen beyond that is tied with the row across the cut.                *)
THEOREM WarmStartGivesOfflineHistory ==
  ASSUME NEW d \in Datasets, NEW c \in Configs,
         Loadable(d), c.train + c.val + c.test = 100
  PROVE  SameHistory(d, c)
<1> DEFINE tr == Train(d, c)
           va == Validation(d, c)
           te == Test(d, c)
<1> SUFFICES ASSUME NEW r \in Simulated(d, c, SliceSize)
             PROVE  /\ Prior(d, r) \subseteq OnlinePrior(d, c, SliceSize, r)
                    /\ \A q \in OnlinePrior(d, c, SliceSize, r) \ Prior(d, r) :
                         d.time[q] = d.time[r] /\ d.id[r] < d.id[q]
  BY DEF SameHistory
<1>1. r \in te /\ Cardinality({q \in te : Earlier(d, q, r)}) < SliceSize
  BY DEF Simulated
<1>2. tr \subseteq Rows(d) /\ va \subseteq Rows(d) /\ te \subseteq Rows(d)
  BY DEF Train, Validation, Test
<1>3. tr \cup va \cup te = Rows(d)
  BY SplitIsAPartition
<1>4. NoLater(d, va, te) /\ NoLater(d, tr, te)
  BY PartitionsChronological
<1>5. \A q \in Rows(d) : d.time[q] \in Nat /\ d.id[q] \in Nat
  BY DatasetColumns
<1>6. ASSUME NEW q \in te, Earlier(d, q, r)
      PROVE  q \in Simulated(d, c, SliceSize)
  <2> DEFINE lower == {x \in te : Earlier(d, x, q)}
             upper == {x \in te : Earlier(d, x, r)}
  <2>1. lower \in SUBSET upper
    BY <1>1, <1>2, <1>5, <1>6 DEF Earlier
  <2>2. upper \in SUBSET Rows(d)
    BY <1>2
  <2>3. IsFiniteSet(upper)
    BY <2>2, RowsFinite, FS_Subset
  <2>4. IsFiniteSet(lower) /\ Cardinality(lower) <= Cardinality(upper)
    BY <2>1, <2>3, FS_Subset
  <2>5. Cardinality(lower) \in Nat /\ Cardinality(upper) \in Nat
    BY <2>3, <2>4, FS_CardinalityType
  <2>6. Cardinality(upper) < SliceSize
    BY <1>1
  <2> HIDE DEF lower, upper
  <2>7. Cardinality(lower) < SliceSize
    BY <2>4, <2>5, <2>6, BoundsAssumption
  <2> QED BY <1>6, <2>7 DEF Simulated, lower
<1>7. Prior(d, r) \subseteq OnlinePrior(d, c, SliceSize, r)
  <2> SUFFICES ASSUME NEW q \in Prior(d, r)
               PROVE  q \in OnlinePrior(d, c, SliceSize, r)
    OBVIOUS
  <2>1. q \in Rows(d) /\ d.card[q] = d.card[r] /\ Earlier(d, q, r)
    BY DEF Prior
  <2>2. CASE q \in tr \cup va
    BY <2>1, <2>2 DEF OnlinePrior
  <2>3. CASE q \in te
    BY <1>6, <2>1, <2>3 DEF OnlinePrior
  <2> QED BY <1>3, <2>1, <2>2, <2>3
<1>8. ASSUME NEW q \in OnlinePrior(d, c, SliceSize, r) \ Prior(d, r)
      PROVE  d.time[q] = d.time[r] /\ d.id[r] < d.id[q]
  <2>1. q \in tr \cup va /\ d.card[q] = d.card[r] /\ ~Earlier(d, q, r)
    BY <1>2 DEF OnlinePrior, Prior, Simulated
  <2>2. d.time[q] <= d.time[r]
    BY <1>1, <1>4, <2>1 DEF NoLater
  <2>3. q # r
    BY <1>1, <2>1, SplitIsAPartition
  <2>4. q \in Rows(d) /\ r \in Rows(d)
    BY <1>1, <1>2, <2>1
  <2>5. d.id[q] # d.id[r]
    BY <2>3, <2>4 DEF Loadable
  <2> QED BY <1>5, <2>1, <2>2, <2>4, <2>5 DEF Earlier
<1> QED BY <1>7, <1>8

(* Where ties follow the identifiers no row reads a row of a later          *)
(* partition: what the documentation says of the behavioural features holds *)
(* for such files, and fails for others only by ties at a cut.              *)
THEOREM OrderedTiesKeepPartitionsApart ==
  ASSUME NEW d \in Datasets, NEW c \in Configs,
         TiesFollowIds(d), c.train + c.val + c.test = 100
  PROVE  NoLaterRowRead(d, c)
<1>1. ASSUME NEW q \in Rows(d), NEW r \in Rows(d), Position(d, r) < Position(d, q)
      PROVE  ~Earlier(d, q, r)
  <2>1. ~Before(d, q, r) /\ q # r
    BY <1>1, PositionFollowsOrder, PositionType
  <2>2. Before(d, r, q)
    BY <2>1, BeforeIsTotal
  <2> QED BY <2>2, DatasetColumns DEF Before, Earlier, TiesFollowIds
<1>2. /\ Train(d, c) \subseteq Rows(d)
      /\ Validation(d, c) \subseteq Rows(d)
      /\ Test(d, c) \subseteq Rows(d)
      /\ Rows(d) = Train(d, c) \cup Validation(d, c) \cup Test(d, c)
  BY SplitIsAPartition
<1>3. \A r \in Train(d, c) : Prior(d, r) \subseteq Train(d, c)
  <2> SUFFICES ASSUME NEW r \in Train(d, c), NEW q \in Prior(d, r), q \notin Train(d, c)
               PROVE  FALSE
    OBVIOUS
  <2>1. q \in Validation(d, c) \cup Test(d, c) /\ Earlier(d, q, r)
    BY <1>2 DEF Prior
  <2>2. Position(d, r) < Position(d, q)
    BY <2>1, PartitionsOrdered
  <2> QED BY <1>1, <1>2, <2>1, <2>2
<1>4. \A r \in Validation(d, c) : Prior(d, r) \cap Test(d, c) = {}
  <2> SUFFICES ASSUME NEW r \in Validation(d, c), NEW q \in Prior(d, r), q \in Test(d, c)
               PROVE  FALSE
    OBVIOUS
  <2>1. Earlier(d, q, r)
    BY DEF Prior
  <2>2. Position(d, r) < Position(d, q)
    BY PartitionsOrdered
  <2> QED BY <1>1, <1>2, <2>1, <2>2
<1> QED BY <1>3, <1>4 DEF NoLaterRowRead

-----------------------------------------------------------------------------
(* What a job may have in memory and a file may hold: the bases of versions *)
(* the loader and the split accepted.                                       *)

Sound == {b \in Bases : Version(b) \in Accepted}

SoundContents(f) ==
  CASE f \in {"phase6", "profile"} -> [{"bundle", "load", "policy"} -> Sound]
    [] f = "registry" -> [{"hash", "phase4", "phase5", "policy"} -> Sound \cup {Torn}]
    [] f = "mlflow" ->
         UNION {[{"hash", "phase4", "phase5"} \cup b -> Sound \cup {Torn}] :
                  b \in SUBSET {"bundle"}}
    [] OTHER -> Sound

Items == Files \cup {"config", "load", "hash"}

Held(x) ==
  CASE x = "config" -> DOMAIN Ratios
    [] x = "load" -> Sound
    [] x = "hash" -> Sound \cup {Torn}
    [] OTHER -> SoundContents(x)

Memories ==
  {m \in UNION {[D -> UNION {Held(x) : x \in Items}] : D \in SUBSET Items} :
     \A x \in DOMAIN m : m[x] \in Held(x)}

(* The steps a script is made of, what each needs to find in memory and     *)
(* what it is sure to leave there.                                          *)
LegalSteps ==
  [op : {"config"}, item : {"config"}]
    \cup [op : {"load"}, item : {"verified", "split"}]
    \cup [op : {"bundle", "train", "hash"}, item : {"bundle"}]
    \cup [op : {"read", "peek"}, item : Files]
    \cup [op : {"open", "dump"}, item : Saved]
    \cup [op : {"log"}, item : {"mlflow"}]
    \cup [op : {"serve"}, item : {"engine"}]

NeedsToSave(f) ==
  CASE f = "bundle" -> {"bundle"}
    [] f \in {"phase6", "profile"} -> {"bundle", "load", "policy"}
    [] f = "registry" -> {"hash", "phase4", "phase5", "policy"}
    [] OTHER -> {"load"}

Needs(step) ==
  CASE step.op \in {"load", "bundle", "train"} -> {"config"}
    [] step.op \in {"open", "dump"} -> NeedsToSave(step.item)
    [] step.op = "log" -> {"registry", "phase4", "phase5"}
    [] OTHER -> {}

Gives(step) ==
  CASE step.op \in {"config", "load", "hash"} -> {step.op}
    [] step.op \in {"bundle", "train"} -> {"bundle"}
    [] step.op = "read" -> {step.item}
    [] OTHER -> {}

\* Everything a step needs is in memory (D) or left there by an earlier step.
Supplied(todo, D) ==
  \A i \in 1..Len(todo) : \A x \in Needs(todo[i]) :
    x \in D \/ \E k \in 1..(i - 1) : x \in Gives(todo[k])

JobsOK ==
  /\ job \in [Jobs -> [script : DOMAIN Program \cup {"none"}, todo : Seq(LegalSteps),
                       seen : Memories]]
  /\ \A j \in Jobs :
       /\ job[j].script = "none" <=> job[j].todo = <<>>
       /\ Supplied(job[j].todo, DOMAIN job[j].seen)

FilesOK ==
  /\ file \in [Files -> Absent \cup UNION {SoundContents(f) : f \in Files}]
  /\ \A f \in Files : file[f] \in Absent \/ file[f] \in SoundContents(f)
  /\ mix \in [Saved -> SUBSET UNION {SoundContents(f) : f \in Files}]
  /\ \A f \in Saved : \A x \in mix[f] : x \in SoundContents(f)

RestOK ==
  /\ data \in DOMAIN Tables
  /\ config \in DOMAIN Ratios
  /\ revision \in 0..MaxRevisions
  /\ plan \in Seq(DOMAIN Program)
  /\ raced \in BOOLEAN
  /\ raced5 \in BOOLEAN

\* The inductive invariant.
IInv == JobsOK /\ FilesOK /\ RestOK

-----------------------------------------------------------------------------
(* Every script finds what it needs. *)

\* A piece of a script that needs D and leaves E in memory.
Provides(s, D, E) ==
  /\ s \in Seq(LegalSteps)
  /\ s # <<>>
  /\ Supplied(s, D)
  /\ \A x \in E : x \in D \/ \E k \in 1..Len(s) : x \in Gives(s[k])

LEMMA ProvidesChain ==
  ASSUME NEW s, NEW t, NEW D, NEW E, NEW D2, NEW E2, NEW E3,
         Provides(s, D, E), Provides(t, D2, E2), D2 \subseteq E, E3 \subseteq E \cup E2
  PROVE  Provides(s \o t, D, E3)
<1>1. s \in Seq(LegalSteps) /\ t \in Seq(LegalSteps) /\ s # <<>> /\ t # <<>>
  BY DEF Provides
<1>2. /\ s \o t \in Seq(LegalSteps)
      /\ Len(s \o t) = Len(s) + Len(t)
      /\ \A i \in 1..(Len(s) + Len(t)) :
           (s \o t)[i] = IF i <= Len(s) THEN s[i] ELSE t[i - Len(s)]
      /\ Len(s) \in Nat /\ Len(t) \in Nat
  BY <1>1, ConcatProperties, LenProperties
<1>3. s \o t # <<>>
  BY <1>1, <1>2
<1>4. \A k \in 1..Len(s) : k \in 1..(Len(s) + Len(t)) /\ (s \o t)[k] = s[k]
  BY <1>2
<1>5. \A k \in 1..Len(t) :
        Len(s) + k \in 1..(Len(s) + Len(t)) /\ (s \o t)[Len(s) + k] = t[k]
  BY <1>2
<1>6. \A x \in E : x \in D \/ \E k \in 1..Len(s) : x \in Gives((s \o t)[k])
  BY <1>4 DEF Provides
<1>7. Supplied(s \o t, D)
  <2> SUFFICES ASSUME NEW i \in 1..Len(s \o t), NEW x \in Needs((s \o t)[i]), x \notin D
               PROVE  \E k \in 1..(i - 1) : x \in Gives((s \o t)[k])
    BY DEF Supplied
  <2>1. CASE i <= Len(s)
    <3>1. i \in 1..Len(s) /\ x \in Needs(s[i])
      BY <1>2, <2>1
    <3>2. PICK k \in 1..(i - 1) : x \in Gives(s[k])
      BY <3>1 DEF Provides, Supplied
    <3>3. k \in 1..Len(s)
      BY <1>2, <3>1, <3>2
    <3> QED BY <1>4, <3>2, <3>3
  <2>2. CASE i > Len(s)
    <3>1. i - Len(s) \in 1..Len(t) /\ x \in Needs(t[i - Len(s)])
      BY <1>2, <2>2
    <3>2. x \in D2 \/ \E k \in 1..((i - Len(s)) - 1) : x \in Gives(t[k])
      BY <3>1 DEF Provides, Supplied
    <3>3. CASE x \in D2
      <4>1. PICK k \in 1..Len(s) : x \in Gives((s \o t)[k])
        BY <1>6, <3>3
      <4>2. k \in 1..(i - 1)
        BY <1>2, <2>2, <4>1
      <4> QED BY <4>1, <4>2
    <3>4. CASE x \notin D2
      <4>1. PICK k \in 1..((i - Len(s)) - 1) : x \in Gives(t[k])
        BY <3>2, <3>4
      <4>2. k \in 1..Len(t) /\ Len(s) + k \in 1..(i - 1)
        BY <1>2, <3>1, <4>1
      <4> QED BY <1>5, <4>1, <4>2
    <3> QED BY <3>3, <3>4
  <2> QED BY <1>2, <2>1, <2>2
<1>8. \A x \in E3 :
        x \in D \/ \E k \in 1..Len(s \o t) : x \in Gives((s \o t)[k])
  <2>1. \A x \in E : x \in D \/ \E k \in 1..Len(s \o t) : x \in Gives((s \o t)[k])
    BY <1>2, <1>4, <1>6
  <2>2. ASSUME NEW x \in E2, x \notin D2
        PROVE  \E k \in 1..Len(s \o t) : x \in Gives((s \o t)[k])
    <3>1. PICK k \in 1..Len(t) : x \in Gives(t[k])
      BY <2>2 DEF Provides
    <3> QED BY <1>2, <1>5, <3>1
  <2> QED BY <2>1, <2>2
<1> QED BY <1>2, <1>3, <1>7, <1>8 DEF Provides

LEMMA StepProvides ==
  ASSUME NEW op, NEW item, [op |-> op, item |-> item] \in LegalSteps
  PROVE  Provides(Step(op, item), Needs([op |-> op, item |-> item]),
                  Needs([op |-> op, item |-> item]) \cup Gives([op |-> op, item |-> item]))
  BY DEF Step, Provides, Supplied

LEMMA PiecesProvide ==
  /\ Provides(ReadsConfig, {}, {"config"})
  /\ Provides(LoadsData, {"config"}, {"config", "load"})
  /\ Provides(SplitsOnly, {"config"}, {"config", "load"})
  /\ Provides(UsesBundle, {"config"}, {"config", "bundle"})
  /\ Provides(Step("train", "bundle"), {"config"}, {"config", "bundle"})
  /\ Provides(Step("hash", "bundle"), {}, {"hash"})
  /\ Provides(Step("log", "mlflow"), {"registry", "phase4", "phase5"},
                {"registry", "phase4", "phase5"})
  /\ Provides(Step("serve", "engine"), {}, {})
<1> USE DEF LegalSteps, Needs, Gives, Provides, Supplied, Step
<1>1. Provides(ReadsConfig, {}, {"config"})
  BY DEF ReadsConfig
<1>2. Provides(LoadsData, {"config"}, {"config", "load"})
  BY DEF LoadsData
<1>3. Provides(SplitsOnly, {"config"}, {"config", "load"})
  BY DEF SplitsOnly
<1>4. Provides(UsesBundle, {"config"}, {"config", "bundle"})
  BY DEF UsesBundle
<1>5. Provides(Step("train", "bundle"), {"config"}, {"config", "bundle"})
  OBVIOUS
<1>6. Provides(Step("hash", "bundle"), {}, {"hash"})
  OBVIOUS
<1>7. Provides(Step("log", "mlflow"), {"registry", "phase4", "phase5"},
                 {"registry", "phase4", "phase5"})
  OBVIOUS
<1>8. Provides(Step("serve", "engine"), {}, {})
  OBVIOUS
<1> QED BY <1>1, <1>2, <1>3, <1>4, <1>5, <1>6, <1>7, <1>8

LEMMA ReadsProvide ==
  ASSUME NEW f \in Files
  PROVE  Provides(Reads(f), {}, {f}) /\ Provides(Peeks(f), {}, {})
  BY DEF Reads, Peeks, Step, LegalSteps, Needs, Gives, Provides, Supplied

LEMMA SavesProvide ==
  ASSUME NEW f \in Saved
  PROVE  Provides(Saves(f), NeedsToSave(f), NeedsToSave(f))
<1> DEFINE D == NeedsToSave(f)
<1>1. /\ [op |-> "open", item |-> f] \in LegalSteps
      /\ [op |-> "dump", item |-> f] \in LegalSteps
  BY DEF LegalSteps
<1>2. /\ Needs([op |-> "open", item |-> f]) = D
      /\ Needs([op |-> "dump", item |-> f]) = D
  BY DEF Needs
<1> HIDE DEF D
<1>3. Provides(Step("open", f), D, D) /\ Provides(Step("dump", f), D, D)
  BY <1>1, <1>2 DEF Step, Provides, Supplied
<1> QED BY <1>3, ProvidesChain DEF Saves, D

(* No script reaches a step whose inputs an earlier step of it has not       *)
(* produced.                                                                *)
LEMMA ProgramsProvide ==
  ASSUME NEW s \in DOMAIN Program
  PROVE  Provides(Program[s], {}, {})
<1>1. \A f \in Files : Provides(Reads(f), {}, {f}) /\ Provides(Peeks(f), {}, {})
  BY ReadsProvide
<1>2. \A f \in Saved : Provides(Saves(f), NeedsToSave(f), NeedsToSave(f))
  BY SavesProvide
<1>3. Provides(Phase1, {}, {})
  <2>1. Provides(ReadsConfig \o LoadsData, {}, {"config", "load"})
    BY <1>1, <1>2, PiecesProvide, ProvidesChain DEF NeedsToSave, Files, Saved
  <2>2. Provides(ReadsConfig \o LoadsData \o Saves("split_metadata"), {}, {"config", "load"})
    BY <2>1, <1>1, <1>2, PiecesProvide, ProvidesChain DEF NeedsToSave, Files, Saved
  <2> QED BY <2>2, <1>1, <1>2, PiecesProvide, ProvidesChain DEF Phase1, NeedsToSave, Files, Saved
<1>4. Provides(Phase2a, {}, {})
  <2>1. Provides(ReadsConfig \o LoadsData, {}, {"config", "load"})
    BY <1>1, <1>2, PiecesProvide, ProvidesChain DEF NeedsToSave, Files, Saved
  <2> QED BY <2>1, <1>1, <1>2, PiecesProvide, ProvidesChain DEF Phase2a, NeedsToSave, Files, Saved
<1>5. Provides(Phase2b, {}, {})
  <2>1. Provides(ReadsConfig \o LoadsData, {}, {"config", "load"})
    BY <1>1, <1>2, PiecesProvide, ProvidesChain DEF NeedsToSave, Files, Saved
  <2>2. Provides(ReadsConfig \o LoadsData \o Peeks("phase2a"), {}, {"config", "load"})
    BY <2>1, <1>1, <1>2, PiecesProvide, ProvidesChain DEF NeedsToSave, Files, Saved
  <2> QED BY <2>2, <1>1, <1>2, PiecesProvide, ProvidesChain DEF Phase2b, NeedsToSave, Files, Saved
<1>6. Provides(Phase3, {}, {})
  <2>1. Provides(ReadsConfig \o LoadsData, {}, {"config", "load"})
    BY <1>1, <1>2, PiecesProvide, ProvidesChain DEF NeedsToSave, Files, Saved
  <2>2. Provides(ReadsConfig \o LoadsData \o Peeks("phase2b"), {}, {"config", "load"})
    BY <2>1, <1>1, <1>2, PiecesProvide, ProvidesChain DEF NeedsToSave, Files, Saved
  <2> QED BY <2>2, <1>1, <1>2, PiecesProvide, ProvidesChain DEF Phase3, NeedsToSave, Files, Saved
<1>7. Provides(Phase4, {}, {})
  <2>1. Provides(ReadsConfig \o LoadsData, {}, {"config", "load"})
    BY <1>1, <1>2, PiecesProvide, ProvidesChain DEF NeedsToSave, Files, Saved
  <2>2. Provides(ReadsConfig \o LoadsData \o Peeks("phase2b"), {}, {"config", "load"})
    BY <2>1, <1>1, <1>2, PiecesProvide, ProvidesChain DEF NeedsToSave, Files, Saved
  <2> QED BY <2>2, <1>1, <1>2, PiecesProvide, ProvidesChain DEF Phase4, NeedsToSave, Files, Saved
<1>8. Provides(Phase5, {}, {})
  <2>1. Provides(ReadsConfig \o LoadsData, {}, {"config", "load"})
    BY <1>1, <1>2, PiecesProvide, ProvidesChain DEF NeedsToSave, Files, Saved
  <2>2. Provides(ReadsConfig \o LoadsData \o Peeks("phase4"), {}, {"config", "load"})
    BY <2>1, <1>1, <1>2, PiecesProvide, ProvidesChain DEF NeedsToSave, Files, Saved
  <2>3. Provides(ReadsConfig \o LoadsData \o Peeks("phase4") \o Saves("policy"), {}, {"config", "load"})
    BY <2>2, <1>1, <1>2, PiecesProvide, ProvidesChain DEF NeedsToSave, Files, Saved
  <2> QED BY <2>3, <1>1, <1>2, PiecesProvide, ProvidesChain DEF Phase5, NeedsToSave, Files, Saved
<1>9. Provides(Phase6, {}, {})
  <2>1. Provides(ReadsConfig \o UsesBundle, {}, {"config", "bundle"})
    BY <1>1, <1>2, PiecesProvide, ProvidesChain DEF NeedsToSave, Files, Saved
  <2>2. Provides(ReadsConfig \o UsesBundle \o LoadsData, {}, {"config", "bundle", "load"})
    BY <2>1, <1>1, <1>2, PiecesProvide, ProvidesChain DEF NeedsToSave, Files, Saved
  <2>3. Provides(ReadsConfig \o UsesBundle \o LoadsData \o Reads("policy"), {}, {"config", "bundle", "load", "policy"})
    BY <2>2, <1>1, <1>2, PiecesProvide, ProvidesChain DEF NeedsToSave, Files, Saved
  <2> QED BY <2>3, <1>1, <1>2, PiecesProvide, ProvidesChain DEF Phase6, NeedsToSave, Files, Saved
<1>10. Provides(Simulate, {}, {})
  <2>1. Provides(ReadsConfig \o UsesBundle, {}, {"config", "bundle"})
    BY <1>1, <1>2, PiecesProvide, ProvidesChain DEF NeedsToSave, Files, Saved
  <2>2. Provides(ReadsConfig \o UsesBundle \o SplitsOnly, {}, {"config", "bundle", "load"})
    BY <2>1, <1>1, <1>2, PiecesProvide, ProvidesChain DEF NeedsToSave, Files, Saved
  <2> QED BY <2>2, <1>1, <1>2, PiecesProvide, ProvidesChain DEF Simulate, NeedsToSave, Files, Saved
<1>11. Provides(Phase10, {}, {})
  <2>1. Provides(ReadsConfig \o UsesBundle, {}, {"config", "bundle"})
    BY <1>1, <1>2, PiecesProvide, ProvidesChain DEF NeedsToSave, Files, Saved
  <2>2. Provides(ReadsConfig \o UsesBundle \o SplitsOnly, {}, {"config", "bundle", "load"})
    BY <2>1, <1>1, <1>2, PiecesProvide, ProvidesChain DEF NeedsToSave, Files, Saved
  <2>3. Provides(ReadsConfig \o UsesBundle \o SplitsOnly \o Reads("policy"), {}, {"config", "bundle", "load", "policy"})
    BY <2>2, <1>1, <1>2, PiecesProvide, ProvidesChain DEF NeedsToSave, Files, Saved
  <2> QED BY <2>3, <1>1, <1>2, PiecesProvide, ProvidesChain DEF Phase10, NeedsToSave, Files, Saved
<1>12. Provides(Phase11, {}, {})
  <2>1. Provides(Reads("phase4") \o Reads("phase5"), {}, {"phase4", "phase5"})
    BY <1>1, <1>2, PiecesProvide, ProvidesChain DEF NeedsToSave, Files, Saved
  <2>2. Provides(Reads("phase4") \o Reads("phase5") \o Reads("policy"), {}, {"phase4", "phase5", "policy"})
    BY <2>1, <1>1, <1>2, PiecesProvide, ProvidesChain DEF NeedsToSave, Files, Saved
  <2>3. Provides(Reads("phase4") \o Reads("phase5") \o Reads("policy") \o Step("hash", "bundle"), {}, {"phase4", "phase5", "policy", "hash"})
    BY <2>2, <1>1, <1>2, PiecesProvide, ProvidesChain DEF NeedsToSave, Files, Saved
  <2>4. Provides(Reads("phase4") \o Reads("phase5") \o Reads("policy") \o Step("hash", "bundle") \o Peeks("registry"), {}, {"phase4", "phase5", "policy", "hash"})
    BY <2>3, <1>1, <1>2, PiecesProvide, ProvidesChain DEF NeedsToSave, Files, Saved
  <2> QED BY <2>4, <1>1, <1>2, PiecesProvide, ProvidesChain DEF Phase11, NeedsToSave, Files, Saved
<1>13. Provides(Mlflow, {}, {})
  <2>1. Provides(Reads("phase4") \o Reads("phase5"), {}, {"phase4", "phase5"})
    BY <1>1, <1>2, PiecesProvide, ProvidesChain DEF NeedsToSave, Files, Saved
  <2>2. Provides(Reads("phase4") \o Reads("phase5") \o Reads("policy"), {}, {"phase4", "phase5", "policy"})
    BY <2>1, <1>1, <1>2, PiecesProvide, ProvidesChain DEF NeedsToSave, Files, Saved
  <2>3. Provides(Reads("phase4") \o Reads("phase5") \o Reads("policy") \o Reads("registry"), {}, {"phase4", "phase5", "policy", "registry"})
    BY <2>2, <1>1, <1>2, PiecesProvide, ProvidesChain DEF NeedsToSave, Files, Saved
  <2>4. Provides(Reads("phase4") \o Reads("phase5") \o Reads("policy") \o Reads("registry") \o Step("log", "mlflow"), {}, {"phase4", "phase5", "policy", "registry"})
    BY <2>3, <1>1, <1>2, PiecesProvide, ProvidesChain DEF NeedsToSave, Files, Saved
  <2>5. Provides(Reads("phase4") \o Reads("phase5") \o Reads("policy") \o Reads("registry") \o Step("log", "mlflow") \o Reads("bundle"), {}, {"phase4", "phase5", "policy", "registry", "bundle"})
    BY <2>4, <1>1, <1>2, PiecesProvide, ProvidesChain DEF NeedsToSave, Files, Saved
  <2> QED BY <2>5, <1>1, <1>2, PiecesProvide, ProvidesChain DEF Mlflow, NeedsToSave, Files, Saved
<1>14. Provides(WarmService, {}, {})
  <2>1. Provides(ReadsConfig \o UsesBundle, {}, {"config", "bundle"})
    BY <1>1, <1>2, PiecesProvide, ProvidesChain DEF NeedsToSave, Files, Saved
  <2>2. Provides(ReadsConfig \o UsesBundle \o Reads("policy"), {}, {"config", "bundle", "policy"})
    BY <2>1, <1>1, <1>2, PiecesProvide, ProvidesChain DEF NeedsToSave, Files, Saved
  <2>3. Provides(ReadsConfig \o UsesBundle \o Reads("policy") \o SplitsOnly, {}, {"config", "bundle", "policy", "load"})
    BY <2>2, <1>1, <1>2, PiecesProvide, ProvidesChain DEF NeedsToSave, Files, Saved
  <2> QED BY <2>3, <1>1, <1>2, PiecesProvide, ProvidesChain DEF WarmService, NeedsToSave, Files, Saved
<1>15. Provides(ColdService, {}, {})
  <2>1. Provides(ReadsConfig \o UsesBundle, {}, {"config", "bundle"})
    BY <1>1, <1>2, PiecesProvide, ProvidesChain DEF NeedsToSave, Files, Saved
  <2>2. Provides(ReadsConfig \o UsesBundle \o Reads("policy"), {}, {"config", "bundle", "policy"})
    BY <2>1, <1>1, <1>2, PiecesProvide, ProvidesChain DEF NeedsToSave, Files, Saved
  <2> QED BY <2>2, <1>1, <1>2, PiecesProvide, ProvidesChain DEF ColdService, NeedsToSave, Files, Saved
<1> QED BY <1>3, <1>4, <1>5, <1>6, <1>7, <1>8, <1>9, <1>10, <1>11, <1>12, <1>13, <1>14, <1>15 DEF Program

-----------------------------------------------------------------------------
(* The effects of a step on a job's memory and on what is left of it. *)

LEMMA EmptyMemory == <<>> \in Memories /\ DOMAIN <<>> = {}
<1> DEFINE V == UNION {Held(x) : x \in Items}
<1>1. <<>> \in Seq(V) /\ Len(<<>>) = 0
  BY EmptySeq
<1>2. <<>> \in [1..0 -> V] /\ DOMAIN <<>> = 1..0
  BY <1>1, LenProperties
<1>3. 1..0 = {}
  OBVIOUS
<1>4. {} \in SUBSET Items
  OBVIOUS
<1> QED BY <1>2, <1>3, <1>4 DEF Memories

LEMMA IdleJob ==
  /\ Idle \in [script : DOMAIN Program \cup {"none"}, todo : Seq(LegalSteps), seen : Memories]
  /\ Idle.script = "none" /\ Idle.todo = <<>>
  /\ Supplied(Idle.todo, DOMAIN Idle.seen)
  BY EmptyMemory, EmptySeq DEF Idle, Supplied

LEMMA MemoryGrows ==
  ASSUME NEW m \in Memories, NEW x \in Items, NEW v \in Held(x)
  PROVE  /\ With(m, x, v) \in Memories
         /\ DOMAIN With(m, x, v) = DOMAIN m \cup {x}
  BY DEF Memories, With

LEMMA SuppliedTail ==
  ASSUME NEW todo \in Seq(LegalSteps), todo # <<>>, NEW D, NEW E, Supplied(todo, D),
         D \subseteq E, Gives(Head(todo)) \subseteq E
  PROVE  Tail(todo) \in Seq(LegalSteps) /\ Supplied(Tail(todo), E)
<1>1. /\ Tail(todo) \in Seq(LegalSteps)
      /\ Len(Tail(todo)) = Len(todo) - 1
      /\ \A i \in 1..Len(Tail(todo)) : Tail(todo)[i] = todo[i + 1]
  BY HeadTailProperties
<1>2. Len(todo) \in Nat /\ Len(todo) # 0 /\ Head(todo) = todo[1]
  BY LenProperties, EmptySeq
<1>3. ASSUME NEW i \in 1..Len(Tail(todo)), NEW x \in Needs(Tail(todo)[i]), x \notin E
      PROVE  \E k \in 1..(i - 1) : x \in Gives(Tail(todo)[k])
  <2>1. i + 1 \in 1..Len(todo) /\ x \in Needs(todo[i + 1]) /\ x \notin D
    BY <1>1, <1>2, <1>3
  <2>2. PICK k \in 1..((i + 1) - 1) : x \in Gives(todo[k])
    BY <2>1 DEF Supplied
  <2>3. k # 1
    BY <1>2, <1>3, <2>2
  <2>4. k - 1 \in 1..(i - 1) /\ k - 1 \in 1..Len(Tail(todo)) /\ (k - 1) + 1 = k
    BY <1>1, <1>2, <2>2, <2>3
  <2> QED BY <1>1, <2>2, <2>4
<1> QED BY <1>1, <1>3 DEF Supplied

LEMMA AdvanceKeepsJobs ==
  ASSUME JobsOK, NEW j \in Jobs, job[j].todo # <<>>,
         NEW m \in Memories, DOMAIN Seen(j) \subseteq DOMAIN m,
         Gives(Head(job[j].todo)) \subseteq DOMAIN m, Advance(j, m)
  PROVE  JobsOK'
<1> DEFINE J == [script : DOMAIN Program \cup {"none"}, todo : Seq(LegalSteps),
                 seen : Memories]
           todo == job[j].todo
           new == IF Len(todo) = 1 THEN Idle
                  ELSE [script |-> job[j].script, todo |-> Tail(todo), seen |-> m]
<1>1. job \in [Jobs -> J] /\ job' = [job EXCEPT ![j] = new]
  <2>1. job \in [Jobs -> J]
    BY DEF JobsOK
  <2>2. job' = [job EXCEPT ![j] = new]
    BY DEF Advance
  <2> QED BY <2>1, <2>2
<1>2. todo \in Seq(LegalSteps) /\ Supplied(todo, DOMAIN job[j].seen)
  BY DEF JobsOK
<1>3. /\ new \in J
      /\ new.script = "none" <=> new.todo = <<>>
      /\ Supplied(new.todo, DOMAIN new.seen)
  <2>1. CASE Len(todo) = 1
    BY <2>1, IdleJob
  <2>2. CASE Len(todo) # 1
    <3>1. Tail(todo) \in Seq(LegalSteps) /\ Supplied(Tail(todo), DOMAIN m)
      BY <1>2, SuppliedTail DEF Seen
    <3>2. Tail(todo) # <<>>
      <4>1. Len(Tail(todo)) = Len(todo) - 1 /\ Len(todo) \in Nat
        BY <1>2, HeadTailProperties, LenProperties
      <4>2. Len(Tail(todo)) # 0
        BY <2>2, <4>1
      <4> QED BY <4>2, EmptySeq
    <3>3. job[j] \in J /\ (job[j].script = "none" <=> todo = <<>>)
      BY <1>1 DEF JobsOK
    <3>4. new = [script |-> job[j].script, todo |-> Tail(todo), seen |-> m]
      BY <2>2
    <3> HIDE DEF new
    <3>5. new \in J
      BY <3>1, <3>3, <3>4
    <3>6. new.script = job[j].script /\ new.todo = Tail(todo) /\ new.seen = m
      BY <3>4
    <3> QED BY <3>1, <3>2, <3>3, <3>5, <3>6
  <2> QED BY <2>1, <2>2
<1> HIDE DEF new
<1>4. job' \in [Jobs -> J]
  BY <1>1, <1>3
<1>5. ASSUME NEW k \in Jobs
      PROVE  /\ job'[k].script = "none" <=> job'[k].todo = <<>>
             /\ Supplied(job'[k].todo, DOMAIN job'[k].seen)
  <2>1. CASE k = j
    BY <1>1, <1>3, <2>1
  <2>2. CASE k # j
    <3>1. job'[k] = job[k]
      BY <1>1, <2>2
    <3> QED BY <3>1 DEF JobsOK
  <2> QED BY <2>1, <2>2
<1> QED BY <1>4, <1>5 DEF JobsOK

LEMMA LearnKeepsJobs ==
  ASSUME JobsOK, NEW j \in Jobs, job[j].todo # <<>>,
         NEW x \in Items, NEW v \in Held(x),
         Gives(Head(job[j].todo)) \subseteq {x}, Learn(j, x, v)
  PROVE  JobsOK'
<1>1. Seen(j) \in Memories
  BY DEF JobsOK, Seen
<1>2. /\ With(Seen(j), x, v) \in Memories
      /\ DOMAIN With(Seen(j), x, v) = DOMAIN Seen(j) \cup {x}
  BY <1>1, MemoryGrows
<1> DEFINE m == With(Seen(j), x, v)
<1>3. Advance(j, m)
  BY DEF Learn
<1> HIDE DEF m
<1>4. m \in Memories /\ DOMAIN Seen(j) \subseteq DOMAIN m
      /\ Gives(Head(job[j].todo)) \subseteq DOMAIN m
  BY <1>2 DEF m
<1> QED BY <1>3, <1>4, AdvanceKeepsJobs

\* The job ends, by an exception or because it is killed.
LEMMA FailKeepsJobs ==
  ASSUME JobsOK, NEW j \in Jobs, Fail(j)
  PROVE  JobsOK'
<1>1. \A k \in Jobs : job'[k] = IF k = j THEN Idle ELSE job[k]
  BY DEF JobsOK, Fail
<1>2. job' \in [Jobs -> [script : DOMAIN Program \cup {"none"}, todo : Seq(LegalSteps),
                         seen : Memories]]
  BY IdleJob DEF JobsOK, Fail
<1>3. ASSUME NEW k \in Jobs
      PROVE  /\ job'[k].script = "none" <=> job'[k].todo = <<>>
             /\ Supplied(job'[k].todo, DOMAIN job'[k].seen)
  BY <1>1, IdleJob DEF JobsOK
<1> QED BY <1>2, <1>3 DEF JobsOK

(* The head of what is left of a job. *)
LEMMA HeadSupplied ==
  ASSUME JobsOK, NEW j \in Jobs, job[j].todo # <<>>
  PROVE  /\ Head(job[j].todo) \in LegalSteps
         /\ Needs(Head(job[j].todo)) \subseteq DOMAIN Seen(j)
         /\ Seen(j) \in Memories
<1>1. job[j].todo \in Seq(LegalSteps) /\ Supplied(job[j].todo, DOMAIN job[j].seen)
  BY DEF JobsOK
<1>2. 1 \in 1..Len(job[j].todo) /\ Head(job[j].todo) = job[j].todo[1]
  BY <1>1, LenProperties, EmptySeq
<1>3. Head(job[j].todo) \in LegalSteps
  BY <1>1, <1>2, ElementOfSeq
<1>4. Needs(Head(job[j].todo)) \subseteq DOMAIN job[j].seen
  BY <1>1, <1>2 DEF Supplied
<1> QED BY <1>3, <1>4 DEF JobsOK, Seen

(* What a job saves is what its file is meant to hold. *)
LEMMA ContentIsSound ==
  ASSUME JobsOK, NEW j \in Jobs, At(j, "open") \/ At(j, "dump")
  PROVE  Item(j) \in Saved /\ Content(j, Item(j)) \in SoundContents(Item(j))
<1> DEFINE f == Item(j)
           m == Seen(j)
<1>1. /\ Head(job[j].todo) \in LegalSteps
      /\ Needs(Head(job[j].todo)) \subseteq DOMAIN m
      /\ m \in Memories
  BY HeadSupplied DEF At
<1>2. f \in Saved /\ NeedsToSave(f) \subseteq DOMAIN m
  BY <1>1 DEF At, Item, LegalSteps, Needs
<1>3. \A x \in DOMAIN m : m[x] \in Held(x)
  BY <1>1 DEF Memories
<1> HIDE DEF f, m
<1>4. CASE f = "bundle"
  <2>1. m["bundle"] \in Sound
    BY <1>2, <1>3, <1>4 DEF NeedsToSave, Held, SoundContents
  <2> QED BY <1>2, <1>4, <2>1 DEF Content, SoundContents, f, m
<1>5. CASE f \in {"phase6", "profile"}
  <2>1. m["bundle"] \in Sound /\ m["load"] \in Sound /\ m["policy"] \in Sound
    BY <1>2, <1>3, <1>5 DEF NeedsToSave, Held, SoundContents
  <2>2. Content(j, f) = [x \in {"bundle", "load", "policy"} |-> m[x]]
    BY <1>5 DEF Content, Restrict, m
  <2>3. Content(j, f) \in [{"bundle", "load", "policy"} -> Sound]
    BY <2>1, <2>2
  <2> QED BY <1>2, <1>5, <2>3 DEF SoundContents, f
<1>6. CASE f = "registry" /\ Has(j, "registry")
  <2>1. m["registry"] \in SoundContents("registry")
    BY <1>3, <1>6 DEF Has, Held, m
  <2>2. Content(j, f) = m["registry"]
    BY <1>6 DEF Content, m
  <2> QED BY <1>2, <1>6, <2>1, <2>2 DEF f
<1>7. CASE f = "registry" /\ ~Has(j, "registry")
  <2> DEFINE X == {"hash", "phase4", "phase5", "policy"}
  <2>1. \A x \in X : m[x] \in Sound \cup {Torn}
    BY <1>2, <1>3, <1>7 DEF NeedsToSave, Held, SoundContents
  <2>2. Content(j, f) = [x \in X |-> m[x]]
    BY <1>7 DEF Content, Restrict, m
  <2>3. Content(j, f) \in [X -> Sound \cup {Torn}]
    BY <2>1, <2>2
  <2> QED BY <1>2, <1>7, <2>3 DEF SoundContents, f
<1>8. CASE f \notin {"bundle", "phase6", "profile", "registry"}
  <2>1. m["load"] \in Sound
    BY <1>2, <1>3, <1>8 DEF NeedsToSave, Held, SoundContents
  <2>2. Content(j, f) = m["load"]
    BY <1>8 DEF Content, m
  <2> QED BY <1>2, <1>8, <2>1, <2>2 DEF SoundContents, Saved, f
<1> QED BY <1>4, <1>5, <1>6, <1>7, <1>8

-----------------------------------------------------------------------------
(* The invariant holds initially. *)
LEMMA InitHolds ==
  ASSUME Init
  PROVE  IInv
<1> USE DEF Init
<1>1. JobsOK
  <2>1. job \in [Jobs -> [script : DOMAIN Program \cup {"none"}, todo : Seq(LegalSteps),
                          seen : Memories]]
    BY IdleJob
  <2>2. \A j \in Jobs : job[j] = Idle
    OBVIOUS
  <2> QED BY <2>1, <2>2, IdleJob DEF JobsOK
<1>2. RestOK
  <2>1. 0 \in 0..MaxRevisions
    BY BoundsAssumption
  <2>2. plan \in Seq(DOMAIN Program)
    BY PlansAssumption
  <2>3. FALSE \in BOOLEAN
    OBVIOUS
  <2> QED BY <2>1, <2>2, <2>3, Zenon DEF RestOK
<1>3. FilesOK
  <2>1. mix \in [Saved -> SUBSET UNION {SoundContents(f) : f \in Files}]
    OBVIOUS
  <2>2. \A f \in Saved : mix[f] = {}
    OBVIOUS
  <2>3. CASE file = [f \in Files |-> Missing]
    BY <2>1, <2>2, <2>3 DEF FilesOK, Absent
  <2>4. CASE file = Established /\ <<data, config>> \in Accepted
    <3>1. FirstBasis \in Sound
      BY <2>4, BoundsAssumption DEF FirstBasis, Sound, Bases, Version
    <3>2. ASSUME NEW f \in Files
          PROVE  Established[f] \in SoundContents(f)
      <4>1. CASE f \in {"phase6", "profile"}
        BY <3>1, <4>1 DEF Established, SoundContents
      <4>2. CASE f = "registry"
        BY <3>1, <4>2 DEF Established, SoundContents
      <4>3. CASE f = "mlflow"
        <5> DEFINE R == [hash |-> FirstBasis, phase4 |-> FirstBasis, phase5 |-> FirstBasis,
                         bundle |-> FirstBasis]
        <5>1. Established[f] = R
          BY <4>3 DEF Established
        <5>2. R \in [{"hash", "phase4", "phase5"} \cup {"bundle"} -> Sound \cup {Torn}]
          BY <3>1
        <5>3. {"bundle"} \in SUBSET {"bundle"}
          OBVIOUS
        <5> HIDE DEF R
        <5> QED BY <4>3, <5>1, <5>2, <5>3 DEF SoundContents
      <4>4. CASE f \notin {"phase6", "profile", "registry", "mlflow"}
        BY <3>1, <4>4 DEF Established, SoundContents
      <4> QED BY <4>1, <4>2, <4>3, <4>4
    <3>3. Established = [f \in Files |-> Established[f]]
      BY DEF Established
    <3> QED BY <2>1, <2>2, <2>4, <3>2, <3>3 DEF FilesOK
  <2> QED BY <2>3, <2>4
<1> QED BY <1>1, <1>2, <1>3 DEF IInv

-----------------------------------------------------------------------------
(* ... and every action keeps it. *)

LEMMA StartKeeps ==
  ASSUME IInv, NEW j \in Jobs, Start(j)
  PROVE  IInv'
<1> DEFINE s == Head(plan)
           J == [script : DOMAIN Program \cup {"none"}, todo : Seq(LegalSteps),
                 seen : Memories]
           new == [script |-> s, todo |-> Program[s], seen |-> <<>>]
<1>1. plan # <<>> /\ plan \in Seq(DOMAIN Program)
  BY DEF Start, IInv, RestOK
<1>2. s \in DOMAIN Program /\ Tail(plan) \in Seq(DOMAIN Program)
  BY <1>1, HeadTailProperties
<1>3. Provides(Program[s], {}, {})
  BY <1>2, ProgramsProvide
<1>4. s # "none"
  BY <1>2 DEF Program
<1>5. job \in [Jobs -> J] /\ job' = [job EXCEPT ![j] = new]
  BY DEF IInv, JobsOK, Start
<1> HIDE DEF s
<1>6. new \in J
  BY <1>2, <1>3, EmptyMemory DEF Provides
<1>7. new.script # "none" /\ new.todo # <<>> /\ Supplied(new.todo, DOMAIN new.seen)
  BY <1>3, <1>4, EmptyMemory DEF Provides
<1> HIDE DEF new
<1>8. job' \in [Jobs -> J]
  BY <1>5, <1>6
<1>9. ASSUME NEW k \in Jobs
      PROVE  /\ job'[k].script = "none" <=> job'[k].todo = <<>>
             /\ Supplied(job'[k].todo, DOMAIN job'[k].seen)
  <2>1. job'[k] = IF k = j THEN new ELSE job[k]
    BY <1>5
  <2> QED BY <1>7, <2>1 DEF IInv, JobsOK
<1>10. JobsOK'
  BY <1>8, <1>9 DEF JobsOK
<1>11. FilesOK'
  BY DEF IInv, FilesOK, Start
<1>12. RestOK'
  <2>1. raced5' \in BOOLEAN
    BY DEF Start, IInv, RestOK
  <2> QED BY <1>2, <2>1 DEF IInv, RestOK, Start, s
<1> QED BY <1>10, <1>11, <1>12 DEF IInv

\* The steps that change nothing but the job.
Others == <<data, config, revision, file, mix, plan, raced, raced5>>

LEMMA OthersUnchanged ==
  ASSUME IInv, JobsOK', UNCHANGED Others
  PROVE  IInv'
  BY DEF IInv, FilesOK, RestOK, Others

LEMMA HeadIsFirst ==
  ASSUME NEW j, NEW op, At(j, op)
  PROVE  job[j].todo # <<>> /\ Head(job[j].todo).op = op
  BY DEF At

LEMMA ReadConfigKeeps ==
  ASSUME IInv, NEW j \in Jobs, ReadConfig(j)
  PROVE  IInv'
<1>1. JobsOK /\ job[j].todo # <<>> /\ Head(job[j].todo).op = "config"
  BY DEF IInv, ReadConfig, At
<1>2. Gives(Head(job[j].todo)) \subseteq {"config"}
  BY <1>1 DEF Gives
<1>3. "config" \in Items /\ config \in Held("config")
  BY DEF Items, Held, IInv, RestOK
<1>4. Learn(j, "config", config) /\ UNCHANGED Others
  BY DEF ReadConfig, Others
<1>5. JobsOK'
  BY <1>1, <1>2, <1>3, <1>4, LearnKeepsJobs
<1> QED BY <1>4, <1>5, OthersUnchanged

(* The basis of what a job computes now, from the configuration it read.    *)
LEMMA BasisIsSound ==
  ASSUME IInv, NEW j \in Jobs, job[j].todo # <<>>,
         Head(job[j].todo).op \in {"load", "train"}
  PROVE  /\ Basis(j) \in Bases
         /\ Version(Basis(j)) \in Accepted => Basis(j) \in Sound
<1>1. JobsOK
  BY DEF IInv
<1>2. "config" \in Needs(Head(job[j].todo))
  BY DEF Needs
<1>3. "config" \in DOMAIN Seen(j) /\ Seen(j) \in Memories
  BY <1>1, <1>2, HeadSupplied
<1>4. Seen(j)["config"] \in DOMAIN Ratios
  BY <1>3 DEF Memories, Held
<1> QED BY <1>4 DEF Basis, Bases, Sound, IInv, RestOK

LEMMA LoadDataKeeps ==
  ASSUME IInv, NEW j \in Jobs, LoadData(j)
  PROVE  IInv'
<1>1. JobsOK /\ job[j].todo # <<>> /\ Head(job[j].todo).op = "load"
  BY DEF IInv, LoadData, At
<1>2. UNCHANGED Others
  BY DEF LoadData, Others
<1>3. CASE Fail(j)
  BY <1>1, <1>2, <1>3, FailKeepsJobs, OthersUnchanged
<1>4. CASE Learn(j, "load", Basis(j)) /\ Version(Basis(j)) \in Accepted
  <2>1. Basis(j) \in Held("load") /\ "load" \in Items
    BY <1>1, <1>4, BasisIsSound DEF Held, Items
  <2>2. Gives(Head(job[j].todo)) \subseteq {"load"}
    BY <1>1 DEF Gives
  <2>3. JobsOK'
    BY <1>1, <1>4, <2>1, <2>2, LearnKeepsJobs
  <2> QED BY <1>2, <2>3, OthersUnchanged
<1> QED BY <1>3, <1>4 DEF LoadData, Checked

LEMMA ProbeBundleKeeps ==
  ASSUME IInv, NEW j \in Jobs, ProbeBundle(j)
  PROVE  IInv'
<1>1. JobsOK /\ job[j].todo # <<>> /\ Head(job[j].todo).op = "bundle"
  BY DEF IInv, ProbeBundle, At
<1>2. UNCHANGED <<data, config, revision, file, mix, plan, raced5>>
  BY DEF ProbeBundle
<1>3. CASE Fail(j) /\ UNCHANGED raced
  <2>1. JobsOK' /\ UNCHANGED Others
    BY <1>1, <1>2, <1>3, FailKeepsJobs DEF Others
  <2> QED BY <2>1, OthersUnchanged
<1>4. CASE Learn(j, "bundle", file["bundle"]) /\ file["bundle"] \notin Absent /\ UNCHANGED raced
  <2>1. file["bundle"] \in Held("bundle") /\ "bundle" \in Items
    BY <1>4 DEF IInv, FilesOK, Files, Saved, Items, Held
  <2>2. Gives(Head(job[j].todo)) \subseteq {"bundle"}
    BY <1>1 DEF Gives
  <2>3. JobsOK' /\ UNCHANGED Others
    BY <1>1, <1>2, <1>4, <2>1, <2>2, LearnKeepsJobs DEF Others
  <2> QED BY <2>3, OthersUnchanged
<1>5. CASE /\ job' = [job EXCEPT ![j].todo = TrainsBundle \o Tail(@)]
           /\ raced' = (raced \/ \E k \in Jobs \ {j} : Building(k))
  <2> DEFINE J == [script : DOMAIN Program \cup {"none"}, todo : Seq(LegalSteps),
                   seen : Memories]
             todo == job[j].todo
             new == TrainsBundle \o Tail(todo)
             D == DOMAIN job[j].seen
  <2>1. todo \in Seq(LegalSteps) /\ Supplied(todo, D)
    BY <1>1 DEF JobsOK
  <2>2. "config" \in D
    <3>1. "config" \in Needs(Head(todo))
      BY <1>1 DEF Needs
    <3> QED BY <1>1, <3>1, HeadSupplied DEF Seen
  <2>3. Provides(TrainsBundle, {"config"}, {"config", "bundle"})
    <3>1. Provides(Saves("bundle"), {"bundle"}, {"bundle"})
      BY SavesProvide DEF Saved, NeedsToSave
    <3> QED BY <3>1, PiecesProvide, ProvidesChain DEF TrainsBundle
  <2>4. Tail(todo) \in Seq(LegalSteps) /\ Supplied(Tail(todo), D \cup {"bundle"})
    <3>1. Gives(Head(todo)) \subseteq D \cup {"bundle"}
      BY <1>1 DEF Gives
    <3> QED BY <1>1, <2>1, <3>1, SuppliedTail
  <2>5. new \in Seq(LegalSteps) /\ new # <<>> /\ Supplied(new, D)
    <3>1. CASE Tail(todo) = <<>>
      <4>1. new = TrainsBundle
        BY <2>3, <3>1, ConcatEmptySeq DEF Provides
      <4> QED BY <2>2, <2>3, <4>1 DEF Provides, Supplied
    <3>2. CASE Tail(todo) # <<>>
      <4>1. Provides(Tail(todo), D \cup {"bundle"}, {})
        BY <2>4, <3>2 DEF Provides
      <4>2. Provides(TrainsBundle, D, D \cup {"bundle"})
        BY <2>2, <2>3 DEF Provides, Supplied
      <4>3. Provides(new, D, {})
        BY <4>1, <4>2, ProvidesChain
      <4> QED BY <4>3 DEF Provides
    <3> QED BY <3>1, <3>2
  <2> HIDE DEF new
  <2>6. job \in [Jobs -> J] /\ job' = [job EXCEPT ![j].todo = new]
    BY <1>1, <1>5 DEF JobsOK, new
  <2>7. /\ job' \in [Jobs -> J]
        /\ job'[j].script = job[j].script /\ job'[j].todo = new
        /\ job'[j].seen = job[j].seen
        /\ \A k \in Jobs \ {j} : job'[k] = job[k]
    BY <2>5, <2>6
  <2>8. \A k \in Jobs : /\ job'[k].script = "none" <=> job'[k].todo = <<>>
                        /\ Supplied(job'[k].todo, DOMAIN job'[k].seen)
    BY <1>1, <2>5, <2>7 DEF JobsOK
  <2>9. JobsOK'
    BY <2>7, <2>8 DEF JobsOK
  <2>10. FilesOK' /\ RestOK'
    BY <1>2, <1>5 DEF IInv, FilesOK, RestOK
  <2> QED BY <2>9, <2>10 DEF IInv
<1> QED BY <1>3, <1>4, <1>5 DEF ProbeBundle

LEMMA TrainBundleKeeps ==
  ASSUME IInv, NEW j \in Jobs, TrainBundle(j)
  PROVE  IInv'
<1>1. JobsOK /\ job[j].todo # <<>> /\ Head(job[j].todo).op = "train"
  BY DEF IInv, TrainBundle, At
<1>2. UNCHANGED Others
  BY DEF TrainBundle, Others
<1>3. CASE Fail(j)
  BY <1>1, <1>2, <1>3, FailKeepsJobs, OthersUnchanged
<1>4. CASE Learn(j, "bundle", Basis(j)) /\ Version(Basis(j)) \in Accepted
  <2>1. Basis(j) \in Held("bundle") /\ "bundle" \in Items
    BY <1>1, <1>4, BasisIsSound DEF Held, SoundContents, Items, Files, Saved
  <2>2. Gives(Head(job[j].todo)) \subseteq {"bundle"}
    BY <1>1 DEF Gives
  <2>3. JobsOK'
    BY <1>1, <1>4, <2>1, <2>2, LearnKeepsJobs
  <2> QED BY <1>2, <2>3, OthersUnchanged
<1> QED BY <1>3, <1>4 DEF TrainBundle

(* A file that is neither absent nor torn can be learned.                   *)
LEMMA ReadIsSound ==
  ASSUME IInv, NEW f \in Files, file[f] \notin Absent
  PROVE  f \in Items /\ file[f] \in Held(f)
<1>1. f \in Items /\ f \notin {"config", "load", "hash"}
  BY DEF Items, Files, Saved
<1>2. file[f] \in SoundContents(f)
  BY DEF IInv, FilesOK
<1> QED BY <1>1, <1>2 DEF Held

LEMMA ReadFileKeeps ==
  ASSUME IInv, NEW j \in Jobs, ReadFile(j)
  PROVE  IInv'
<1> DEFINE f == Item(j)
<1>1. JobsOK /\ job[j].todo # <<>> /\ Head(job[j].todo).op = "read"
  BY DEF IInv, ReadFile, At
<1>2. UNCHANGED Others
  BY DEF ReadFile, Others
<1>3. f \in Files /\ Gives(Head(job[j].todo)) \subseteq {f}
  BY <1>1, HeadSupplied DEF LegalSteps, Item, Gives
<1>4. CASE Fail(j)
  BY <1>1, <1>2, <1>4, FailKeepsJobs, OthersUnchanged
<1>5. CASE Learn(j, f, file[f]) /\ file[f] \notin Absent
  <2>1. f \in Items /\ file[f] \in Held(f)
    BY <1>3, <1>5, ReadIsSound
  <2>2. JobsOK'
    BY <1>1, <1>3, <1>5, <2>1, LearnKeepsJobs
  <2> QED BY <1>2, <2>2, OthersUnchanged
<1> QED BY <1>4, <1>5 DEF ReadFile

LEMMA PeekFileKeeps ==
  ASSUME IInv, NEW j \in Jobs, PeekFile(j)
  PROVE  IInv'
<1> DEFINE f == Item(j)
<1>1. JobsOK /\ job[j].todo # <<>> /\ Head(job[j].todo).op = "peek"
  BY DEF IInv, PeekFile, At
<1>2. UNCHANGED Others
  BY DEF PeekFile, Others
<1>3. f \in Files /\ Gives(Head(job[j].todo)) = {} /\ Seen(j) \in Memories
  BY <1>1, HeadSupplied DEF LegalSteps, Item, Gives
<1>4. CASE Fail(j)
  BY <1>1, <1>2, <1>4, FailKeepsJobs, OthersUnchanged
<1>5. CASE Advance(j, Seen(j))
  <2>1. JobsOK'
    BY <1>1, <1>3, <1>5, AdvanceKeepsJobs
  <2> QED BY <1>2, <2>1, OthersUnchanged
<1>6. CASE Learn(j, f, file[f]) /\ file[f] \notin Absent
  <2>1. f \in Items /\ file[f] \in Held(f)
    BY <1>3, <1>6, ReadIsSound
  <2>2. JobsOK'
    BY <1>1, <1>3, <1>6, <2>1, LearnKeepsJobs
  <2> QED BY <1>2, <2>2, OthersUnchanged
<1> QED BY <1>4, <1>5, <1>6 DEF PeekFile

LEMMA HashBundleKeeps ==
  ASSUME IInv, NEW j \in Jobs, HashBundle(j)
  PROVE  IInv'
<1>1. JobsOK /\ job[j].todo # <<>> /\ Head(job[j].todo).op = "hash"
  BY DEF IInv, HashBundle, At
<1>2. UNCHANGED Others
  BY DEF HashBundle, Others
<1>3. CASE Fail(j)
  BY <1>1, <1>2, <1>3, FailKeepsJobs, OthersUnchanged
<1>4. CASE Learn(j, "hash", file["bundle"]) /\ file["bundle"] # Missing
  <2>1. file["bundle"] \in {Torn} \cup SoundContents("bundle")
    BY <1>4 DEF IInv, FilesOK, Absent, Files, Saved
  <2>2. "hash" \in Items /\ file["bundle"] \in Held("hash")
    BY <2>1 DEF Items, Held, SoundContents
  <2>3. Gives(Head(job[j].todo)) \subseteq {"hash"}
    BY <1>1 DEF Gives
  <2>4. JobsOK'
    BY <1>1, <1>4, <2>2, <2>3, LearnKeepsJobs
  <2> QED BY <1>2, <2>4, OthersUnchanged
<1> QED BY <1>3, <1>4 DEF HashBundle

\* One file changes to something it may hold.
LEMMA FileKeeps ==
  ASSUME FilesOK, NEW f \in Files, NEW v, v \in Absent \/ v \in SoundContents(f),
         file' = [file EXCEPT ![f] = v], UNCHANGED mix
  PROVE  FilesOK'
<1>1. \A g \in Files : file'[g] = IF g = f THEN v ELSE file[g]
  BY DEF FilesOK
<1>2. file' \in [Files -> Absent \cup UNION {SoundContents(g) : g \in Files}]
  BY DEF FilesOK
<1>3. \A g \in Files : file'[g] \in Absent \/ file'[g] \in SoundContents(g)
  BY <1>1 DEF FilesOK
<1> QED BY <1>2, <1>3 DEF FilesOK

LEMMA StayingKeepsJobs ==
  ASSUME JobsOK, NEW j \in Jobs, job[j].todo # <<>>, Advance(j, Seen(j)),
         Gives(Head(job[j].todo)) = {}
  PROVE  JobsOK'
<1>1. Seen(j) \in Memories
  BY HeadSupplied
<1> QED BY <1>1, AdvanceKeepsJobs

LEMMA OpenFileKeeps ==
  ASSUME IInv, NEW j \in Jobs, OpenFile(j)
  PROVE  IInv'
<1> DEFINE f == Item(j)
           new == (IF Writers(f) = {} THEN {} ELSE mix[f]) \cup {Content(j, f)}
<1>1. JobsOK /\ job[j].todo # <<>> /\ Head(job[j].todo).op = "open" /\ At(j, "open")
  BY DEF IInv, OpenFile, At
<1>2. Gives(Head(job[j].todo)) = {}
  BY <1>1 DEF Gives
<1>3. JobsOK'
  BY <1>1, <1>2, StayingKeepsJobs DEF OpenFile
<1>4. f \in Saved /\ Content(j, f) \in SoundContents(f)
  BY <1>1, ContentIsSound
<1>5. file' = [file EXCEPT ![f] = Torn] /\ mix' = [mix EXCEPT ![f] = new]
  BY DEF OpenFile
<1>6. \A x \in new : x \in SoundContents(f)
  BY <1>4 DEF IInv, FilesOK
<1> HIDE DEF new, f
<1>7. f \in Files /\ Torn \in Absent
  BY <1>4 DEF Files, Absent
<1>8. /\ file' \in [Files -> Absent \cup UNION {SoundContents(g) : g \in Files}]
      /\ \A g \in Files : file'[g] \in Absent \/ file'[g] \in SoundContents(g)
  BY <1>5, <1>7 DEF IInv, FilesOK
<1>9. \A g \in Saved : mix'[g] = IF g = f THEN new ELSE mix[g]
  BY <1>5 DEF IInv, FilesOK
<1>10. \A g \in Saved : \A x \in mix'[g] : x \in SoundContents(g)
  BY <1>6, <1>9 DEF IInv, FilesOK
<1>11. mix' \in [Saved -> SUBSET UNION {SoundContents(g) : g \in Files}]
  <2>1. new \in SUBSET UNION {SoundContents(g) : g \in Files}
    BY <1>6, <1>7
  <2> QED BY <1>5, <2>1 DEF IInv, FilesOK
<1>12. FilesOK'
  BY <1>8, <1>10, <1>11 DEF FilesOK
<1>13. RestOK'
  BY DEF IInv, RestOK, OpenFile
<1> QED BY <1>3, <1>12, <1>13 DEF IInv

LEMMA DumpFileKeeps ==
  ASSUME IInv, NEW j \in Jobs, DumpFile(j)
  PROVE  IInv'
<1> DEFINE f == Item(j)
<1>1. JobsOK /\ job[j].todo # <<>> /\ Head(job[j].todo).op = "dump" /\ At(j, "dump")
  BY DEF IInv, DumpFile, At
<1>2. Gives(Head(job[j].todo)) = {}
  BY <1>1 DEF Gives
<1>3. JobsOK'
  BY <1>1, <1>2, StayingKeepsJobs DEF DumpFile
<1>4. f \in Saved /\ Content(j, f) \in SoundContents(f)
  BY <1>1, ContentIsSound
<1>5. PICK left \in {Content(j, f), Torn} : file' = [file EXCEPT ![f] = left]
  BY DEF DumpFile
<1>6. left \in Absent \/ left \in SoundContents(f)
  BY <1>4 DEF Absent
<1>7. f \in Files /\ FilesOK /\ UNCHANGED mix
  BY <1>4 DEF Files, IInv, DumpFile
<1>8. FilesOK'
  BY <1>5, <1>6, <1>7, FileKeeps
<1>9. RestOK'
  BY DEF IInv, RestOK, DumpFile
<1> QED BY <1>3, <1>8, <1>9 DEF IInv

LEMMA LogRunKeeps ==
  ASSUME IInv, NEW j \in Jobs, LogRun(j)
  PROVE  IInv'
<1> DEFINE m == Seen(j)
           kept == {"phase4", "phase5", "bundle"} \cap DOMAIN m
           run == With(Restrict(m, kept), "hash", m["registry"].hash)
<1>1. JobsOK /\ job[j].todo # <<>> /\ Head(job[j].todo).op = "log"
  BY DEF IInv, LogRun, At
<1>2. Gives(Head(job[j].todo)) = {}
  BY <1>1 DEF Gives
<1>3. JobsOK'
  BY <1>1, <1>2, StayingKeepsJobs DEF LogRun
<1>4. {"registry", "phase4", "phase5"} \subseteq DOMAIN m /\ m \in Memories
  BY <1>1, HeadSupplied DEF Needs
<1>5. file' = [file EXCEPT !["mlflow"] = run]
  BY DEF LogRun
<1> HIDE DEF m
<1>6. /\ m["phase4"] \in Sound /\ m["phase5"] \in Sound
      /\ "bundle" \in DOMAIN m => m["bundle"] \in Sound
      /\ m["registry"] \in SoundContents("registry")
  BY <1>4 DEF Memories, Held, SoundContents
<1>7. m["registry"].hash \in Sound \cup {Torn}
  BY <1>6 DEF SoundContents
<1>8. DOMAIN run = {"hash", "phase4", "phase5"} \cup ({"bundle"} \cap DOMAIN m)
  BY <1>4 DEF With, Restrict
<1>9. \A x \in DOMAIN run :
        run[x] = IF x = "hash" THEN m["registry"].hash ELSE m[x]
  BY <1>8 DEF With, Restrict
<1>10. run = [x \in DOMAIN run |-> run[x]]
  BY DEF With
<1> HIDE DEF run
<1>11. \A x \in DOMAIN run : run[x] \in Sound \cup {Torn}
  BY <1>6, <1>7, <1>8, <1>9
<1>12. run \in [{"hash", "phase4", "phase5"} \cup ({"bundle"} \cap DOMAIN m)
                  -> Sound \cup {Torn}]
  BY <1>8, <1>10, <1>11
<1>13. {"bundle"} \cap DOMAIN m \in SUBSET {"bundle"}
  OBVIOUS
<1>14. run \in SoundContents("mlflow")
  BY <1>12, <1>13 DEF SoundContents
<1>15. "mlflow" \in Files /\ FilesOK /\ UNCHANGED mix
  BY DEF Files, IInv, LogRun
<1>16. FilesOK'
  BY <1>5, <1>14, <1>15, FileKeeps
<1>17. RestOK'
  BY DEF IInv, RestOK, LogRun
<1> QED BY <1>3, <1>16, <1>17 DEF IInv

LEMMA CrashKeeps ==
  ASSUME IInv, NEW j \in Jobs, Crash(j)
  PROVE  IInv'
<1>1. JobsOK'
  BY FailKeepsJobs DEF IInv, Crash, Fail
<1>2. RestOK'
  BY DEF IInv, RestOK, Crash
<1>3. FilesOK'
  <2>1. CASE At(j, "dump")
    <3> DEFINE f == Item(j)
    <3>1. f \in Files
      BY <2>1, ContentIsSound DEF IInv, Files
    <3>2. PICK left \in {file[f], Torn} : file' = [file EXCEPT ![f] = left]
      BY <2>1 DEF Crash
    <3>3. left \in Absent \/ left \in SoundContents(f)
      BY <3>1, <3>2 DEF Absent, IInv, FilesOK
    <3> QED BY <3>1, <3>2, <3>3, FileKeeps DEF IInv, Crash
  <2>2. CASE ~At(j, "dump")
    BY <2>2 DEF IInv, FilesOK, Crash
  <2> QED BY <2>1, <2>2
<1> QED BY <1>1, <1>2, <1>3 DEF IInv

LEMMA ReviseKeeps ==
  ASSUME IInv, Revise
  PROVE  IInv'
<1>1. JobsOK' /\ FilesOK'
  BY DEF IInv, JobsOK, FilesOK, Revise
<1>2. data' \in DOMAIN Tables /\ config' \in DOMAIN Ratios
  BY BoundsAssumption DEF IInv, RestOK, Revise
<1>3. revision' \in 0..MaxRevisions
  BY BoundsAssumption DEF IInv, RestOK, Revise
<1>4. plan' \in Seq(DOMAIN Program) /\ raced' \in BOOLEAN /\ raced5' \in BOOLEAN
  BY DEF IInv, RestOK, Revise
<1> QED BY <1>1, <1>2, <1>3, <1>4 DEF IInv, RestOK

LEMMA NextKeeps ==
  ASSUME IInv, [Next]_vars
  PROVE  IInv'
<1>1. CASE UNCHANGED vars
  BY <1>1 DEF IInv, JobsOK, FilesOK, RestOK, vars
<1>2. CASE Revise
  BY <1>2, ReviseKeeps
<1>3. ASSUME NEW j \in Jobs,
             \/ Start(j) \/ ReadConfig(j) \/ LoadData(j) \/ ProbeBundle(j) \/ TrainBundle(j)
             \/ ReadFile(j) \/ PeekFile(j) \/ HashBundle(j)
             \/ OpenFile(j) \/ DumpFile(j) \/ LogRun(j) \/ Crash(j)
      PROVE  IInv'
  BY <1>3, StartKeeps, ReadConfigKeeps, LoadDataKeeps, ProbeBundleKeeps, TrainBundleKeeps,
     ReadFileKeeps, PeekFileKeeps, HashBundleKeeps, OpenFileKeeps, DumpFileKeeps,
     LogRunKeeps, CrashKeeps
<1> QED BY <1>1, <1>2, <1>3 DEF Next

LEMMA InvariantHolds == Spec => []IInv
<1>1. Init => IInv
  BY InitHolds
<1>2. IInv /\ [Next]_vars => IInv'
  BY NextKeeps
<1> QED BY <1>1, <1>2, PTL DEF Spec

-----------------------------------------------------------------------------
(* The properties. *)

LEMMA TablesAreDatasets ==
  ASSUME NEW t \in DOMAIN Tables
  PROVE  Tables[t] \in Datasets
  BY TablesAssumption DEF Datasets

(* What is known of a version the loader and the split accepted.            *)
LEMMA SoundVersions ==
  ASSUME NEW b \in Sound
  PROVE  /\ Tables[b.data] \in Datasets
         /\ Ratios[b.config] \in Configs
         /\ Loadable(Tables[b.data])
         /\ Ratios[b.config].train + Ratios[b.config].val + Ratios[b.config].test = 100
<1>1. b.data \in DOMAIN Tables /\ b.config \in DOMAIN Ratios
  BY DEF Sound, Bases
<1>2. <<b.data, b.config>> \in Accepted
  BY DEF Sound, Version
<1>3. Loadable(Tables[b.data]) /\ Splits(Tables[b.data], Ratios[b.config])
  BY <1>2 DEF Accepted
<1> QED BY <1>1, <1>3, TablesAreDatasets, RatiosAssumption DEF Splits

LEMMA SoundContentsTyped ==
  ASSUME NEW f \in Files, NEW v \in SoundContents(f)
  PROVE  v \in ContentsOf(f)
<1>1. Sound \subseteq Bases
  BY DEF Sound
<1>2. CASE f \in {"phase6", "profile"}
  BY <1>1, <1>2 DEF SoundContents, ContentsOf, Records
<1>3. CASE f = "registry"
  BY <1>1, <1>3 DEF SoundContents, ContentsOf, Champions
<1>4. CASE f = "mlflow"
  <2>1. PICK b \in SUBSET {"bundle"} :
          v \in [{"hash", "phase4", "phase5"} \cup b -> Sound \cup {Torn}]
    BY <1>4 DEF SoundContents
  <2>2. v \in [{"hash", "phase4", "phase5"} \cup b -> Bases \cup {Torn}]
    BY <1>1, <2>1
  <2> QED BY <1>4, <2>2 DEF ContentsOf, Runs
<1>5. CASE f \notin {"phase6", "profile", "registry", "mlflow"}
  BY <1>1, <1>5 DEF SoundContents, ContentsOf
<1> QED BY <1>2, <1>3, <1>4, <1>5

LEMMA HeldIsSound ==
  ASSUME JobsOK, NEW j \in Jobs
  PROVE  /\ Has(j, "load") => Seen(j)["load"] \in Sound
         /\ Has(j, "bundle") => Seen(j)["bundle"] \in Sound
<1>1. Seen(j) \in Memories
  BY DEF JobsOK, Seen
<1> QED BY <1>1 DEF Has, Memories, Held, SoundContents

(* Every file holds what its own script saves, or nothing readable, and     *)
(* every process a step of its script, through any interleaving, crash and  *)
(* revision.                                                                *)
THEOREM TypeCorrect == Spec => []TypeOK
<1>1. ASSUME IInv
      PROVE  TypeOK
  <2>1. \A f \in Files : file[f] \in Absent \/ file[f] \in ContentsOf(f)
    BY <1>1, SoundContentsTyped DEF IInv, FilesOK
  <2>2. \A f \in Saved : \A x \in mix[f] : x \in ContentsOf(f)
    BY <1>1, SoundContentsTyped DEF IInv, FilesOK, Files
  <2>3. ASSUME NEW j \in Jobs
        PROVE  /\ job[j].script \in DOMAIN Program \cup {"none"}
               /\ job[j].script = "none" <=> job[j].todo = <<>>
               /\ Has(j, "load") => Seen(j)["load"] \in Bases
               /\ Has(j, "bundle") => Seen(j)["bundle"] \in Bases
    <3>1. job[j].script \in DOMAIN Program \cup {"none"}
      BY <1>1 DEF IInv, JobsOK
    <3>2. job[j].script = "none" <=> job[j].todo = <<>>
      BY <1>1 DEF IInv, JobsOK
    <3> QED BY <1>1, <3>1, <3>2, HeldIsSound DEF IInv, Sound
  <2>4. data \in DOMAIN Tables /\ config \in DOMAIN Ratios /\ revision \in 0..MaxRevisions
    BY <1>1 DEF IInv, RestOK
  <2>5. plan \in Seq(DOMAIN Program) /\ {raced, raced5} \subseteq BOOLEAN
    BY <1>1 DEF IInv, RestOK
  <2> QED BY <2>1, <2>2, <2>3, <2>4, <2>5 DEF TypeOK
<1> QED BY <1>1, InvariantHolds, PTL

(* No script's verification refuses a file that could be split, and the     *)
(* partitions have the sizes asked for.                                     *)
THEOREM SplitsAreSound == Spec => []SplitSound
<1>1. ASSUME IInv
      PROVE  SplitSound
  <2> SUFFICES ASSUME NEW j \in Jobs, At(j, "load"),
                      Loadable(Tables[data]),
                      Splits(Tables[data], Ratios[Seen(j)["config"]])
               PROVE  /\ Verified(Tables[data], Ratios[Seen(j)["config"]])
                      /\ SizesAsAsked(Tables[data], Ratios[Seen(j)["config"]])
    BY DEF SplitSound
  <2>1. job[j].todo # <<>> /\ Head(job[j].todo).op = "load"
    BY DEF At
  <2>2. Basis(j) \in Bases
    BY <1>1, <2>1, BasisIsSound
  <2>3. data \in DOMAIN Tables /\ Seen(j)["config"] \in DOMAIN Ratios
    BY <2>2 DEF Basis, Bases
  <2>4. Tables[data] \in Datasets /\ Ratios[Seen(j)["config"]] \in Configs
    BY <2>3, TablesAreDatasets, RatiosAssumption
  <2> QED BY <2>4, VerificationNeverRefuses, SplitIsAPartition DEF Splits
<1> QED BY <1>1, InvariantHolds, PTL

(* Nothing that is saved was decided by a test row, except through the      *)
(* sampled column types and ties at the cut.                                *)
THEOREM TestStaysUnseen == Spec => []DecisionsIgnoreTest
<1>1. ASSUME IInv
      PROVE  DecisionsIgnoreTest
  <2> SUFFICES ASSUME NEW j \in Jobs, At(j, "dump"), Item(j) # "registry"
               PROVE  LET f == Item(j)
                          b == IF f \in {"phase6", "profile"} THEN Content(j, f).load
                               ELSE Content(j, f)
                          d == Tables[b.data]
                          c == Ratios[b.config]
                      IN \A cell \in DecidedFrom(f, d, c) \cap Cells(Test(d, c)) :
                           \/ cell \in SampleCells(d)
                           \/ cell[2] = "x" /\ ThroughTie(d, c, cell[1])
    BY DEF DecisionsIgnoreTest
  <2> DEFINE f == Item(j)
             b == IF f \in {"phase6", "profile"} THEN Content(j, f).load ELSE Content(j, f)
  <2>1. f \in Saved \ {"registry"} /\ Content(j, f) \in SoundContents(f)
    BY <1>1, ContentIsSound DEF IInv
  <2> HIDE DEF f
  <2>2. b \in Sound
    BY <2>1 DEF SoundContents, Saved
  <2> HIDE DEF b
  <2> DEFINE d == Tables[b.data]
             c == Ratios[b.config]
  <2>3. d \in Datasets /\ c \in Configs /\ c.train + c.val + c.test = 100
    BY <2>2, SoundVersions
  <2> HIDE DEF d, c
  <2>4. \A cell \in DecidedFrom(f, d, c) \cap Cells(Test(d, c)) :
          \/ cell \in SampleCells(d)
          \/ cell[2] = "x" /\ ThroughTie(d, c, cell[1])
    BY <2>1, <2>3, DecisionsReadNoTestRow
  <2> QED BY <2>4 DEF b, f, d, c
<1> QED BY <1>1, InvariantHolds, PTL

(* The engine the simulation warm-starts sees the history the offline       *)
(* features of the same rows summarise.                                     *)
THEOREM SimulationIsParity == Spec => []SimulationMatchesOffline
<1>1. ASSUME IInv
      PROVE  SimulationMatchesOffline
  <2> SUFFICES ASSUME NEW j \in Jobs, Has(j, "load")
               PROVE  SameHistory(Tables[Seen(j)["load"].data],
                                  Ratios[Seen(j)["load"].config])
    BY DEF SimulationMatchesOffline
  <2>1. Seen(j)["load"] \in Sound
    BY <1>1, HeldIsSound DEF IInv
  <2> QED BY <2>1, SoundVersions, WarmStartGivesOfflineHistory
<1> QED BY <1>1, InvariantHolds, PTL

-----------------------------------------------------------------------------
(* What a script is made of.                                                *)

\* No step of todo is in S.
Free(todo, S) ==
  todo \in Seq(LegalSteps) /\ \A i \in 1..Len(todo) : todo[i] \notin S

TrainingSteps == [op : {"train", "open", "dump"}, item : {"bundle"}]
PolicySaves == [op : {"open", "dump"}, item : {"policy", "phase5"}]
MetricReads == [op : {"read", "peek"}, item : {"phase5"}]

LEMMA ConcatParts ==
  ASSUME NEW s \in Seq(LegalSteps), NEW t \in Seq(LegalSteps)
  PROVE  /\ s \o t \in Seq(LegalSteps)
         /\ Len(s \o t) = Len(s) + Len(t)
         /\ Len(s) \in Nat /\ Len(t) \in Nat
         /\ \A i \in 1..Len(s) : (s \o t)[i] = s[i]
         /\ \A i \in 1..Len(t) : (s \o t)[Len(s) + i] = t[i]
         /\ \A i \in 1..(Len(s) + Len(t)) : i > Len(s) =>
              i - Len(s) \in 1..Len(t) /\ (s \o t)[i] = t[i - Len(s)]
<1>1. /\ s \o t \in Seq(LegalSteps)
      /\ Len(s \o t) = Len(s) + Len(t)
      /\ \A i \in 1..(Len(s) + Len(t)) :
           (s \o t)[i] = IF i <= Len(s) THEN s[i] ELSE t[i - Len(s)]
      /\ Len(s) \in Nat /\ Len(t) \in Nat
  BY ConcatProperties, LenProperties
<1> QED BY <1>1

LEMMA FreeConcat ==
  ASSUME NEW S, NEW s, NEW t, Free(s, S), Free(t, S)
  PROVE  Free(s \o t, S)
<1>1. s \in Seq(LegalSteps) /\ t \in Seq(LegalSteps)
  BY DEF Free
<1>2. ASSUME NEW i \in 1..Len(s \o t)
      PROVE  (s \o t)[i] \notin S
  <2>1. CASE i <= Len(s)
    BY <1>1, <2>1, ConcatParts DEF Free
  <2>2. CASE i > Len(s)
    BY <1>1, <2>2, ConcatParts DEF Free
  <2> QED BY <1>1, <2>1, <2>2, ConcatParts
<1> QED BY <1>1, <1>2, ConcatParts DEF Free

LEMMA FreeStep ==
  ASSUME NEW S, NEW op, NEW item, [op |-> op, item |-> item] \in LegalSteps \ S
  PROVE  Free(Step(op, item), S)
  BY DEF Step, Free

LEMMA FreePieces ==
  ASSUME NEW S
  PROVE  /\ S \cap [op : {"config", "load", "bundle", "hash", "serve", "log"},
                    item : {"config", "verified", "split", "bundle", "engine", "mlflow"}] = {} =>
              /\ Free(ReadsConfig, S) /\ Free(LoadsData, S) /\ Free(SplitsOnly, S)
              /\ Free(UsesBundle, S) /\ Free(Step("hash", "bundle"), S)
              /\ Free(Step("serve", "engine"), S) /\ Free(Step("log", "mlflow"), S)
         /\ \A f \in Files :
              [op |-> "read", item |-> f] \notin S => Free(Reads(f), S)
         /\ \A f \in Files :
              [op |-> "peek", item |-> f] \notin S => Free(Peeks(f), S)
         /\ \A f \in Saved :
              {[op |-> "open", item |-> f], [op |-> "dump", item |-> f]} \cap S = {} =>
                Free(Saves(f), S)
<1>1. ASSUME S \cap [op : {"config", "load", "bundle", "hash", "serve", "log"},
                     item : {"config", "verified", "split", "bundle", "engine", "mlflow"}] = {}
      PROVE  /\ Free(ReadsConfig, S) /\ Free(LoadsData, S) /\ Free(SplitsOnly, S)
             /\ Free(UsesBundle, S) /\ Free(Step("hash", "bundle"), S)
             /\ Free(Step("serve", "engine"), S) /\ Free(Step("log", "mlflow"), S)
  <2>1. ASSUME NEW op \in {"config", "load", "bundle", "hash", "serve", "log"},
               NEW item \in {"config", "verified", "split", "bundle", "engine", "mlflow"},
               [op |-> op, item |-> item] \in LegalSteps
        PROVE  Free(Step(op, item), S)
    BY <1>1, <2>1, FreeStep
  <2> QED BY <2>1 DEF LegalSteps, ReadsConfig, LoadsData, SplitsOnly, UsesBundle
<1>2. \A f \in Files : [op |-> "read", item |-> f] \notin S => Free(Reads(f), S)
  BY FreeStep DEF Reads, LegalSteps
<1>3. \A f \in Files : [op |-> "peek", item |-> f] \notin S => Free(Peeks(f), S)
  BY FreeStep DEF Peeks, LegalSteps
<1>4. ASSUME NEW f \in Saved,
             {[op |-> "open", item |-> f], [op |-> "dump", item |-> f]} \cap S = {}
      PROVE  Free(Saves(f), S)
  <2>1. Free(Step("open", f), S) /\ Free(Step("dump", f), S)
    BY <1>4, FreeStep DEF LegalSteps
  <2> QED BY <2>1, FreeConcat DEF Saves
<1> QED BY <1>1, <1>2, <1>3, <1>4

\* No script trains the bundle but by way of the probe.
LEMMA ProgramsDoNotTrain ==
  ASSUME NEW s \in DOMAIN Program
  PROVE  Free(Program[s], TrainingSteps)
<1>0. ASSUME NEW f \in Saved \ {"bundle"}
      PROVE  Free(Saves(f), TrainingSteps)
  <2>1. {[op |-> "open", item |-> f], [op |-> "dump", item |-> f]} \cap TrainingSteps = {}
    BY DEF TrainingSteps
  <2> QED BY <2>1, FreePieces
<1>1. /\ Free(ReadsConfig, TrainingSteps) /\ Free(LoadsData, TrainingSteps)
      /\ Free(SplitsOnly, TrainingSteps) /\ Free(UsesBundle, TrainingSteps)
      /\ Free(Step("hash", "bundle"), TrainingSteps)
      /\ Free(Step("serve", "engine"), TrainingSteps)
      /\ Free(Step("log", "mlflow"), TrainingSteps)
  BY FreePieces DEF TrainingSteps
<1>2. \A f \in Files : Free(Reads(f), TrainingSteps) /\ Free(Peeks(f), TrainingSteps)
  BY FreePieces DEF TrainingSteps
<1>3. \A f \in Saved \ {"bundle"} : Free(Saves(f), TrainingSteps)
  BY <1>0
<1>4. \A t, u : Free(t, TrainingSteps) /\ Free(u, TrainingSteps) => Free(t \o u, TrainingSteps)
  BY FreeConcat
<1>5. Free(Phase1, TrainingSteps) /\ Free(Phase2a, TrainingSteps)
  BY <1>1, <1>2, <1>3, <1>4 DEF Phase1, Phase2a, Saved, Files
<1>6. Free(Phase2b, TrainingSteps) /\ Free(Phase3, TrainingSteps) /\ Free(Phase4, TrainingSteps)
  BY <1>1, <1>2, <1>3, <1>4 DEF Phase2b, Phase3, Phase4, Saved, Files
<1>7. Free(Phase5, TrainingSteps) /\ Free(Phase6, TrainingSteps)
  BY <1>1, <1>2, <1>3, <1>4 DEF Phase5, Phase6, Saved, Files
<1>8. Free(Simulate, TrainingSteps) /\ Free(Phase10, TrainingSteps)
  BY <1>1, <1>2, <1>3, <1>4 DEF Simulate, Phase10, Saved, Files
<1>9. Free(Phase11, TrainingSteps)
  <2>1. Free(Reads("phase4") \o Reads("phase5") \o Reads("policy"), TrainingSteps)
    BY <1>2, <1>4 DEF Saved, Files
  <2>2. Free(Reads("phase4") \o Reads("phase5") \o Reads("policy") \o Step("hash", "bundle")
               \o Peeks("registry"), TrainingSteps)
    BY <2>1, <1>1, <1>2, <1>4 DEF Saved, Files
  <2> QED BY <2>2, <1>3, <1>4 DEF Phase11, Saved, Files
<1>10. Free(Mlflow, TrainingSteps)
  BY <1>1, <1>2, <1>3, <1>4 DEF Mlflow, Saved, Files
<1>11. Free(WarmService, TrainingSteps) /\ Free(ColdService, TrainingSteps)
  BY <1>1, <1>2, <1>3, <1>4 DEF WarmService, ColdService, Saved, Files
<1> QED BY <1>5, <1>6, <1>7, <1>8, <1>9, <1>10, <1>11 DEF Program

-----------------------------------------------------------------------------
(* One model.                                                               *)

Stage(step) == CASE step.op = "train" -> 1 [] step.op = "open" -> 2 [] OTHER -> 3

\* Training steps come before every other, in their order and up to the dump.
TrainingFirst(todo) ==
  /\ \A i, k \in 1..Len(todo) :
       i < k /\ todo[k] \in TrainingSteps =>
         todo[i] \in TrainingSteps /\ Stage(todo[i]) < Stage(todo[k])
  /\ \A i \in 1..Len(todo) :
       todo[i] \in TrainingSteps /\ todo[i].op # "dump" =>
         i + 1 \in 1..Len(todo) /\ todo[i + 1] \in TrainingSteps

\* The models an item that is held or saved is about.
ModelsIn(x, v) ==
  (CASE x \in {"bundle", "hash"} -> {v}
     [] x \in {"phase6", "profile"} -> {v.bundle}
     [] x = "registry" -> {v.hash}
     [] x = "mlflow" -> {v.hash} \cup (IF "bundle" \in DOMAIN v THEN {v.bundle} ELSE {})
     [] OTHER -> {}) \ {Torn}

ModelsOf(seen) == UNION {ModelsIn(x, seen[x]) : x \in DOMAIN seen}
ModelsOn(files) == UNION {ModelsIn(f, files[f]) : f \in {g \in Files : files[g] \notin Absent}}
Models == ModelsOn(file) \cup UNION {ModelsOf(Seen(j)) : j \in Jobs}

(* While training has not been raced: one job at a time trains, it found no  *)
(* bundle and there is none until it opens one, and as long as there is no   *)
(* bundle nobody else holds or has saved anything about a model.             *)
Training(j) == ~Free(job[j].todo, TrainingSteps)

OneTrainer == \A j, k \in Jobs : Training(j) /\ Training(k) => j = k

NoBundleYet ==
  \A j \in Jobs : At(j, "train") \/ (At(j, "open") /\ Item(j) = "bundle") =>
    file["bundle"] = Missing

NoModelYet ==
  file["bundle"] = Missing =>
    ModelsOn(file) = {} /\ \A j \in Jobs : ModelsOf(Seen(j)) # {} => Training(j)

NotTrainedYet == \A j \in Jobs : At(j, "train") => ModelsOf(Seen(j)) = {}

OneModel == \A a, b \in Models : a = b

ModelInv ==
  /\ \A j \in Jobs : TrainingFirst(job[j].todo)
  /\ ~raced => OneTrainer /\ NoBundleYet /\ NoModelYet /\ NotTrainedYet /\ OneModel

-----------------------------------------------------------------------------

LEMMA BuildingIsTraining ==
  ASSUME JobsOK, NEW j \in Jobs
  PROVE  Building(j) <=> Training(j)
<1>1. job[j].todo \in Seq(LegalSteps)
  BY DEF JobsOK
<1>2. \A i \in 1..Len(job[j].todo) : job[j].todo[i] \in LegalSteps
  BY <1>1, ElementOfSeq
<1>3. \A st \in LegalSteps :
        st.item = "bundle" /\ st.op \in {"train", "open", "dump"} <=> st \in TrainingSteps
  BY DEF LegalSteps, TrainingSteps
<1> QED BY <1>1, <1>2, <1>3 DEF Building, Training, Free

\* A job that is training is at a training step.
LEMMA TrainingAtHead ==
  ASSUME NEW todo \in Seq(LegalSteps), TrainingFirst(todo), ~Free(todo, TrainingSteps)
  PROVE  todo # <<>> /\ Head(todo) \in TrainingSteps
<1>1. PICK k \in 1..Len(todo) : todo[k] \in TrainingSteps
  BY DEF Free
<1>2. Len(todo) \in Nat /\ todo # <<>> /\ 1 \in 1..Len(todo) /\ Head(todo) = todo[1]
  BY <1>1, LenProperties, EmptySeq
<1>3. CASE k = 1
  BY <1>1, <1>2, <1>3
<1>4. CASE k > 1
  BY <1>1, <1>2, <1>4 DEF TrainingFirst
<1> QED BY <1>2, <1>3, <1>4

LEMMA FreeTail ==
  ASSUME NEW S, NEW todo, todo # <<>>, Free(todo, S)
  PROVE  Free(Tail(todo), S)
  BY HeadTailProperties, LenProperties, EmptySeq DEF Free

\* What is left after a step of a job that is training.
LEMMA TrainingTail ==
  ASSUME NEW todo \in Seq(LegalSteps), todo # <<>>, TrainingFirst(todo)
  PROVE  /\ TrainingFirst(Tail(todo))
         /\ Head(todo) \notin TrainingSteps => Free(Tail(todo), TrainingSteps)
         /\ Head(todo).op = "dump" => Free(Tail(todo), TrainingSteps)
         /\ \A i \in 1..Len(Tail(todo)) : Tail(todo)[i] \in TrainingSteps =>
              Stage(Head(todo)) < Stage(Tail(todo)[i])
         /\ Head(todo) \in TrainingSteps /\ Head(todo).op # "dump" =>
              ~Free(Tail(todo), TrainingSteps)
<1>1. /\ Tail(todo) \in Seq(LegalSteps)
      /\ Len(Tail(todo)) = Len(todo) - 1
      /\ \A i \in 1..Len(Tail(todo)) : Tail(todo)[i] = todo[i + 1]
  BY HeadTailProperties
<1>2. Len(todo) \in Nat /\ Len(todo) # 0 /\ Head(todo) = todo[1] /\ 1 \in 1..Len(todo)
  BY LenProperties, EmptySeq
<1>3. \A i \in 1..Len(Tail(todo)) : i + 1 \in 1..Len(todo) /\ 1 < i + 1
  BY <1>1, <1>2
<1>4. TrainingFirst(Tail(todo))
  <2>1. ASSUME NEW i \in 1..Len(Tail(todo)), NEW k \in 1..Len(Tail(todo)),
               i < k, Tail(todo)[k] \in TrainingSteps
        PROVE  /\ Tail(todo)[i] \in TrainingSteps
               /\ Stage(Tail(todo)[i]) < Stage(Tail(todo)[k])
    <3>1. i + 1 < k + 1 /\ i + 1 \in 1..Len(todo) /\ k + 1 \in 1..Len(todo)
      BY <1>3, <2>1
    <3>2. Tail(todo)[i] = todo[i + 1] /\ Tail(todo)[k] = todo[k + 1]
      BY <1>1
    <3> QED BY <2>1, <3>1, <3>2 DEF TrainingFirst
  <2>2. ASSUME NEW i \in 1..Len(Tail(todo)),
               Tail(todo)[i] \in TrainingSteps, Tail(todo)[i].op # "dump"
        PROVE  i + 1 \in 1..Len(Tail(todo)) /\ Tail(todo)[i + 1] \in TrainingSteps
    <3>1. i + 1 \in 1..Len(todo) /\ Tail(todo)[i] = todo[i + 1]
      BY <1>1, <1>3
    <3>2. (i + 1) + 1 \in 1..Len(todo) /\ todo[(i + 1) + 1] \in TrainingSteps
      BY <2>2, <3>1 DEF TrainingFirst
    <3>3. i + 1 \in 1..Len(Tail(todo))
      BY <1>1, <1>2, <3>2
    <3> QED BY <1>1, <3>2, <3>3
  <2> QED BY <2>1, <2>2 DEF TrainingFirst
<1>5. \A i \in 1..Len(Tail(todo)) : Tail(todo)[i] \in TrainingSteps =>
        Head(todo) \in TrainingSteps /\ Stage(Head(todo)) < Stage(Tail(todo)[i])
  BY <1>1, <1>2, <1>3 DEF TrainingFirst
<1>6. \A st \in TrainingSteps : Stage(st) \in 1..3
  BY DEF TrainingSteps, Stage
<1>7. Head(todo).op = "dump" => Stage(Head(todo)) = 3
  BY DEF Stage
<1>8. ASSUME Head(todo) \in TrainingSteps, Head(todo).op # "dump"
      PROVE  ~Free(Tail(todo), TrainingSteps)
  <2>1. 1 + 1 \in 1..Len(todo) /\ todo[1 + 1] \in TrainingSteps
    BY <1>2, <1>8 DEF TrainingFirst
  <2>2. 1 \in 1..Len(Tail(todo)) /\ Tail(todo)[1] \in TrainingSteps
    BY <1>1, <1>2, <2>1
  <2> QED BY <2>2 DEF Free
<1> QED BY <1>1, <1>4, <1>5, <1>6, <1>7, <1>8 DEF Free

LEMMA AtTraining ==
  ASSUME NEW j \in Jobs, job[j].todo \in Seq(LegalSteps),
         At(j, "train") \/ (At(j, "open") /\ Item(j) = "bundle")
  PROVE  Training(j)
<1>1. job[j].todo # <<>> /\ Head(job[j].todo) = job[j].todo[1] /\ 1 \in 1..Len(job[j].todo)
  BY LenProperties, EmptySeq DEF At
<1>2. job[j].todo[1] \in LegalSteps
  BY <1>1, ElementOfSeq
<1>3. job[j].todo[1] \in TrainingSteps
  BY <1>1, <1>2 DEF At, Item, LegalSteps, TrainingSteps
<1> QED BY <1>1, <1>3 DEF Training, Free

(* A step of a job that leaves it not training and brings no model that was  *)
(* not there, in memory or in a file.                                       *)
LEMMA OtherStepKeeps ==
  ASSUME ModelInv, NEW j \in Jobs, NEW new,
         job \in [Jobs -> [script : DOMAIN Program \cup {"none"}, todo : Seq(LegalSteps),
                           seen : Memories]],
         job' = [job EXCEPT ![j] = new],
         raced' = raced,
         Free(new.todo, TrainingSteps),
         \/ file'["bundle"] = file["bundle"]
         \/ Training(j) /\ file'["bundle"] # Missing,
         ModelsOn(file') \subseteq ModelsOn(file) \cup ModelsOf(Seen(j)),
         ModelsOf(new.seen) \subseteq ModelsOn(file) \cup ModelsOf(Seen(j)),
         \/ raced \/ ~Training(j) \/ file'["bundle"] # Missing
         \/ ModelsOn(file') \cup ModelsOf(new.seen) = {}
  PROVE  ModelInv'
<1>1. /\ job'[j] = new
      /\ \A k \in Jobs : k # j => job'[k] = job[k]
  OBVIOUS
<1>2. ASSUME NEW k \in Jobs
      PROVE  TrainingFirst(job'[k].todo)
  <2>1. CASE k = j
    BY <1>1, <2>1 DEF Free, TrainingFirst
  <2>2. CASE k # j
    BY <1>1, <2>2 DEF ModelInv
  <2> QED BY <2>1, <2>2
<1>3. ASSUME ~raced'
      PROVE  (OneTrainer /\ NoBundleYet /\ NoModelYet /\ NotTrainedYet /\ OneModel)'
  <2>1. OneTrainer /\ NoBundleYet /\ NoModelYet /\ NotTrainedYet /\ OneModel
    BY <1>3 DEF ModelInv
  <2>2. /\ ~Training(j)'
        /\ \A k \in Jobs : k # j => (Training(k)' <=> Training(k)) /\ Seen(k)' = Seen(k)
        /\ Seen(j)' = new.seen
    BY <1>1 DEF Training, Seen
  <2>3. \A st \in TrainingSteps : st.op \in {"train", "open", "dump"} /\ st.item = "bundle"
    BY DEF TrainingSteps
  <2>4. ~(At(j, "train")') /\ ~(At(j, "open")' /\ Item(j)' = "bundle")
    <3>1. SUFFICES ASSUME new.todo # <<>>
                   PROVE  Head(new.todo) \notin TrainingSteps /\ Head(new.todo) \in LegalSteps
      BY <1>1 DEF At, Item, TrainingSteps, LegalSteps
    <3>2. 1 \in 1..Len(new.todo) /\ Head(new.todo) = new.todo[1] /\ new.todo \in Seq(LegalSteps)
      BY <3>1, LenProperties, EmptySeq DEF Free
    <3> QED BY <3>2, ElementOfSeq DEF Free
  <2>5. \A k \in Jobs : k # j =>
          /\ At(k, "train")' <=> At(k, "train")
          /\ At(k, "open")' <=> At(k, "open")
          /\ Item(k)' = Item(k)
    BY <1>1 DEF At, Item
  <2>6. OneTrainer'
    BY <2>1, <2>2 DEF OneTrainer
  <2>7. ASSUME NEW k \in Jobs, At(k, "train")' \/ (At(k, "open")' /\ Item(k)' = "bundle")
        PROVE  file'["bundle"] = Missing
    <3>1. k # j /\ (At(k, "train") \/ (At(k, "open") /\ Item(k) = "bundle"))
      BY <2>4, <2>5, <2>7
    <3>2. Training(k) /\ file["bundle"] = Missing
      BY <2>1, <3>1, AtTraining DEF NoBundleYet
    <3> QED BY <2>1, <3>1, <3>2 DEF OneTrainer
  <2>8. NoBundleYet'
    BY <2>7 DEF NoBundleYet
  <2>9. ASSUME file'["bundle"] = Missing
        PROVE  /\ ModelsOn(file') = {}
               /\ \A k \in Jobs : ModelsOf(Seen(k)') # {} => Training(k)'
    <3>1. /\ ModelsOn(file) = {}
          /\ \A k \in Jobs : ModelsOf(Seen(k)) # {} => Training(k)
      BY <2>1, <2>9 DEF NoModelYet
    <3>2. ModelsOn(file') = {} /\ ModelsOf(new.seen) = {}
      BY <1>3, <2>9, <3>1
    <3> QED BY <2>2, <3>1, <3>2
  <2>10. NoModelYet'
    BY <2>9 DEF NoModelYet
  <2>11. NotTrainedYet'
    BY <2>1, <2>2, <2>4, <2>5 DEF NotTrainedYet
  <2>12. ModelsOf(new.seen) \subseteq Models /\ ModelsOn(file') \subseteq Models
    BY DEF Models
  <2>13. \A k \in Jobs : ModelsOf(Seen(k)') \subseteq Models
    BY <2>2, <2>12 DEF Models
  <2>14. Models' \subseteq Models
    BY <2>12, <2>13 DEF Models
  <2>15. OneModel'
    BY <2>1, <2>14 DEF OneModel
  <2> QED BY <2>6, <2>8, <2>10, <2>11, <2>15
<1> QED BY <1>2, <1>3 DEF ModelInv

\* The models a step learns, of an item of a file or of memory.
LEMMA ModelsLearned ==
  ASSUME NEW m, NEW x, NEW v
  PROVE  ModelsOf(With(m, x, v)) \subseteq ModelsOf(m) \cup ModelsIn(x, v)
  BY DEF ModelsOf, With

LEMMA ModelsSaved ==
  ASSUME file \in [Files -> Absent \cup UNION {SoundContents(f) : f \in Files}],
         NEW f \in Files, NEW v, file' = [file EXCEPT ![f] = v]
  PROVE  /\ ModelsOn(file') \subseteq
              ModelsOn(file) \cup (IF v \in Absent THEN {} ELSE ModelsIn(f, v))
         /\ file'[f] = v
         /\ \A g \in Files : g # f => file'[g] = file[g]
  BY DEF ModelsOn

LEMMA ModelsRead ==
  ASSUME NEW f \in Files, file[f] \notin Absent
  PROVE  ModelsIn(f, file[f]) \subseteq ModelsOn(file)
  BY DEF ModelsOn

LEMMA EmptyHoldsNoModel == ModelsOf(<<>>) = {}
  BY EmptyMemory DEF ModelsOf

\* What a job saves is about the models it holds.
LEMMA ModelsInContent ==
  ASSUME JobsOK, NEW j \in Jobs, At(j, "open") \/ At(j, "dump")
  PROVE  ModelsIn(Item(j), Content(j, Item(j))) \subseteq ModelsOf(Seen(j))
<1> DEFINE f == Item(j)
           m == Seen(j)
<1>1. f \in Saved /\ NeedsToSave(f) \subseteq DOMAIN m
  <2>1. /\ Head(job[j].todo) \in LegalSteps
        /\ Needs(Head(job[j].todo)) \subseteq DOMAIN m
    BY HeadSupplied DEF At
  <2> QED BY <2>1 DEF At, Item, LegalSteps, Needs
<1> HIDE DEF f, m
<1>2. \A x \in DOMAIN m : ModelsIn(x, m[x]) \subseteq ModelsOf(m)
  BY DEF ModelsOf
<1>3. CASE f = "bundle"
  BY <1>1, <1>2, <1>3 DEF Content, NeedsToSave, f, m
<1>4. CASE f \in {"phase6", "profile"}
  <2>1. "bundle" \in DOMAIN m
    BY <1>1, <1>4 DEF NeedsToSave
  <2>2. Content(j, f).bundle = m["bundle"]
    BY <1>4, <2>1 DEF Content, Restrict, m
  <2>3. ModelsIn(f, Content(j, f)) = ModelsIn("bundle", m["bundle"])
    BY <1>4, <2>2 DEF ModelsIn
  <2> QED BY <1>2, <2>1, <2>3 DEF f, m
<1>5. CASE f = "registry" /\ Has(j, "registry")
  BY <1>2, <1>5 DEF Content, Has, f, m
<1>6. CASE f = "registry" /\ ~Has(j, "registry")
  <2>1. "hash" \in DOMAIN m
    BY <1>1, <1>6 DEF NeedsToSave
  <2>2. Content(j, f).hash = m["hash"]
    BY <1>6, <2>1 DEF Content, Restrict, m
  <2>3. ModelsIn(f, Content(j, f)) = ModelsIn("hash", m["hash"])
    BY <1>6, <2>2 DEF ModelsIn
  <2> QED BY <1>2, <2>1, <2>3 DEF f, m
<1>7. CASE f \notin {"bundle", "phase6", "profile", "registry"}
  BY <1>1, <1>7 DEF ModelsIn, Saved, f
<1> QED BY <1>3, <1>4, <1>5, <1>6, <1>7

\* What a step leaves of its job: nothing, or the steps after it.
LEMMA JobAfterStep ==
  ASSUME JobsOK, NEW j \in Jobs, job[j].todo # <<>>, NEW m, Advance(j, m)
  PROVE  \E new : /\ job' = [job EXCEPT ![j] = new]
                  /\ \/ new = Idle
                     \/ /\ new.script = job[j].script
                        /\ new.todo = Tail(job[j].todo) /\ new.seen = m
                        /\ Len(job[j].todo) # 1
<1> DEFINE new == IF Len(job[j].todo) = 1 THEN Idle
                  ELSE [script |-> job[j].script, todo |-> Tail(job[j].todo), seen |-> m]
<1>1. job' = [job EXCEPT ![j] = new]
  BY DEF Advance
<1>2. \/ new = Idle
      \/ /\ new.script = job[j].script
         /\ new.todo = Tail(job[j].todo) /\ new.seen = m
         /\ Len(job[j].todo) # 1
  OBVIOUS
<1> HIDE DEF new
<1> QED BY <1>1, <1>2

\* A job that is not at a training step has none to take.
LEMMA NotTraining ==
  ASSUME JobsOK, ModelInv, NEW j \in Jobs, job[j].todo # <<>>,
         Head(job[j].todo) \notin TrainingSteps
  PROVE  ~Training(j)
<1>1. job[j].todo \in Seq(LegalSteps) /\ TrainingFirst(job[j].todo)
  BY DEF JobsOK, ModelInv
<1> QED BY <1>1, TrainingAtHead DEF Training

LEMMA IdleIsFree ==
  /\ Free(Idle.todo, TrainingSteps)
  /\ ModelsOf(Idle.seen) = {}
<1>1. <<>> \in Seq(LegalSteps) /\ Len(<<>>) = 0
  BY EmptySeq
<1> QED BY <1>1, EmptyHoldsNoModel DEF Idle, Free

(* A step that is not one of the training and changes nothing but the job,   *)
(* whose memory is about the models it held and those in the files.         *)
LEMMA MemoryStepKeeps ==
  ASSUME IInv, ModelInv, NEW j \in Jobs, job[j].todo # <<>>,
         Head(job[j].todo) \notin TrainingSteps, UNCHANGED <<file, raced>>,
         \/ Fail(j)
         \/ \E m : Advance(j, m) /\ ModelsOf(m) \subseteq ModelsOn(file) \cup ModelsOf(Seen(j))
  PROVE  ModelInv'
<1>1. ~Training(j) /\ JobsOK
  BY NotTraining DEF IInv
<1>2. Free(Tail(job[j].todo), TrainingSteps)
  BY <1>1, FreeTail DEF Training
<1>3. PICK new : /\ job' = [job EXCEPT ![j] = new]
                 /\ Free(new.todo, TrainingSteps)
                 /\ ModelsOf(new.seen) \subseteq ModelsOn(file) \cup ModelsOf(Seen(j))
  <2>1. CASE Fail(j)
    BY <2>1, IdleIsFree DEF Fail
  <2>2. ASSUME NEW m, Advance(j, m),
               ModelsOf(m) \subseteq ModelsOn(file) \cup ModelsOf(Seen(j))
        PROVE  \E new : /\ job' = [job EXCEPT ![j] = new]
                        /\ Free(new.todo, TrainingSteps)
                        /\ ModelsOf(new.seen) \subseteq ModelsOn(file) \cup ModelsOf(Seen(j))
    BY <1>1, <1>2, <2>2, JobAfterStep, IdleIsFree
  <2> QED BY <2>1, <2>2
<1>4. job \in [Jobs -> [script : DOMAIN Program \cup {"none"}, todo : Seq(LegalSteps),
                        seen : Memories]]
  BY <1>1 DEF JobsOK
<1> QED BY <1>1, <1>3, <1>4, OtherStepKeeps

\* ... with one item more in memory.
LEMMA LearnStepKeeps ==
  ASSUME IInv, ModelInv, NEW j \in Jobs, job[j].todo # <<>>,
         Head(job[j].todo) \notin TrainingSteps, UNCHANGED <<file, raced>>,
         NEW x, NEW v, Learn(j, x, v),
         ModelsIn(x, v) \subseteq ModelsOn(file) \cup ModelsOf(Seen(j))
  PROVE  ModelInv'
<1>1. Advance(j, With(Seen(j), x, v))
  BY DEF Learn
<1>2. ModelsOf(With(Seen(j), x, v)) \subseteq ModelsOn(file) \cup ModelsOf(Seen(j))
  BY ModelsLearned
<1> QED BY <1>1, <1>2, MemoryStepKeeps

LEMMA StartKeepsModel ==
  ASSUME IInv, ModelInv, NEW j \in Jobs, Start(j)
  PROVE  ModelInv'
<1> DEFINE s == Head(plan)
           new == [script |-> s, todo |-> Program[s], seen |-> <<>>]
<1>1. s \in DOMAIN Program
  BY HeadTailProperties DEF Start, IInv, RestOK
<1>2. Free(new.todo, TrainingSteps) /\ ModelsOf(new.seen) = {}
  BY <1>1, ProgramsDoNotTrain, EmptyHoldsNoModel
<1>3. job' = [job EXCEPT ![j] = new] /\ UNCHANGED <<file, raced>>
  BY DEF Start
<1>4. ~Training(j)
  <2>1. job[j].todo = <<>>
    BY DEF IInv, JobsOK, Start
  <2> QED BY <2>1, EmptySeq DEF Training, Free
<1> HIDE DEF new
<1>5. job \in [Jobs -> [script : DOMAIN Program \cup {"none"}, todo : Seq(LegalSteps),
                        seen : Memories]]
  BY DEF IInv, JobsOK
<1> QED BY <1>2, <1>3, <1>4, <1>5, OtherStepKeeps

LEMMA ReadingKeepsModel ==
  ASSUME IInv, ModelInv, NEW j \in Jobs,
         \/ ReadConfig(j) \/ LoadData(j) \/ ReadFile(j) \/ PeekFile(j) \/ HashBundle(j)
  PROVE  ModelInv'
<1>1. JobsOK /\ job[j].todo # <<>> /\ UNCHANGED <<file, raced>>
  BY DEF IInv, ReadConfig, LoadData, ReadFile, PeekFile, HashBundle, At
<1>2. Head(job[j].todo).op \in {"config", "load", "read", "peek", "hash"}
  BY DEF ReadConfig, LoadData, ReadFile, PeekFile, HashBundle, At
<1>3. Head(job[j].todo) \notin TrainingSteps
  BY <1>2 DEF TrainingSteps
<1>4. CASE Fail(j)
  BY <1>1, <1>3, <1>4, MemoryStepKeeps
<1>5. CASE Advance(j, Seen(j))
  BY <1>1, <1>3, <1>5, MemoryStepKeeps
<1>6. CASE ReadConfig(j) \/ LoadData(j)
  <2>1. ModelsIn("config", config) = {} /\ ModelsIn("load", Basis(j)) = {}
    BY DEF ModelsIn
  <2>2. Fail(j) \/ Learn(j, "config", config) \/ Learn(j, "load", Basis(j))
    BY <1>6 DEF ReadConfig, LoadData
  <2> QED BY <1>1, <1>3, <1>4, <2>1, <2>2, LearnStepKeeps
<1>7. CASE ReadFile(j) \/ PeekFile(j)
  <2> DEFINE f == Item(j)
  <2>1. f \in Files
    BY <1>1, <1>7, HeadSupplied DEF ReadFile, PeekFile, At, Item, LegalSteps
  <2>2. \/ Fail(j) \/ Advance(j, Seen(j))
        \/ Learn(j, f, file[f]) /\ file[f] \notin Absent
    BY <1>7 DEF ReadFile, PeekFile
  <2> HIDE DEF f
  <2>3. CASE Learn(j, f, file[f]) /\ file[f] \notin Absent
    BY <1>1, <1>3, <2>1, <2>3, ModelsRead, LearnStepKeeps
  <2> QED BY <1>4, <1>5, <2>2, <2>3
<1>8. CASE HashBundle(j)
  <2>1. Fail(j) \/ (Learn(j, "hash", file["bundle"]) /\ file["bundle"] # Missing)
    BY <1>8 DEF HashBundle
  <2>2. CASE Learn(j, "hash", file["bundle"]) /\ file["bundle"] # Missing
    <3>1. ModelsIn("hash", file["bundle"]) \subseteq ModelsOn(file)
      <4>1. CASE file["bundle"] = Torn
        BY <4>1 DEF ModelsIn
      <4>2. CASE file["bundle"] # Torn
        <5>1. ModelsIn("hash", file["bundle"]) = ModelsIn("bundle", file["bundle"])
          BY DEF ModelsIn
        <5> QED BY <2>2, <4>2, <5>1, ModelsRead DEF Absent, Files, Saved
      <4> QED BY <4>1, <4>2
    <3> QED BY <1>1, <1>3, <2>2, <3>1, LearnStepKeeps
  <2> QED BY <1>4, <2>1, <2>2
<1> QED BY <1>6, <1>7, <1>8

\* The training is put in front of the steps that are left.
LEMMA TrainingPut ==
  ASSUME NEW todo, Free(todo, TrainingSteps)
  PROVE  TrainingFirst(TrainsBundle \o todo)
<1> DEFINE st(op) == [op |-> op, item |-> "bundle"]
           s == TrainsBundle
<1>1. todo \in Seq(LegalSteps) /\ \A i \in 1..Len(todo) : todo[i] \notin TrainingSteps
  BY DEF Free
<1>2. /\ Saves("bundle") \in Seq(LegalSteps) /\ Len(Saves("bundle")) = 2
      /\ Saves("bundle")[1] = st("open") /\ Saves("bundle")[2] = st("dump")
  <2>1. /\ Step("open", "bundle") \in Seq(LegalSteps) /\ Step("dump", "bundle") \in Seq(LegalSteps)
        /\ Len(Step("open", "bundle")) = 1 /\ Len(Step("dump", "bundle")) = 1
        /\ Step("open", "bundle")[1] = st("open") /\ Step("dump", "bundle")[1] = st("dump")
    BY DEF Step, LegalSteps, Saved
  <2> QED BY <2>1, ConcatParts DEF Saves
<1>3. /\ s \in Seq(LegalSteps) /\ Len(s) = 3
      /\ s[1] = st("train") /\ s[2] = st("open") /\ s[3] = st("dump")
  <2>1. /\ Step("train", "bundle") \in Seq(LegalSteps) /\ Len(Step("train", "bundle")) = 1
        /\ Step("train", "bundle")[1] = st("train")
    BY DEF Step, LegalSteps
  <2> DEFINE a == Step("train", "bundle")
             b == Saves("bundle")
  <2> HIDE DEF a, b, st
  <2>2. /\ a \o b \in Seq(LegalSteps) /\ Len(a \o b) = Len(a) + Len(b)
        /\ \A i \in 1..Len(a) : (a \o b)[i] = a[i]
        /\ \A i \in 1..Len(b) : (a \o b)[Len(a) + i] = b[i]
    BY <1>2, <2>1, ConcatParts DEF a, b
  <2>3. Len(a) = 1 /\ Len(b) = 2 /\ a[1] = st("train") /\ b[1] = st("open") /\ b[2] = st("dump")
    BY <1>2, <2>1 DEF a, b
  <2>4. /\ Len(a \o b) = 3 /\ (a \o b)[1] = st("train")
        /\ (a \o b)[2] = st("open") /\ (a \o b)[3] = st("dump")
    BY <2>2, <2>3
  <2> QED BY <2>2, <2>4 DEF TrainsBundle, a, b
<1> DEFINE new == s \o todo
<1>4. /\ Len(new) = 3 + Len(todo) /\ Len(todo) \in Nat
      /\ \A i \in 1..3 : new[i] = s[i]
      /\ \A i \in 1..(3 + Len(todo)) : i > 3 => new[i] \notin TrainingSteps
  <2> HIDE DEF s
  <2>1. /\ Len(new) = Len(s) + Len(todo) /\ Len(todo) \in Nat
        /\ \A i \in 1..Len(s) : new[i] = s[i]
        /\ \A i \in 1..(Len(s) + Len(todo)) : i > Len(s) =>
             i - Len(s) \in 1..Len(todo) /\ new[i] = todo[i - Len(s)]
    BY <1>1, <1>3, ConcatParts
  <2> QED BY <1>1, <1>3, <2>1
<1> HIDE DEF new, s
<1>5. /\ st("train") \in TrainingSteps /\ st("open") \in TrainingSteps
      /\ st("dump") \in TrainingSteps
      /\ Stage(st("train")) = 1 /\ Stage(st("open")) = 2 /\ Stage(st("dump")) = 3
  BY DEF TrainingSteps, Stage
<1>6. \A i \in 1..Len(new) : new[i] \in TrainingSteps <=> i \in 1..3
  BY <1>3, <1>4, <1>5
<1>7. \A i \in 1..3 : Stage(new[i]) = i
  BY <1>3, <1>4, <1>5
<1>8. new[3].op = "dump"
  BY <1>3, <1>4
<1> DEFINE L == Len(new)
<1>9. L \in Nat /\ L >= 3 /\ \A i \in 1..L : new[i] \in TrainingSteps <=> i \in 1..3
  BY <1>4, <1>6
<1> HIDE DEF L
<1>10. ASSUME NEW i \in 1..L, NEW k \in 1..L, i < k, new[k] \in TrainingSteps
       PROVE  new[i] \in TrainingSteps /\ Stage(new[i]) < Stage(new[k])
  <2>1. k \in 1..3
    BY <1>9, <1>10
  <2>2. i \in 1..3
    BY <1>9, <1>10, <2>1
  <2>3. Stage(new[i]) = i /\ Stage(new[k]) = k
    BY <1>7, <2>1, <2>2
  <2> QED BY <1>9, <1>10, <2>2, <2>3
<1>11. ASSUME NEW i \in 1..L, new[i] \in TrainingSteps, new[i].op # "dump"
       PROVE  i + 1 \in 1..L /\ new[i + 1] \in TrainingSteps
  <2>1. i \in 1..3
    BY <1>9, <1>11
  <2>2. i # 3
    BY <1>8, <1>11
  <2>3. i + 1 \in 1..3 /\ i + 1 \in 1..L
    BY <1>9, <2>1, <2>2
  <2> QED BY <1>9, <2>3
<1>12. TrainingFirst(new)
  BY <1>10, <1>11 DEF TrainingFirst, L
<1> QED BY <1>12 DEF new, s

\* A probe that finds no bundle: the job is the only one that will train.
LEMMA ProbeBundleKeepsModel ==
  ASSUME IInv, ModelInv, NEW j \in Jobs, ProbeBundle(j)
  PROVE  ModelInv'
<1>1. JobsOK /\ job[j].todo # <<>> /\ UNCHANGED file /\ Head(job[j].todo).op = "bundle"
  BY DEF IInv, ProbeBundle, At
<1>2. Head(job[j].todo) \notin TrainingSteps
  BY <1>1 DEF TrainingSteps
<1>3. ~Training(j)
  BY <1>1, <1>2, NotTraining
<1>4. CASE Fail(j) /\ UNCHANGED raced
  BY <1>1, <1>2, <1>4, MemoryStepKeeps
<1>5. CASE Learn(j, "bundle", file["bundle"]) /\ file["bundle"] \notin Absent /\ UNCHANGED raced
  <2>1. ModelsIn("bundle", file["bundle"]) \subseteq ModelsOn(file)
    BY <1>5, ModelsRead DEF Files, Saved
  <2> QED BY <1>1, <1>2, <1>5, <2>1, LearnStepKeeps
<1>6. CASE /\ file["bundle"] = Missing
           /\ job' = [job EXCEPT ![j].todo = TrainsBundle \o Tail(@)]
           /\ raced' = (raced \/ \E k \in Jobs \ {j} : Building(k))
  <2> DEFINE tail == Tail(job[j].todo)
             new == TrainsBundle \o tail
  <2>1. Free(tail, TrainingSteps)
    BY <1>1, <1>3, FreeTail DEF Training
  <2>2. TrainingFirst(new)
    BY <2>1, TrainingPut
  <2>3. /\ job'[j].todo = new /\ job'[j].seen = job[j].seen
        /\ \A k \in Jobs : k # j => job'[k] = job[k]
    BY <1>6 DEF IInv, JobsOK
  <2>4. \A k \in Jobs : TrainingFirst(job'[k].todo)
    BY <2>2, <2>3 DEF ModelInv
  <2>5. ASSUME ~raced'
        PROVE  (OneTrainer /\ NoBundleYet /\ NoModelYet /\ NotTrainedYet /\ OneModel)'
    <3>1. OneTrainer /\ NoBundleYet /\ NoModelYet /\ NotTrainedYet /\ OneModel
      BY <1>6, <2>5 DEF ModelInv
    <3>2. \A k \in Jobs : k # j => ~Training(k)
      BY <1>1, <1>6, <2>5, BuildingIsTraining
    <3>3. \A k \in Jobs : Seen(k)' = Seen(k) /\ (k # j => ~Training(k)')
      BY <2>3, <3>2 DEF Seen, Training
    <3>4. OneTrainer'
      BY <3>3 DEF OneTrainer
    <3>5. NoBundleYet'
      BY <1>1, <1>6 DEF NoBundleYet
    <3>6. ModelsOn(file)' = {} /\ \A k \in Jobs : ModelsOf(Seen(k))' = {}
      BY <1>1, <1>3, <1>6, <3>1, <3>2, <3>3 DEF NoModelYet
    <3>7. NoModelYet' /\ NotTrainedYet' /\ OneModel'
      BY <3>6 DEF NoModelYet, NotTrainedYet, OneModel, Models
    <3> QED BY <3>4, <3>5, <3>7
  <2> QED BY <2>4, <2>5 DEF ModelInv
<1> QED BY <1>4, <1>5, <1>6 DEF ProbeBundle

\* Training makes the one model there is.
LEMMA TrainBundleKeepsModel ==
  ASSUME IInv, ModelInv, NEW j \in Jobs, TrainBundle(j)
  PROVE  ModelInv'
<1>1. JobsOK /\ job[j].todo # <<>> /\ UNCHANGED <<file, raced>> /\ At(j, "train")
  BY DEF IInv, TrainBundle, At
<1>2. job \in [Jobs -> [script : DOMAIN Program \cup {"none"}, todo : Seq(LegalSteps),
                        seen : Memories]]
  BY <1>1 DEF JobsOK
<1>3. Training(j)
  BY <1>1, <1>2, AtTraining
<1>4. CASE Fail(j)
  <2>1. raced \/ ModelsOn(file') = {}
    BY <1>1 DEF ModelInv, NoBundleYet, NoModelYet
  <2>2. job' = [job EXCEPT ![j] = Idle]
    BY <1>4 DEF Fail
  <2> QED BY <1>1, <1>2, <2>1, <2>2, IdleIsFree, OtherStepKeeps
<1>5. CASE Learn(j, "bundle", Basis(j))
  <2> DEFINE m == With(Seen(j), "bundle", Basis(j))
             todo == job[j].todo
  <2>1. PICK new : /\ job' = [job EXCEPT ![j] = new]
                   /\ new = Idle \/ (new.todo = Tail(todo) /\ new.seen = m)
    BY <1>1, <1>5, JobAfterStep DEF Learn
  <2> HIDE DEF m
  <2>2. todo \in Seq(LegalSteps) /\ TrainingFirst(todo) /\ todo # <<>>
    BY <1>1, <1>2 DEF ModelInv
  <2>3. /\ TrainingFirst(Tail(todo))
        /\ \A i \in 1..Len(Tail(todo)) : Tail(todo)[i].op = "train" =>
             Tail(todo)[i] \notin TrainingSteps
    <3>1. Stage(Head(todo)) = 1 /\ \A st : st.op = "train" => Stage(st) = 1
      BY <1>1 DEF Stage, At
    <3> QED BY <2>2, <3>1, TrainingTail
  <2>4. TrainingFirst(new.todo) /\ new.todo \in Seq(LegalSteps)
    <3>1. CASE new = Idle
      BY <3>1, IdleIsFree DEF Free, TrainingFirst
    <3>2. CASE new.todo = Tail(todo)
      <4>1. Tail(todo) \in Seq(LegalSteps)
        BY <2>2, HeadTailProperties
      <4> QED BY <2>3, <3>2, <4>1
    <3> QED BY <2>1, <3>1, <3>2
  <2>5. /\ job'[j] = new
        /\ \A k \in Jobs : k # j => job'[k] = job[k]
    BY <1>2, <2>1
  <2>6. \A k \in Jobs : TrainingFirst(job'[k].todo)
    BY <2>4, <2>5 DEF ModelInv
  <2>7. ASSUME ~raced'
        PROVE  (OneTrainer /\ NoBundleYet /\ NoModelYet /\ NotTrainedYet /\ OneModel)'
    <3>1. OneTrainer /\ NoBundleYet /\ NoModelYet /\ NotTrainedYet /\ OneModel
      BY <1>1, <2>7 DEF ModelInv
    <3>2. file["bundle"] = Missing
      BY <1>1, <3>1 DEF NoBundleYet
    <3>3. ModelsOf(Seen(j)) = {} /\ ModelsOn(file) = {}
      BY <1>1, <3>1, <3>2 DEF NotTrainedYet, NoModelYet
    <3>4. \A k \in Jobs : k # j => ~Training(k) /\ ModelsOf(Seen(k)) = {}
      BY <1>3, <3>1, <3>2 DEF OneTrainer, NoModelYet
    <3>5. ModelsOf(new.seen) \subseteq {Basis(j)}
      <4>1. ModelsIn("bundle", Basis(j)) \subseteq {Basis(j)}
        BY DEF ModelsIn
      <4> QED BY <2>1, <3>3, <4>1, ModelsLearned, IdleIsFree DEF m
    <3>6. \A k \in Jobs : k # j => ~Training(k)' /\ ModelsOf(Seen(k)') = {}
      BY <2>5, <3>4 DEF Training, Seen
    <3>7. OneTrainer'
      BY <3>6 DEF OneTrainer
    <3>8. NoBundleYet'
      BY <1>1, <3>2 DEF NoBundleYet
    <3>9. ModelsOn(file)' = {} /\ ModelsOf(Seen(j)') \subseteq {Basis(j)}
      BY <1>1, <2>5, <3>3, <3>5 DEF Seen
    <3>10. OneModel'
      BY <3>6, <3>9 DEF OneModel, Models
    <3>11. ModelsOf(Seen(j)') # {} => Training(j)'
      <4>1. CASE new = Idle
        BY <2>5, <4>1, IdleIsFree DEF Seen
      <4>2. CASE new.todo = Tail(todo)
        <5>1. Head(todo) \in LegalSteps /\ Head(todo).op = "train"
          BY <1>1, HeadSupplied DEF At
        <5>2. Head(todo) \in TrainingSteps
          BY <5>1 DEF LegalSteps, TrainingSteps
        <5>3. ~Free(Tail(todo), TrainingSteps)
          BY <2>2, <5>1, <5>2, TrainingTail
        <5> QED BY <2>5, <4>2, <5>3 DEF Training
      <4> QED BY <2>1, <4>1, <4>2
    <3>12. NoModelYet'
      BY <3>6, <3>9, <3>11 DEF NoModelYet
    <3>13. ~At(j, "train")'
      <4>1. SUFFICES ASSUME new.todo # <<>>
                     PROVE  Head(new.todo).op # "train"
        BY <2>5 DEF At
      <4>2. 1 \in 1..Len(new.todo) /\ Head(new.todo) = new.todo[1]
        BY <2>4, <4>1, LenProperties, EmptySeq
      <4>3. new.todo = Tail(todo)
        BY <2>1, <4>1 DEF Idle
      <4>4. new.todo[1] \in LegalSteps
        BY <2>4, <4>2, ElementOfSeq
      <4> QED BY <2>3, <4>2, <4>3, <4>4 DEF LegalSteps, TrainingSteps
    <3>14. NotTrainedYet'
      BY <3>6, <3>13 DEF NotTrainedYet
    <3> QED BY <3>7, <3>8, <3>10, <3>12, <3>14
  <2> QED BY <2>6, <2>7 DEF ModelInv
<1> QED BY <1>4, <1>5 DEF TrainBundle

\* Nothing the invariant is about changes.
LEMMA UnchangedModel ==
  ASSUME ModelInv, UNCHANGED <<file, job, raced>>
  PROVE  ModelInv'
<1>1. \A j \in Jobs : TrainingFirst(job'[j].todo)
  BY DEF ModelInv
<1>2. Models' = Models
  BY DEF Models, Seen
<1>3. OneTrainer' <=> OneTrainer
  BY DEF OneTrainer, Training
<1>4. NoBundleYet' <=> NoBundleYet
  BY DEF NoBundleYet, At, Item
<1>5. NoModelYet' <=> NoModelYet
  BY DEF NoModelYet, Seen, Training
<1>6. NotTrainedYet' <=> NotTrainedYet
  BY DEF NotTrainedYet, Seen, At
<1> QED BY <1>1, <1>2, <1>3, <1>4, <1>5, <1>6 DEF ModelInv, OneModel

\* From the opening to the dump the bundle is there, and cannot be read.
LEMMA OpenBundleKeepsModel ==
  ASSUME IInv, ModelInv, NEW j \in Jobs, OpenFile(j), Item(j) = "bundle"
  PROVE  ModelInv'
<1> DEFINE todo == job[j].todo
<1>1. JobsOK /\ FilesOK /\ At(j, "open") /\ todo # <<>> /\ UNCHANGED raced
  BY DEF OpenFile, IInv, At
<1>2. todo \in Seq(LegalSteps) /\ TrainingFirst(todo)
  BY <1>1 DEF JobsOK, ModelInv
<1>3. Training(j)
  BY <1>1, <1>2, AtTraining
<1>4. PICK new : /\ job' = [job EXCEPT ![j] = new]
                 /\ new = Idle \/ (new.todo = Tail(todo) /\ new.seen = Seen(j))
  BY <1>1, JobAfterStep DEF OpenFile
<1>5. job'[j] = new /\ \A k \in Jobs : k # j => job'[k] = job[k]
  BY <1>1, <1>4 DEF JobsOK
<1>6. /\ TrainingFirst(new.todo) /\ new.todo \in Seq(LegalSteps)
      /\ \A i \in 1..Len(new.todo) : new.todo[i].op \in {"train", "open"} =>
           new.todo[i] \notin TrainingSteps
  <2>1. Stage(Head(todo)) = 2 /\ \A st : st.op \in {"train", "open"} => Stage(st) <= 2
    BY <1>1 DEF Stage, At
  <2>2. \A st : Stage(st) \in 1..3
    BY DEF Stage
  <2>3. CASE new = Idle
    BY <2>3, IdleIsFree DEF Free, TrainingFirst
  <2>4. CASE new.todo = Tail(todo)
    <3>1. Tail(todo) \in Seq(LegalSteps)
      BY <1>1, <1>2, HeadTailProperties
    <3>2. /\ TrainingFirst(Tail(todo))
          /\ \A i \in 1..Len(Tail(todo)) : Tail(todo)[i] \in TrainingSteps =>
               2 < Stage(Tail(todo)[i])
      BY <1>1, <1>2, <2>1, TrainingTail
    <3> QED BY <2>1, <2>2, <2>4, <3>1, <3>2
  <2> QED BY <1>4, <2>3, <2>4
<1>7. \A k \in Jobs : TrainingFirst(job'[k].todo)
  BY <1>5, <1>6 DEF ModelInv
<1>8. ModelsOn(file') \subseteq ModelsOn(file) /\ file'["bundle"] = Torn
  BY <1>1, ModelsSaved DEF OpenFile, FilesOK, Absent, Files, Saved
<1>9. ASSUME ~raced'
      PROVE  (OneTrainer /\ NoBundleYet /\ NoModelYet /\ NotTrainedYet /\ OneModel)'
  <2>1. OneTrainer /\ NoBundleYet /\ NoModelYet /\ NotTrainedYet /\ OneModel
    BY <1>1, <1>9 DEF ModelInv
  <2>2. \A k \in Jobs : k # j => ~Training(k)
    BY <1>3, <2>1 DEF OneTrainer
  <2>3. OneTrainer'
    BY <1>5, <2>2 DEF OneTrainer, Training
  <2>4. ASSUME NEW k \in Jobs
        PROVE  ~At(k, "train")' /\ ~(At(k, "open")' /\ Item(k)' = "bundle")
    <3>1. CASE k # j
      <4>1. ~At(k, "train") /\ ~(At(k, "open") /\ Item(k) = "bundle")
        BY <1>1, <2>2, <3>1, AtTraining DEF JobsOK
      <4> QED BY <1>5, <3>1, <4>1 DEF At, Item
    <3>2. CASE k = j
      <4>1. SUFFICES ASSUME new.todo # <<>>
                     PROVE  /\ Head(new.todo).op # "train"
                            /\ ~(Head(new.todo).op = "open" /\ Head(new.todo).item = "bundle")
        BY <1>5, <3>2 DEF At, Item
      <4>2. 1 \in 1..Len(new.todo) /\ Head(new.todo) = new.todo[1]
        BY <1>6, <4>1, LenProperties, EmptySeq
      <4>3. new.todo[1] \in LegalSteps
        BY <1>6, <4>2, ElementOfSeq
      <4> QED BY <1>6, <4>2, <4>3 DEF LegalSteps, TrainingSteps
    <3> QED BY <3>1, <3>2
  <2>5. NoBundleYet' /\ NotTrainedYet'
    BY <2>4 DEF NoBundleYet, NotTrainedYet
  <2>6. NoModelYet'
    BY <1>8, AbsentAssumption DEF NoModelYet
  <2>7. \A k \in Jobs : ModelsOf(Seen(k)') \subseteq Models
    BY <1>4, <1>5, IdleIsFree DEF Models, Seen
  <2>8. Models' \subseteq Models
    BY <1>8, <2>7 DEF Models
  <2> QED BY <2>1, <2>3, <2>5, <2>6, <2>8 DEF OneModel
<1> QED BY <1>7, <1>9 DEF ModelInv

(* The other steps that change a file write what the job knows of models, or *)
(* nothing that can be read.                                                *)
LEMMA WritingStepKeeps ==
  ASSUME IInv, ModelInv, NEW j \in Jobs, job[j].todo # <<>>, Advance(j, Seen(j)),
         UNCHANGED raced,
         NEW f \in Files, NEW v, file' = [file EXCEPT ![f] = v],
         \/ f # "bundle" /\ Head(job[j].todo) \notin TrainingSteps
         \/ f = "bundle" /\ At(j, "dump") /\ Training(j) /\ v # Missing,
         v \in Absent \/ ModelsIn(f, v) \subseteq ModelsOf(Seen(j))
  PROVE  ModelInv'
<1>1. JobsOK /\ FilesOK
  BY DEF IInv
<1>2. job[j].todo \in Seq(LegalSteps) /\ TrainingFirst(job[j].todo)
  BY <1>1 DEF JobsOK, ModelInv
<1>3. Free(Tail(job[j].todo), TrainingSteps)
  BY <1>2, TrainingTail DEF At
<1>4. PICK new : /\ job' = [job EXCEPT ![j] = new]
                 /\ new = Idle \/ (new.todo = Tail(job[j].todo) /\ new.seen = Seen(j))
  BY <1>1, JobAfterStep
<1>5. Free(new.todo, TrainingSteps) /\ ModelsOf(new.seen) \subseteq ModelsOf(Seen(j))
  BY <1>3, <1>4, IdleIsFree
<1>6. /\ ModelsOn(file') \subseteq ModelsOn(file) \cup ModelsOf(Seen(j))
      /\ file'[f] = v /\ \A g \in Files : g # f => file'[g] = file[g]
  <2>1. file \in [Files -> Absent \cup UNION {SoundContents(g) : g \in Files}]
    BY <1>1 DEF FilesOK
  <2> QED BY <2>1, ModelsSaved
<1>7. \/ file'["bundle"] = file["bundle"]
      \/ Training(j) /\ file'["bundle"] # Missing
  BY <1>6 DEF Files, Saved
<1>8. \/ raced \/ ~Training(j) \/ file'["bundle"] # Missing
      \/ ModelsOn(file') \cup ModelsOf(new.seen) = {}
  BY <1>1, <1>6, NotTraining
<1>9. job \in [Jobs -> [script : DOMAIN Program \cup {"none"}, todo : Seq(LegalSteps),
                        seen : Memories]]
  BY <1>1 DEF JobsOK
<1> QED BY <1>4, <1>5, <1>6, <1>7, <1>8, <1>9, OtherStepKeeps

LEMMA OpenFileKeepsModel ==
  ASSUME IInv, ModelInv, NEW j \in Jobs, OpenFile(j)
  PROVE  ModelInv'
<1>1. JobsOK /\ job[j].todo # <<>> /\ At(j, "open")
  BY DEF OpenFile, IInv, At
<1>2. Item(j) \in Files
  BY <1>1, ContentIsSound DEF Files
<1>3. CASE Item(j) = "bundle"
  BY <1>3, OpenBundleKeepsModel
<1>4. CASE Item(j) # "bundle"
  <2>1. Head(job[j].todo) \notin TrainingSteps
    BY <1>4 DEF Item, TrainingSteps
  <2>2. Advance(j, Seen(j)) /\ UNCHANGED raced /\ file' = [file EXCEPT ![Item(j)] = Torn]
    BY DEF OpenFile
  <2> QED BY <1>1, <1>2, <1>4, <2>1, <2>2, WritingStepKeeps DEF Absent
<1> QED BY <1>3, <1>4

LEMMA DumpFileKeepsModel ==
  ASSUME IInv, ModelInv, NEW j \in Jobs, DumpFile(j)
  PROVE  ModelInv'
<1>1. JobsOK /\ job[j].todo # <<>> /\ At(j, "dump")
  BY DEF DumpFile, IInv, At
<1>2. Item(j) \in Files /\ Content(j, Item(j)) \in SoundContents(Item(j))
  BY <1>1, ContentIsSound DEF Files
<1>3. PICK left \in {Content(j, Item(j)), Torn} : file' = [file EXCEPT ![Item(j)] = left]
  BY DEF DumpFile
<1>4. left \in Absent \/ ModelsIn(Item(j), left) \subseteq ModelsOf(Seen(j))
  BY <1>1, <1>3, ModelsInContent DEF Absent
<1>5. Advance(j, Seen(j)) /\ UNCHANGED raced
  BY DEF DumpFile
<1>6. CASE Item(j) # "bundle"
  <2>1. Head(job[j].todo) \notin TrainingSteps
    BY <1>6 DEF Item, TrainingSteps
  <2> QED BY <1>1, <1>2, <1>3, <1>4, <1>5, <1>6, <2>1, WritingStepKeeps
<1>7. CASE Item(j) = "bundle"
  <2>1. Training(j)
    <3>1. /\ job[j].todo \in Seq(LegalSteps)
          /\ Head(job[j].todo) = job[j].todo[1] /\ 1 \in 1..Len(job[j].todo)
      BY <1>1, LenProperties, EmptySeq DEF JobsOK
    <3>2. Head(job[j].todo) \in TrainingSteps
      BY <1>1, <1>7, HeadSupplied DEF LegalSteps, TrainingSteps, At, Item
    <3> QED BY <3>1, <3>2 DEF Training, Free
  <2>2. left # Missing
    BY <1>2, <1>3, <1>7, AbsentAssumption DEF SoundContents, Sound, Absent
  <2> QED BY <1>1, <1>2, <1>3, <1>4, <1>5, <1>7, <2>1, <2>2, WritingStepKeeps
<1> QED BY <1>6, <1>7

LEMMA LogRunKeepsModel ==
  ASSUME IInv, ModelInv, NEW j \in Jobs, LogRun(j)
  PROVE  ModelInv'
<1> DEFINE m == Seen(j)
           kept == {"phase4", "phase5", "bundle"} \cap DOMAIN m
           run == With(Restrict(m, kept), "hash", m["registry"].hash)
<1>1. JobsOK /\ job[j].todo # <<>> /\ Head(job[j].todo).op = "log"
  BY DEF IInv, LogRun, At
<1>2. Head(job[j].todo) \notin TrainingSteps
  BY <1>1 DEF TrainingSteps
<1>3. "registry" \in DOMAIN m
  BY <1>1, HeadSupplied DEF Needs
<1>4. /\ file' = [file EXCEPT !["mlflow"] = run]
      /\ Advance(j, m) /\ UNCHANGED raced
  BY DEF LogRun
<1>5. run.hash = m["registry"].hash
      /\ ("bundle" \in DOMAIN run => "bundle" \in DOMAIN m /\ run.bundle = m["bundle"])
  BY DEF With, Restrict
<1> HIDE DEF m, run
<1>6. ModelsIn("mlflow", run) \subseteq
        ModelsIn("registry", m["registry"])
          \cup (IF "bundle" \in DOMAIN m THEN ModelsIn("bundle", m["bundle"]) ELSE {})
  BY <1>5 DEF ModelsIn
<1>7. ModelsIn("mlflow", run) \subseteq ModelsOf(m)
  BY <1>3, <1>6 DEF ModelsOf
<1>8. "mlflow" \in Files /\ "mlflow" # "bundle"
  BY DEF Files
<1> QED BY <1>1, <1>2, <1>4, <1>7, <1>8, WritingStepKeeps DEF m

LEMMA CrashKeepsModel ==
  ASSUME IInv, ModelInv, NEW j \in Jobs, Crash(j)
  PROVE  ModelInv'
<1>1. JobsOK /\ FilesOK /\ job' = [job EXCEPT ![j] = Idle] /\ UNCHANGED raced
  BY DEF IInv, Crash
<1>2. job \in [Jobs -> [script : DOMAIN Program \cup {"none"}, todo : Seq(LegalSteps),
                        seen : Memories]]
  BY <1>1 DEF JobsOK
<1>3. /\ ModelsOn(file') \subseteq ModelsOn(file)
      /\ \/ file'["bundle"] = file["bundle"]
         \/ Training(j) /\ file'["bundle"] # Missing
  <2>1. CASE ~At(j, "dump")
    BY <2>1 DEF Crash
  <2>2. CASE At(j, "dump")
    <3>1. PICK left \in {file[Item(j)], Torn} : file' = [file EXCEPT ![Item(j)] = left]
      BY <2>2 DEF Crash
    <3>2. Item(j) \in Files
      BY <1>1, <2>2, ContentIsSound DEF Files
    <3>3. CASE left = file[Item(j)]
      BY <1>1, <3>1, <3>3 DEF FilesOK
    <3>4. CASE left = Torn
      <4>1. /\ ModelsOn(file') \subseteq ModelsOn(file)
            /\ file'[Item(j)] = Torn
            /\ \A g \in Files : g # Item(j) => file'[g] = file[g]
        BY <1>1, <3>1, <3>2, <3>4, ModelsSaved DEF FilesOK, Absent
      <4>2. CASE Item(j) # "bundle"
        BY <4>1, <4>2 DEF Files, Saved
      <4>3. CASE Item(j) = "bundle"
        <5>1. /\ job[j].todo \in Seq(LegalSteps)
              /\ Head(job[j].todo) = job[j].todo[1] /\ 1 \in 1..Len(job[j].todo)
          BY <1>2, <2>2, LenProperties, EmptySeq DEF At
        <5>2. Head(job[j].todo) \in TrainingSteps
          BY <1>1, <2>2, <4>3, HeadSupplied DEF LegalSteps, TrainingSteps, At, Item
        <5>3. Training(j)
          BY <5>1, <5>2 DEF Training, Free
        <5> QED BY <4>1, <4>3, <5>3, AbsentAssumption
      <4> QED BY <4>2, <4>3
    <3> QED BY <3>1, <3>3, <3>4
  <2> QED BY <2>1, <2>2
<1>4. raced \/ ~Training(j) \/ file'["bundle"] # Missing \/ ModelsOn(file') = {}
  BY <1>3 DEF ModelInv, NoModelYet
<1> QED BY <1>1, <1>2, <1>3, <1>4, IdleIsFree, OtherStepKeeps

LEMMA NextKeepsModel ==
  ASSUME IInv, ModelInv, [Next]_vars
  PROVE  ModelInv'
<1>1. CASE UNCHANGED vars \/ Revise
  BY <1>1, UnchangedModel DEF vars, Revise
<1>2. ASSUME NEW j \in Jobs,
             \/ Start(j) \/ ReadConfig(j) \/ LoadData(j) \/ ProbeBundle(j) \/ TrainBundle(j)
             \/ ReadFile(j) \/ PeekFile(j) \/ HashBundle(j)
             \/ OpenFile(j) \/ DumpFile(j) \/ LogRun(j) \/ Crash(j)
      PROVE  ModelInv'
  BY <1>2, StartKeepsModel, ReadingKeepsModel, ProbeBundleKeepsModel, TrainBundleKeepsModel,
     OpenFileKeepsModel, DumpFileKeepsModel, LogRunKeepsModel, CrashKeepsModel
<1> QED BY <1>1, <1>2 DEF Next

LEMMA InitHoldsModel ==
  ASSUME Init
  PROVE  ModelInv
<1>1. \A j \in Jobs : job[j] = Idle
  BY DEF Init
<1>2. \A j \in Jobs : /\ ~Training(j) /\ ModelsOf(Seen(j)) = {} /\ job[j].todo = <<>>
                      /\ TrainingFirst(job[j].todo)
  <2>1. TrainingFirst(Idle.todo) /\ Idle.todo = <<>>
    BY IdleIsFree DEF Free, TrainingFirst, Idle
  <2> QED BY <1>1, <2>1, IdleIsFree DEF Training, Seen
<1>3. OneTrainer /\ NoBundleYet /\ NotTrainedYet
  BY <1>2 DEF OneTrainer, NoBundleYet, NotTrainedYet, At
<1>4. CASE file = [f \in Files |-> Missing]
  <2>1. ModelsOn(file) = {}
    BY <1>4 DEF ModelsOn, Absent
  <2> QED BY <1>2, <1>3, <2>1 DEF ModelInv, NoModelYet, OneModel, Models
<1>5. CASE file = Established /\ <<data, config>> \in Accepted
  <2>1. ModelsOn(file) \subseteq {FirstBasis}
    <3> SUFFICES ASSUME NEW f \in Files
                 PROVE  ModelsIn(f, file[f]) \subseteq {FirstBasis}
      BY DEF ModelsOn
    <3>1. CASE f \in {"phase6", "profile", "registry", "mlflow"}
      BY <1>5, <3>1 DEF ModelsIn, Established
    <3>2. CASE f \notin {"phase6", "profile", "registry", "mlflow"}
      BY <1>5, <3>2 DEF ModelsIn, Established
    <3> QED BY <3>1, <3>2
  <2>2. file["bundle"] # Missing
    <3>1. FirstBasis \in Bases
      BY BoundsAssumption DEF Init, FirstBasis, Bases
    <3>2. file["bundle"] = FirstBasis
      BY <1>5 DEF Established, Files, Saved
    <3> QED BY <3>1, <3>2, AbsentAssumption DEF Absent
  <2> QED BY <1>2, <1>3, <2>1, <2>2 DEF ModelInv, NoModelYet, OneModel, Models
<1> QED BY <1>4, <1>5 DEF Init

(* Unless training was raced there is at most one model in memory, saved,    *)
(* registered and logged.                                                   *)
THEOREM OneModelIsShared == Spec => []OneModelUnlessRaced
<1>1. ASSUME IInv, ModelInv
      PROVE  OneModelUnlessRaced
  <2>1. ModelsAbout \subseteq Models
    <3>1. ASSUME NEW j \in Jobs, Has(j, "bundle")
          PROVE  Seen(j)["bundle"] \in Models
      <4>1. Seen(j)["bundle"] # Torn
        BY <1>1, <3>1, HeldIsSound, AbsentAssumption DEF IInv, Sound, Absent
      <4>2. Seen(j)["bundle"] \in ModelsOf(Seen(j))
        BY <3>1, <4>1 DEF ModelsOf, ModelsIn, Has
      <4> QED BY <4>2 DEF Models
    <3>2. ASSUME NEW f \in Files, file[f] \notin Absent
          PROVE  ModelsIn(f, file[f]) \subseteq Models
      BY <3>2, ModelsRead DEF Models
    <3>3. file["bundle"] \notin Absent => file["bundle"] \in Models
      <4>1. file["bundle"] \notin Absent => file["bundle"] \in ModelsIn("bundle", file["bundle"])
        BY DEF ModelsIn, Absent
      <4> QED BY <3>2, <4>1 DEF Files, Saved
    <3>4. ASSUME NEW f \in {"phase6", "profile"}, file[f] \notin Absent
          PROVE  file[f].bundle \in Models
      <4>1. f \in Files /\ file[f].bundle # Torn
        BY <1>1, <3>4, AbsentAssumption
        DEF IInv, FilesOK, Files, Saved, SoundContents, Sound, Absent
      <4>2. file[f].bundle \in ModelsIn(f, file[f])
        BY <4>1 DEF ModelsIn
      <4> QED BY <3>2, <3>4, <4>1, <4>2
    <3>5. ASSUME NEW f \in {"registry", "mlflow"}, file[f] \notin Absent, file[f].hash # Torn
          PROVE  file[f].hash \in Models
      <4>1. f \in Files /\ file[f].hash \in ModelsIn(f, file[f])
        BY <3>5 DEF Files, Saved, ModelsIn
      <4> QED BY <3>2, <3>5, <4>1
    <3> QED BY <3>1, <3>3, <3>4, <3>5 DEF ModelsAbout
  <2>2. CASE ~raced
    <3>1. \A a, b \in ModelsAbout : a = b
      BY <1>1, <2>1, <2>2 DEF ModelInv, OneModel
    <3>2. CASE ModelsAbout = {}
      BY <3>2, FS_EmptySet DEF OneModelUnlessRaced
    <3>3. CASE ModelsAbout # {}
      <4>1. PICK a : ModelsAbout = {a}
        BY <3>1, <3>3
      <4> QED BY <4>1, FS_Singleton DEF OneModelUnlessRaced
    <3> QED BY <3>2, <3>3
  <2> QED BY <2>2 DEF OneModelUnlessRaced
<1>2. Init => IInv /\ ModelInv
  BY InitHolds, InitHoldsModel
<1>3. IInv /\ ModelInv /\ [Next]_vars => IInv' /\ ModelInv'
  BY NextKeeps, NextKeepsModel
<1> QED BY <1>1, <1>2, <1>3, PTL DEF Spec

-----------------------------------------------------------------------------
(* A policy is never older than its metrics.                                *)

\* todo is the end of the script s.
EndOf(todo, s) ==
  /\ todo \in Seq(LegalSteps)
  /\ Len(todo) <= Len(s)
  /\ \A i \in 1..Len(todo) : todo[i] = s[Len(s) - Len(todo) + i]

\* No metrics are read after a policy.
MetricsFirst(todo) ==
  \A i, k \in 1..Len(todo) :
    todo[i] \in MetricReads /\ k < i => todo[k].item # "policy"

(* A job: only phase 5 saves a policy or its metrics, step by step as it is  *)
(* written, and whoever reads both reads the metrics first.                 *)
InScript(r) ==
  /\ r.script = "phase5" =>
       EndOf(r.todo, Phase5) /\ (Len(r.todo) <= 5 => "load" \in DOMAIN r.seen)
  /\ r.script # "phase5" => Free(r.todo, PolicySaves)
  /\ MetricsFirst(r.todo)
  /\ "policy" \in DOMAIN r.seen => Free(r.todo, MetricReads)

\* Phase 5 from loading the data to saving the policy, and from there on.
Deciding(r) == r.script = "phase5" /\ Len(r.todo) \in 3..5
Evaluating(r) == r.script = "phase5" /\ Len(r.todo) \in 1..2

MetricsOf(seen) == IF "phase5" \in DOMAIN seen THEN {seen["phase5"]} ELSE {}
MetricsOn(files) == {files["phase5"]} \ Absent
Metrics == MetricsOn(file) \cup UNION {MetricsOf(Seen(j)) : j \in Jobs}

\* A record, or what a job holds of one.
RecordInOrder(r) == r.phase5.rev <= r.policy.rev

RecordsInOrder(seen) ==
  /\ "registry" \in DOMAIN seen => RecordInOrder(seen["registry"])
  /\ {"phase5", "policy"} \subseteq DOMAIN seen => seen["phase5"].rev <= seen["policy"].rev

\* Nothing comes from a version that is yet to come.
FromThePast ==
  /\ \A x \in Metrics : x.rev <= revision
  /\ \A j \in Jobs : Has(j, "load") => Seen(j)["load"].rev <= revision

OnePhase5 ==
  \A j, k \in Jobs : job[j].script = "phase5" /\ job[k].script = "phase5" => j = k

\* The policy in place is as recent as all metrics, saved or read ...
PolicyCovers ==
  file["policy"] \notin Absent => \A x \in Metrics : x.rev <= file["policy"].rev

\* ... the one about to be saved is too ...
DecisionCovers ==
  \A j \in Jobs : Deciding(job[j]) => \A x \in Metrics : x.rev <= Seen(j)["load"].rev

\* ... and so is the one in place once its own metrics will be saved.
EvaluationCovered ==
  \A j \in Jobs : Evaluating(job[j]) /\ file["policy"] \notin Absent =>
    Seen(j)["load"].rev <= file["policy"].rev

RecordsCover ==
  /\ file["registry"] \notin Absent => RecordInOrder(file["registry"])
  /\ \A j \in Jobs : RecordsInOrder(Seen(j))

PolicyInv ==
  /\ \A j \in Jobs : InScript(job[j])
  /\ FromThePast
  /\ ~raced5 => OnePhase5 /\ PolicyCovers /\ DecisionCovers /\ EvaluationCovered
                  /\ RecordsCover

-----------------------------------------------------------------------------

\* One or two steps more.
LEMMA ConcatOne ==
  ASSUME NEW s \in Seq(LegalSteps), NEW t \in Seq(LegalSteps), Len(t) = 1
  PROVE  /\ s \o t \in Seq(LegalSteps) /\ Len(s \o t) = Len(s) + 1
         /\ (s \o t)[Len(s) + 1] = t[1]
         /\ \A i \in 1..Len(s) : (s \o t)[i] = s[i]
<1>1. 1 \in 1..Len(t)
  OBVIOUS
<1>2. s \o t \in Seq(LegalSteps) /\ Len(s \o t) = Len(s) + Len(t)
  BY ConcatParts
<1>3. \A i \in 1..Len(t) : (s \o t)[Len(s) + i] = t[i]
  BY ConcatParts
<1>4. \A i \in 1..Len(s) : (s \o t)[i] = s[i]
  BY ConcatParts
<1>5. (s \o t)[Len(s) + 1] = t[1]
  BY <1>1, <1>3
<1> QED BY <1>2, <1>4, <1>5

LEMMA ConcatTwo ==
  ASSUME NEW s \in Seq(LegalSteps), NEW t \in Seq(LegalSteps), Len(t) = 2
  PROVE  /\ s \o t \in Seq(LegalSteps) /\ Len(s \o t) = Len(s) + 2
         /\ (s \o t)[Len(s) + 1] = t[1] /\ (s \o t)[Len(s) + 2] = t[2]
         /\ \A i \in 1..Len(s) : (s \o t)[i] = s[i]
<1>1. 1 \in 1..Len(t) /\ 2 \in 1..Len(t)
  OBVIOUS
<1>2. s \o t \in Seq(LegalSteps) /\ Len(s \o t) = Len(s) + Len(t)
  BY ConcatParts
<1>3. \A i \in 1..Len(t) : (s \o t)[Len(s) + i] = t[i]
  BY ConcatParts
<1>4. \A i \in 1..Len(s) : (s \o t)[i] = s[i]
  BY ConcatParts
<1>5. (s \o t)[Len(s) + 1] = t[1] /\ (s \o t)[Len(s) + 2] = t[2]
  BY <1>1, <1>3
<1> QED BY <1>2, <1>4, <1>5

LEMMA Phase5Steps ==
  /\ Phase5 \in Seq(LegalSteps) /\ Len(Phase5) = 7
  /\ Phase5[1] = [op |-> "config", item |-> "config"]
  /\ Phase5[2] = [op |-> "load", item |-> "verified"]
  /\ Phase5[3] = [op |-> "peek", item |-> "phase4"]
  /\ Phase5[4] = [op |-> "open", item |-> "policy"]
  /\ Phase5[5] = [op |-> "dump", item |-> "policy"]
  /\ Phase5[6] = [op |-> "open", item |-> "phase5"]
  /\ Phase5[7] = [op |-> "dump", item |-> "phase5"]
<1>1. ASSUME NEW op, NEW item, [op |-> op, item |-> item] \in LegalSteps
      PROVE  /\ Step(op, item) \in Seq(LegalSteps) /\ Len(Step(op, item)) = 1
             /\ Step(op, item)[1] = [op |-> op, item |-> item]
  BY <1>1 DEF Step
<1>2. ASSUME NEW f \in Saved
      PROVE  /\ Saves(f) \in Seq(LegalSteps) /\ Len(Saves(f)) = 2
             /\ Saves(f)[1] = [op |-> "open", item |-> f]
             /\ Saves(f)[2] = [op |-> "dump", item |-> f]
  <2> DEFINE a == Step("open", f)
             b == Step("dump", f)
  <2>1. /\ a \in Seq(LegalSteps) /\ Len(a) = 1 /\ a[1] = [op |-> "open", item |-> f]
        /\ b \in Seq(LegalSteps) /\ Len(b) = 1 /\ b[1] = [op |-> "dump", item |-> f]
    BY <1>1 DEF LegalSteps
  <2> HIDE DEF a, b
  <2>2. /\ a \o b \in Seq(LegalSteps) /\ Len(a \o b) = 2
        /\ (a \o b)[1] = a[1] /\ (a \o b)[2] = b[1]
    <3>1. /\ a \o b \in Seq(LegalSteps) /\ Len(a \o b) = Len(a) + 1
          /\ (a \o b)[Len(a) + 1] = b[1] /\ \A i \in 1..Len(a) : (a \o b)[i] = a[i]
      BY <2>1, ConcatOne
    <3> QED BY <2>1, <3>1
  <2> QED BY <2>1, <2>2 DEF Saves, a, b
<1> DEFINE a == ReadsConfig
           b == LoadsData
           c == Peeks("phase4")
           d == Saves("policy")
           e == Saves("phase5")
<1>3. /\ a \in Seq(LegalSteps) /\ Len(a) = 1 /\ a[1] = [op |-> "config", item |-> "config"]
      /\ b \in Seq(LegalSteps) /\ Len(b) = 1 /\ b[1] = [op |-> "load", item |-> "verified"]
      /\ c \in Seq(LegalSteps) /\ Len(c) = 1 /\ c[1] = [op |-> "peek", item |-> "phase4"]
  BY <1>1 DEF ReadsConfig, LoadsData, Peeks, LegalSteps, Files, Saved
<1>4. /\ d \in Seq(LegalSteps) /\ Len(d) = 2
      /\ d[1] = [op |-> "open", item |-> "policy"] /\ d[2] = [op |-> "dump", item |-> "policy"]
      /\ e \in Seq(LegalSteps) /\ Len(e) = 2
      /\ e[1] = [op |-> "open", item |-> "phase5"] /\ e[2] = [op |-> "dump", item |-> "phase5"]
  BY <1>2 DEF Saved
<1>5. Phase5 = a \o b \o c \o d \o e
  BY DEF Phase5
<1> HIDE DEF a, b, c, d, e
<1> DEFINE ab == a \o b
           abc == ab \o c
           abcd == abc \o d
<1>6. /\ ab \in Seq(LegalSteps) /\ Len(ab) = 2 /\ ab[1] = a[1] /\ ab[2] = b[1]
  <2>1. /\ ab \in Seq(LegalSteps) /\ Len(ab) = Len(a) + 1
        /\ ab[Len(a) + 1] = b[1] /\ \A i \in 1..Len(a) : ab[i] = a[i]
    BY <1>3, ConcatOne
  <2> QED BY <1>3, <2>1
<1> HIDE DEF ab
<1>7. /\ abc \in Seq(LegalSteps) /\ Len(abc) = 3
      /\ abc[1] = ab[1] /\ abc[2] = ab[2] /\ abc[3] = c[1]
  <2>1. /\ abc \in Seq(LegalSteps) /\ Len(abc) = Len(ab) + 1
        /\ abc[Len(ab) + 1] = c[1] /\ \A i \in 1..Len(ab) : abc[i] = ab[i]
    BY <1>3, <1>6, ConcatOne
  <2> QED BY <1>6, <2>1
<1> HIDE DEF abc
<1>8. /\ abcd \in Seq(LegalSteps) /\ Len(abcd) = 5
      /\ abcd[1] = abc[1] /\ abcd[2] = abc[2] /\ abcd[3] = abc[3]
      /\ abcd[4] = d[1] /\ abcd[5] = d[2]
  <2>1. /\ abcd \in Seq(LegalSteps) /\ Len(abcd) = Len(abc) + 2
        /\ abcd[Len(abc) + 1] = d[1] /\ abcd[Len(abc) + 2] = d[2]
        /\ \A i \in 1..Len(abc) : abcd[i] = abc[i]
    BY <1>4, <1>7, ConcatTwo
  <2> QED BY <1>7, <2>1
<1> HIDE DEF abcd
<1> DEFINE p5 == abcd \o e
<1>9. /\ p5 \in Seq(LegalSteps) /\ Len(p5) = Len(abcd) + 2
      /\ p5[Len(abcd) + 1] = e[1] /\ p5[Len(abcd) + 2] = e[2]
      /\ \A i \in 1..Len(abcd) : p5[i] = abcd[i]
  BY <1>4, <1>8, ConcatTwo
<1>10. Phase5 = p5
  BY <1>5 DEF abcd, abc, ab
<1> HIDE DEF p5
<1>11. Len(p5) = 7 /\ p5[6] = e[1] /\ p5[7] = e[2]
  BY <1>8, <1>9
<1>12. \A i \in 1..5 : p5[i] = abcd[i]
  BY <1>8, <1>9
<1>13. p5[1] = a[1] /\ p5[2] = b[1] /\ p5[3] = c[1] /\ p5[4] = d[1] /\ p5[5] = d[2]
  BY <1>6, <1>7, <1>8, <1>12
<1> QED BY <1>3, <1>4, <1>9, <1>10, <1>11, <1>13

\* Where a run of phase 5 is, by the number of steps left.
LEMMA Phase5Head ==
  ASSUME NEW todo, EndOf(todo, Phase5), todo # <<>>
  PROVE  /\ Len(todo) \in 1..7 /\ Head(todo) = Phase5[8 - Len(todo)]
         /\ EndOf(Tail(todo), Phase5) /\ Len(Tail(todo)) = Len(todo) - 1
<1>1. \A i \in 1..Len(todo) : todo[i] = Phase5[7 - Len(todo) + i]
  BY Phase5Steps DEF EndOf
<1>2. todo \in Seq(LegalSteps) /\ Len(todo) <= 7
  BY Phase5Steps DEF EndOf
<1>3. /\ Tail(todo) \in Seq(LegalSteps) /\ Len(Tail(todo)) = Len(todo) - 1
      /\ \A i \in 1..Len(Tail(todo)) : Tail(todo)[i] = todo[i + 1]
  BY <1>2, HeadTailProperties
<1>4. Len(todo) \in 1..7 /\ 1 \in 1..Len(todo) /\ Head(todo) = todo[1]
  <2> DEFINE n == Len(todo)
  <2>1. n \in Nat /\ n # 0
    BY <1>2, LenProperties, EmptySeq
  <2>2. Head(todo) = todo[1]
    BY <1>2, <2>1
  <2>3. n <= 7
    BY <1>2
  <2> HIDE DEF n
  <2>4. n \in 1..7 /\ 1 \in 1..n
    BY <2>1, <2>3
  <2> QED BY <2>2, <2>4 DEF n
<1>5. Head(todo) = Phase5[7 - Len(todo) + 1]
  BY <1>1, <1>4
<1>6. 7 - Len(todo) + 1 = 8 - Len(todo)
  BY <1>4
<1>7. ASSUME NEW i \in 1..Len(Tail(todo))
      PROVE  Tail(todo)[i] = Phase5[7 - Len(Tail(todo)) + i]
  <2>1. i + 1 \in 1..Len(todo) /\ 7 - Len(todo) + (i + 1) = 7 - Len(Tail(todo)) + i
    BY <1>4, <1>3
  <2> QED BY <1>1, <1>3, <2>1
<1>8. Len(Tail(todo)) <= 7
  BY <1>3, <1>4
<1>9. EndOf(Tail(todo), Phase5)
  BY <1>3, <1>7, <1>8, Phase5Steps DEF EndOf
<1> QED BY <1>3, <1>4, <1>5, <1>6, <1>9

\* ... and by the step it is at.
LEMMA Phase5At ==
  ASSUME NEW todo, EndOf(todo, Phase5), todo # <<>>
  PROVE  /\ Head(todo).op \in {"config", "load", "peek", "open", "dump"}
         /\ Head(todo).op = "config" <=> Len(todo) = 7
         /\ Head(todo).op = "load" <=> Len(todo) = 6
         /\ Head(todo).op = "peek" <=> Len(todo) = 5
         /\ Head(todo) = [op |-> "open", item |-> "policy"] <=> Len(todo) = 4
         /\ Head(todo) = [op |-> "dump", item |-> "policy"] <=> Len(todo) = 3
         /\ Head(todo) = [op |-> "open", item |-> "phase5"] <=> Len(todo) = 2
         /\ Head(todo) = [op |-> "dump", item |-> "phase5"] <=> Len(todo) = 1
<1> DEFINE n == Len(todo)
<1>1. n \in 1..7 /\ Head(todo) = Phase5[8 - n]
  BY Phase5Head
<1> HIDE DEF n
<1>3. ASSUME NEW k \in 1..7, n = k, Head(todo) = Phase5[8 - k]
      PROVE  /\ Head(todo).op \in {"config", "load", "peek", "open", "dump"}
             /\ Head(todo).op = "config" <=> n = 7
             /\ Head(todo).op = "load" <=> n = 6
             /\ Head(todo).op = "peek" <=> n = 5
             /\ Head(todo) = [op |-> "open", item |-> "policy"] <=> n = 4
             /\ Head(todo) = [op |-> "dump", item |-> "policy"] <=> n = 3
             /\ Head(todo) = [op |-> "open", item |-> "phase5"] <=> n = 2
             /\ Head(todo) = [op |-> "dump", item |-> "phase5"] <=> n = 1
  BY <1>3, Phase5Steps
<1> QED BY <1>1, <1>3 DEF n

-----------------------------------------------------------------------------
(* What the other scripts do with policies and metrics.                     *)

LEMMA ScriptsDoNotDecide ==
  ASSUME NEW s \in DOMAIN Program, s # "phase5"
  PROVE  Free(Program[s], PolicySaves)
<1>0. ASSUME NEW f \in Saved \ {"policy", "phase5"}
      PROVE  Free(Saves(f), PolicySaves)
  <2>1. {[op |-> "open", item |-> f], [op |-> "dump", item |-> f]} \cap PolicySaves = {}
    BY DEF PolicySaves
  <2> QED BY <2>1, FreePieces
<1>1. /\ Free(ReadsConfig, PolicySaves) /\ Free(LoadsData, PolicySaves)
      /\ Free(SplitsOnly, PolicySaves) /\ Free(UsesBundle, PolicySaves)
      /\ Free(Step("hash", "bundle"), PolicySaves)
      /\ Free(Step("serve", "engine"), PolicySaves)
      /\ Free(Step("log", "mlflow"), PolicySaves)
  BY FreePieces DEF PolicySaves
<1>2. \A f \in Files : Free(Reads(f), PolicySaves) /\ Free(Peeks(f), PolicySaves)
  BY FreePieces DEF PolicySaves
<1>3. \A f \in Saved \ {"policy", "phase5"} : Free(Saves(f), PolicySaves)
  BY <1>0
<1>4. \A t, u : Free(t, PolicySaves) /\ Free(u, PolicySaves) => Free(t \o u, PolicySaves)
  BY FreeConcat
<1>5. Free(Phase1, PolicySaves) /\ Free(Phase2a, PolicySaves)
  BY <1>1, <1>2, <1>3, <1>4 DEF Phase1, Phase2a, Saved, Files
<1>6. Free(Phase2b, PolicySaves) /\ Free(Phase3, PolicySaves) /\ Free(Phase4, PolicySaves)
  BY <1>1, <1>2, <1>3, <1>4 DEF Phase2b, Phase3, Phase4, Saved, Files
<1>7. Free(Phase6, PolicySaves)
  BY <1>1, <1>2, <1>3, <1>4 DEF Phase6, Saved, Files
<1>8. Free(Simulate, PolicySaves) /\ Free(Phase10, PolicySaves)
  BY <1>1, <1>2, <1>3, <1>4 DEF Simulate, Phase10, Saved, Files
<1>9. Free(Phase11, PolicySaves)
  <2>1. Free(Reads("phase4") \o Reads("phase5") \o Reads("policy"), PolicySaves)
    BY <1>2, <1>4 DEF Saved, Files
  <2>2. Free(Reads("phase4") \o Reads("phase5") \o Reads("policy") \o Step("hash", "bundle")
               \o Peeks("registry"), PolicySaves)
    BY <2>1, <1>1, <1>2, <1>4 DEF Saved, Files
  <2> QED BY <2>2, <1>3, <1>4 DEF Phase11, Saved, Files
<1>10. Free(Mlflow, PolicySaves)
  BY <1>1, <1>2, <1>3, <1>4 DEF Mlflow, Saved, Files
<1>11. Free(WarmService, PolicySaves) /\ Free(ColdService, PolicySaves)
  BY <1>1, <1>2, <1>3, <1>4 DEF WarmService, ColdService, Saved, Files
<1> QED BY <1>5, <1>6, <1>7, <1>8, <1>9, <1>10, <1>11 DEF Program

\* Nothing before a script's metrics are read reads a policy.
LEMMA MetricsFirstConcat ==
  ASSUME NEW s, NEW t, s \in Seq(LegalSteps), MetricsFirst(s), Free(t, MetricReads)
  PROVE  s \o t \in Seq(LegalSteps) /\ MetricsFirst(s \o t)
<1>1. t \in Seq(LegalSteps)
  BY DEF Free
<1>2. ASSUME NEW i \in 1..Len(s \o t), NEW k \in 1..Len(s \o t),
             (s \o t)[i] \in MetricReads, k < i
      PROVE  (s \o t)[k].item # "policy"
  <2>1. Len(s) \in Nat /\ Len(t) \in Nat /\ Len(s \o t) = Len(s) + Len(t)
    BY <1>1, ConcatParts
  <2>2. i <= Len(s)
    <3>1. CASE i > Len(s)
      <4>1. i - Len(s) \in 1..Len(t) /\ (s \o t)[i] = t[i - Len(s)]
        BY <1>1, <2>1, <3>1, ConcatParts
      <4> QED BY <1>2, <4>1 DEF Free
    <3> QED BY <2>1, <3>1
  <2>3. i \in 1..Len(s) /\ k \in 1..Len(s)
    BY <1>2, <2>1, <2>2
  <2>4. (s \o t)[i] = s[i] /\ (s \o t)[k] = s[k]
    BY <1>1, <2>3, ConcatParts
  <2> QED BY <1>2, <2>3, <2>4 DEF MetricsFirst
<1> QED BY <1>1, <1>2, ConcatParts DEF MetricsFirst

LEMMA FreeIsMetricsFirst ==
  ASSUME NEW s, Free(s, MetricReads)
  PROVE  s \in Seq(LegalSteps) /\ MetricsFirst(s)
  BY DEF Free, MetricsFirst

LEMMA ScriptsReadMetricsFirst ==
  ASSUME NEW s \in DOMAIN Program
  PROVE  MetricsFirst(Program[s])
<1>1. /\ Free(ReadsConfig, MetricReads) /\ Free(LoadsData, MetricReads)
      /\ Free(SplitsOnly, MetricReads) /\ Free(UsesBundle, MetricReads)
      /\ Free(Step("hash", "bundle"), MetricReads)
      /\ Free(Step("serve", "engine"), MetricReads)
      /\ Free(Step("log", "mlflow"), MetricReads)
  BY FreePieces DEF MetricReads
<1>2. \A f \in Files \ {"phase5"} : Free(Reads(f), MetricReads) /\ Free(Peeks(f), MetricReads)
  BY FreePieces DEF MetricReads
<1>3. \A f \in Saved : Free(Saves(f), MetricReads)
  <2> SUFFICES ASSUME NEW f \in Saved
               PROVE  Free(Saves(f), MetricReads)
    OBVIOUS
  <2>1. {[op |-> "open", item |-> f], [op |-> "dump", item |-> f]} \cap MetricReads = {}
    BY DEF MetricReads
  <2> QED BY <2>1, FreePieces
<1>4. \A t, u : Free(t, MetricReads) /\ Free(u, MetricReads) => Free(t \o u, MetricReads)
  BY FreeConcat
<1>5. Free(Phase1, MetricReads) /\ Free(Phase2a, MetricReads)
  BY <1>1, <1>2, <1>3, <1>4 DEF Phase1, Phase2a, Saved, Files
<1>6. Free(Phase2b, MetricReads) /\ Free(Phase3, MetricReads) /\ Free(Phase4, MetricReads)
  BY <1>1, <1>2, <1>3, <1>4 DEF Phase2b, Phase3, Phase4, Saved, Files
<1>7. Free(Phase5, MetricReads) /\ Free(Phase6, MetricReads)
  BY <1>1, <1>2, <1>3, <1>4 DEF Phase5, Phase6, Saved, Files
<1>8. Free(Simulate, MetricReads) /\ Free(Phase10, MetricReads)
  BY <1>1, <1>2, <1>3, <1>4 DEF Simulate, Phase10, Saved, Files
<1>9. Free(WarmService, MetricReads) /\ Free(ColdService, MetricReads)
  BY <1>1, <1>2, <1>3, <1>4 DEF WarmService, ColdService, Saved, Files
<1>10. LET s2 == Reads("phase4") \o Reads("phase5")
       IN  s2 \in Seq(LegalSteps) /\ MetricsFirst(s2)
  <2> DEFINE a == Reads("phase4")
             b == Reads("phase5")
  <2>1. /\ a \in Seq(LegalSteps) /\ Len(a) = 1 /\ a[1].item = "phase4"
        /\ b \in Seq(LegalSteps) /\ Len(b) = 1 /\ b[1].item = "phase5"
    BY DEF Reads, Step, LegalSteps, Files, Saved
  <2> HIDE DEF a, b
  <2>2. /\ a \o b \in Seq(LegalSteps) /\ Len(a \o b) = Len(a) + 1
        /\ (a \o b)[Len(a) + 1] = b[1] /\ \A i \in 1..Len(a) : (a \o b)[i] = a[i]
    BY <2>1, ConcatOne
  <2>3. Len(a \o b) = 2 /\ (a \o b)[1].item # "policy" /\ (a \o b)[2].item # "policy"
    BY <2>1, <2>2
  <2> QED BY <2>2, <2>3 DEF MetricsFirst, a, b
<1>11. \A t, u : t \in Seq(LegalSteps) /\ MetricsFirst(t) /\ Free(u, MetricReads) =>
         t \o u \in Seq(LegalSteps) /\ MetricsFirst(t \o u)
  BY MetricsFirstConcat
<1>12. MetricsFirst(Phase11)
  <2>1. LET s3 == Reads("phase4") \o Reads("phase5") \o Reads("policy")
        IN  s3 \in Seq(LegalSteps) /\ MetricsFirst(s3)
    BY <1>2, <1>10, <1>11 DEF Files, Saved
  <2>2. LET s4 == Reads("phase4") \o Reads("phase5") \o Reads("policy")
                    \o Step("hash", "bundle") \o Peeks("registry")
        IN  s4 \in Seq(LegalSteps) /\ MetricsFirst(s4)
    BY <1>1, <1>2, <1>11, <2>1 DEF Files, Saved
  <2> QED BY <1>3, <1>11, <2>2 DEF Phase11, Files, Saved
<1>13. MetricsFirst(Mlflow)
  <2>1. LET s3 == Reads("phase4") \o Reads("phase5") \o Reads("policy")
        IN  s3 \in Seq(LegalSteps) /\ MetricsFirst(s3)
    BY <1>2, <1>10, <1>11 DEF Files, Saved
  <2>2. LET s5 == Reads("phase4") \o Reads("phase5") \o Reads("policy")
                    \o Reads("registry") \o Step("log", "mlflow")
        IN  s5 \in Seq(LegalSteps) /\ MetricsFirst(s5)
    BY <1>1, <1>2, <1>11, <2>1 DEF Files, Saved
  <2> QED BY <1>1, <1>2, <1>11, <2>2 DEF Mlflow, Files, Saved
<1> QED BY <1>5, <1>6, <1>7, <1>8, <1>9, <1>12, <1>13, FreeIsMetricsFirst DEF Program

-----------------------------------------------------------------------------
(* A job keeps to its script.                                               *)

LEMMA IdleIsInScript ==
  InScript(Idle) /\ ~Deciding(Idle) /\ ~Evaluating(Idle) /\ RecordsInOrder(Idle.seen)
    /\ MetricsOf(Idle.seen) = {} /\ "load" \notin DOMAIN Idle.seen
<1>1. <<>> \in Seq(LegalSteps) /\ Len(<<>>) = 0
  BY EmptySeq
<1>2. Idle.todo = <<>> /\ Idle.script = "none" /\ DOMAIN Idle.seen = {}
  BY EmptyMemory DEF Idle
<1> QED BY <1>1, <1>2 DEF InScript, Free, MetricsFirst, Deciding, Evaluating,
     RecordsInOrder, MetricsOf

\* What is left after a step of a script that reads metrics first.
LEMMA MetricsFirstTail ==
  ASSUME NEW todo \in Seq(LegalSteps), todo # <<>>, MetricsFirst(todo)
  PROVE  /\ MetricsFirst(Tail(todo))
         /\ Head(todo).item = "policy" => Free(Tail(todo), MetricReads)
<1>1. /\ Tail(todo) \in Seq(LegalSteps) /\ Len(Tail(todo)) = Len(todo) - 1
      /\ \A i \in 1..Len(Tail(todo)) : Tail(todo)[i] = todo[i + 1]
  BY HeadTailProperties
<1>2. Len(todo) \in Nat /\ Len(todo) # 0
  BY LenProperties, EmptySeq
<1>3. Head(todo) = todo[1]
  OBVIOUS
<1>4. \A i \in 1..Len(Tail(todo)) :
        i + 1 \in 1..Len(todo) /\ 1 < i + 1 /\ 1 \in 1..Len(todo)
  <2> DEFINE n == Len(todo)
             t == Len(Tail(todo))
  <2>1. n \in Nat /\ n # 0 /\ t = n - 1
    BY <1>1, <1>2
  <2> HIDE DEF n, t
  <2>2. \A i \in 1..t : i + 1 \in 1..n /\ 1 < i + 1 /\ 1 \in 1..n
    BY <2>1
  <2> QED BY <2>2 DEF n, t
<1>5. ASSUME NEW i \in 1..Len(Tail(todo)), NEW k \in 1..Len(Tail(todo)),
             Tail(todo)[i] \in MetricReads, k < i
      PROVE  Tail(todo)[k].item # "policy"
  <2>1. k + 1 < i + 1
    BY <1>5
  <2>2. todo[i + 1] \in MetricReads /\ Tail(todo)[k] = todo[k + 1]
    BY <1>1, <1>5
  <2> QED BY <1>4, <2>1, <2>2 DEF MetricsFirst
<1>6. ASSUME Head(todo).item = "policy", NEW i \in 1..Len(Tail(todo))
      PROVE  Tail(todo)[i] \notin MetricReads
  <2>1. i + 1 \in 1..Len(todo) /\ 1 < i + 1 /\ 1 \in 1..Len(todo)
    BY <1>4
  <2>2. Tail(todo)[i] = todo[i + 1] /\ todo[1].item = "policy"
    BY <1>1, <1>3, <1>6
  <2> QED BY <2>1, <2>2 DEF MetricsFirst
<1> QED BY <1>1, <1>5, <1>6 DEF MetricsFirst, Free

LEMMA StepInScript ==
  ASSUME NEW r, InScript(r), r.todo \in Seq(LegalSteps), r.todo # <<>>, NEW new,
         \/ new = Idle
         \/ /\ new.script = r.script /\ new.todo = Tail(r.todo)
            /\ DOMAIN r.seen \subseteq DOMAIN new.seen
            /\ "policy" \in DOMAIN new.seen \ DOMAIN r.seen => Head(r.todo).item = "policy"
            /\ Head(r.todo).op = "load" => "load" \in DOMAIN new.seen
  PROVE  InScript(new)
<1>1. CASE new = Idle
  BY <1>1, IdleIsInScript
<1>2. CASE new # Idle
  <2>1. /\ MetricsFirst(new.todo)
        /\ Head(r.todo).item = "policy" => Free(new.todo, MetricReads)
    BY <1>2, MetricsFirstTail DEF InScript
  <2>2. "policy" \in DOMAIN new.seen => Free(new.todo, MetricReads)
    <3>1. CASE "policy" \in DOMAIN r.seen
      BY <1>2, <3>1, FreeTail DEF InScript
    <3> QED BY <1>2, <2>1, <3>1
  <2>3. new.script # "phase5" => Free(new.todo, PolicySaves)
    BY <1>2, FreeTail DEF InScript
  <2>4. ASSUME new.script = "phase5"
        PROVE  EndOf(new.todo, Phase5) /\ (Len(new.todo) <= 5 => "load" \in DOMAIN new.seen)
    <3>1. EndOf(r.todo, Phase5) /\ (Len(r.todo) <= 5 => "load" \in DOMAIN r.seen)
      BY <1>2, <2>4 DEF InScript
    <3>2. /\ Len(r.todo) \in 1..7 /\ Len(new.todo) = Len(r.todo) - 1
          /\ EndOf(new.todo, Phase5)
      BY <1>2, <3>1, Phase5Head
    <3>3. Head(r.todo).op = "load" <=> Len(r.todo) = 6
      BY <3>1, Phase5At
    <3>4. ASSUME Len(new.todo) <= 5
          PROVE  "load" \in DOMAIN new.seen
      <4>1. Len(r.todo) <= 5 \/ Len(r.todo) = 6
        <5> DEFINE n == Len(r.todo)
                   t == Len(new.todo)
        <5>1. n \in 1..7 /\ t = n - 1 /\ t <= 5
          BY <3>2, <3>4
        <5> HIDE DEF n, t
        <5>2. n <= 5 \/ n = 6
          BY <5>1
        <5> QED BY <5>2 DEF n
      <4>2. CASE Len(r.todo) <= 5
        BY <1>2, <3>1, <4>2
      <4>3. CASE Len(r.todo) = 6
        BY <1>2, <3>3, <4>3
      <4> QED BY <4>1, <4>2, <4>3
    <3> QED BY <3>2, <3>4
  <2> QED BY <2>1, <2>2, <2>3, <2>4 DEF InScript
<1> QED BY <1>1, <1>2

-----------------------------------------------------------------------------
(* What the steps do to the invariant.                                      *)

\* One job changes; the metrics and the policy in place are not renewed.
LEMMA StepKeepsPolicy ==
  ASSUME JobsOK, PolicyInv, NEW j \in Jobs, NEW new,
         job' = [job EXCEPT ![j] = new], revision' = revision,
         raced5 => raced5',
         InScript(new),
         MetricsOn(file') \subseteq Metrics, MetricsOf(new.seen) \subseteq Metrics,
         "load" \in DOMAIN new.seen => new.seen["load"].rev <= revision,
         file'["policy"] \in {file["policy"]} \cup Absent,
         ~raced5' =>
           /\ new.script = "phase5" => \A k \in Jobs \ {j} : job[k].script # "phase5"
           /\ Deciding(new) => \A x \in Metrics : x.rev <= new.seen["load"].rev
           /\ Evaluating(new) /\ file["policy"] \notin Absent =>
                new.seen["load"].rev <= file["policy"].rev
           /\ file'["registry"] \notin Absent => RecordInOrder(file'["registry"])
           /\ RecordsInOrder(new.seen)
  PROVE  PolicyInv'
<1>1. /\ job'[j] = new
      /\ \A k \in Jobs : k # j => job'[k] = job[k]
  BY DEF JobsOK
<1>2. \A k \in Jobs : InScript(job'[k])
  BY <1>1 DEF PolicyInv
<1>3. Metrics' \subseteq Metrics
  <2>1. \A k \in Jobs : MetricsOf(Seen(k)') \subseteq Metrics
    BY <1>1 DEF Metrics, Seen
  <2> QED BY <2>1 DEF Metrics
<1>4. FromThePast'
  <2>1. \A x \in Metrics' : x.rev <= revision'
    BY <1>3 DEF PolicyInv, FromThePast
  <2>2. \A k \in Jobs : Has(k, "load")' => Seen(k)'["load"].rev <= revision'
    BY <1>1 DEF PolicyInv, FromThePast, Has, Seen
  <2> QED BY <2>1, <2>2 DEF FromThePast
<1>5. ASSUME ~raced5'
      PROVE  (OnePhase5 /\ PolicyCovers /\ DecisionCovers /\ EvaluationCovered /\ RecordsCover)'
  <2>1. OnePhase5 /\ PolicyCovers /\ DecisionCovers /\ EvaluationCovered /\ RecordsCover
    BY <1>5 DEF PolicyInv
  <2>2. OnePhase5'
    BY <1>1, <1>5, <2>1 DEF OnePhase5
  <2>3. PolicyCovers'
    BY <1>3, <2>1 DEF PolicyCovers
  <2>4. ASSUME NEW k \in Jobs, Deciding(job'[k]), NEW x \in Metrics'
        PROVE  x.rev <= Seen(k)'["load"].rev
    BY <1>1, <1>3, <1>5, <2>1, <2>4 DEF DecisionCovers, Seen
  <2>5. DecisionCovers'
    BY <2>4 DEF DecisionCovers
  <2>6. ASSUME NEW k \in Jobs, Evaluating(job'[k]), file'["policy"] \notin Absent
        PROVE  Seen(k)'["load"].rev <= file'["policy"].rev
    BY <1>1, <1>5, <2>1, <2>6 DEF EvaluationCovered, Seen
  <2>7. EvaluationCovered'
    BY <2>6 DEF EvaluationCovered
  <2>8. \A k \in Jobs : RecordsInOrder(Seen(k)')
    BY <1>1, <1>5, <2>1 DEF RecordsCover, Seen
  <2>9. RecordsCover'
    BY <1>5, <2>8 DEF RecordsCover
  <2> QED BY <2>2, <2>3, <2>5, <2>7, <2>9
<1> QED BY <1>2, <1>4, <1>5 DEF PolicyInv

PolicyDump == [op |-> "dump", item |-> "policy"]
MetricsDump == [op |-> "dump", item |-> "phase5"]

\* Where the next step of phase 5 was before this one.
LEMMA Phase5Before ==
  ASSUME NEW r, InScript(r), r.todo # <<>>, NEW new,
         new.script = r.script, new.todo = Tail(r.todo)
  PROVE  /\ Deciding(new) => Deciding(r) \/ Head(r.todo).op = "load"
         /\ Evaluating(new) => Evaluating(r) \/ Head(r.todo) = PolicyDump
<1> SUFFICES ASSUME r.script = "phase5"
             PROVE  /\ Len(new.todo) \in 3..5 =>
                         Len(r.todo) \in 3..5 \/ Head(r.todo).op = "load"
                    /\ Len(new.todo) \in 1..2 =>
                         Len(r.todo) \in 1..2 \/ Head(r.todo) = PolicyDump
  BY DEF Deciding, Evaluating
<1> DEFINE n == Len(r.todo)
           t == Len(new.todo)
<1>1. EndOf(r.todo, Phase5)
  BY DEF InScript
<1>2. n \in 1..7 /\ t = n - 1
  BY <1>1, Phase5Head
<1>3. (Head(r.todo).op = "load" <=> n = 6) /\ (Head(r.todo) = PolicyDump <=> n = 3)
  BY <1>1, Phase5At DEF PolicyDump
<1> HIDE DEF n, t
<1>4. /\ t \in 3..5 => n \in 3..5 \/ n = 6
      /\ t \in 1..2 => n \in 1..2 \/ n = 3
  BY <1>2
<1> QED BY <1>3, <1>4 DEF n, t

\* A step that neither loads the data nor saves the policy or its metrics.
LEMMA AdvanceKeepsPolicy ==
  ASSUME JobsOK, PolicyInv, NEW j \in Jobs, job[j].todo # <<>>, NEW m, Advance(j, m),
         UNCHANGED <<revision, raced5>>,
         Head(job[j].todo).op # "load",
         Head(job[j].todo) # PolicyDump,
         DOMAIN Seen(j) \subseteq DOMAIN m,
         "policy" \in DOMAIN m \ DOMAIN Seen(j) => Item(j) = "policy",
         "load" \in DOMAIN m => Has(j, "load") /\ m["load"] = Seen(j)["load"],
         MetricsOn(file') \subseteq Metrics, MetricsOf(m) \subseteq Metrics,
         file'["policy"] \in {file["policy"]} \cup Absent,
         ~raced5 => /\ file'["registry"] \notin Absent => RecordInOrder(file'["registry"])
                    /\ RecordsInOrder(m)
  PROVE  PolicyInv'
<1>1. PICK new : /\ job' = [job EXCEPT ![j] = new]
                 /\ \/ new = Idle
                    \/ /\ new.script = job[j].script
                       /\ new.todo = Tail(job[j].todo) /\ new.seen = m
  BY JobAfterStep
<1>2. InScript(job[j]) /\ job[j].todo \in Seq(LegalSteps)
  BY DEF JobsOK, PolicyInv
<1>3. InScript(new)
  BY <1>1, <1>2, StepInScript DEF Seen, Item
<1>4. CASE new = Idle
  <2>1. /\ InScript(new) /\ ~Deciding(new) /\ ~Evaluating(new) /\ RecordsInOrder(new.seen)
        /\ MetricsOf(new.seen) = {} /\ "load" \notin DOMAIN new.seen
        /\ new.script # "phase5"
    BY <1>4, IdleIsInScript DEF Idle
  <2> QED BY <1>1, <2>1, StepKeepsPolicy
<1>5. CASE /\ new.script = job[j].script
           /\ new.todo = Tail(job[j].todo) /\ new.seen = m
  <2>1. (Deciding(new) => Deciding(job[j])) /\ (Evaluating(new) => Evaluating(job[j]))
    BY <1>2, <1>5, Phase5Before
  <2>2. /\ Deciding(job[j]) => Has(j, "load") /\ m["load"] = Seen(j)["load"]
        /\ Evaluating(job[j]) => Has(j, "load") /\ m["load"] = Seen(j)["load"]
    <3>1. job[j].script = "phase5" /\ Len(job[j].todo) <= 5 => Has(j, "load")
      BY <1>2 DEF InScript, Has, Seen
    <3>2. Deciding(job[j]) \/ Evaluating(job[j]) =>
            job[j].script = "phase5" /\ Len(job[j].todo) <= 5
      <4> DEFINE n == Len(job[j].todo)
      <4> HIDE DEF n
      <4>1. n \in 3..5 \/ n \in 1..2 => n <= 5
        OBVIOUS
      <4> QED BY <4>1 DEF Deciding, Evaluating, n
    <3> QED BY <3>1, <3>2 DEF Has
  <2>3. "load" \in DOMAIN m => m["load"].rev <= revision
    BY DEF PolicyInv, FromThePast
  <2>4. ASSUME ~raced5
        PROVE  /\ job[j].script = "phase5" => \A k \in Jobs \ {j} : job[k].script # "phase5"
               /\ Deciding(job[j]) => \A x \in Metrics : x.rev <= Seen(j)["load"].rev
               /\ Evaluating(job[j]) /\ file["policy"] \notin Absent =>
                    Seen(j)["load"].rev <= file["policy"].rev
    BY <2>4 DEF PolicyInv, OnePhase5, DecisionCovers, EvaluationCovered
  <2> QED BY <1>1, <1>3, <1>5, <2>1, <2>2, <2>3, <2>4, StepKeepsPolicy
<1> QED BY <1>1, <1>4, <1>5

\* A job ends, whatever is left of its file.
LEMMA FailKeepsPolicy ==
  ASSUME JobsOK, PolicyInv, NEW j \in Jobs, Fail(j),
         UNCHANGED <<revision, raced5>>,
         MetricsOn(file') \subseteq Metrics,
         file'["policy"] \in {file["policy"]} \cup Absent,
         file'["registry"] \in {file["registry"]} \cup Absent
  PROVE  PolicyInv'
<1> DEFINE new == Idle
<1>1. /\ InScript(new) /\ ~Deciding(new) /\ ~Evaluating(new) /\ RecordsInOrder(new.seen)
      /\ MetricsOf(new.seen) = {} /\ "load" \notin DOMAIN new.seen
      /\ new.script # "phase5"
  BY IdleIsInScript DEF Idle
<1>2. job' = [job EXCEPT ![j] = new]
  BY DEF Fail
<1>3. ~raced5 /\ file'["registry"] \notin Absent => RecordInOrder(file'["registry"])
  BY DEF PolicyInv, RecordsCover
<1> HIDE DEF new
<1> QED BY <1>1, <1>2, <1>3, StepKeepsPolicy

\* Something is learned from a file, or about the configuration or a bundle.
LEMMA LearnKeepsPolicy ==
  ASSUME JobsOK, PolicyInv, NEW j \in Jobs, job[j].todo # <<>>,
         NEW x, NEW v, Learn(j, x, v), UNCHANGED <<file, revision, raced5>>,
         Head(job[j].todo).op \notin {"load", "dump"},
         \/ x \in {"config", "bundle", "hash"}
         \/ x \in Files /\ x = Item(j) /\ v = file[x] /\ v \notin Absent
              /\ Head(job[j].todo) = [op |-> Head(job[j].todo).op, item |-> x]
              /\ Head(job[j].todo).op \in {"read", "peek"}
  PROVE  PolicyInv'
<1> DEFINE m == With(Seen(j), x, v)
<1>1. /\ DOMAIN m = DOMAIN Seen(j) \cup {x}
      /\ \A y \in DOMAIN m : m[y] = IF y = x THEN v ELSE Seen(j)[y]
  BY DEF With
<1>2. Advance(j, m)
  BY DEF Learn
<1> HIDE DEF m
<1>3. x # "load"
  BY DEF Files, Saved
<1>4. x = "policy" => Item(j) = "policy"
  OBVIOUS
<1>5. MetricsOf(m) \subseteq Metrics
  <2>1. CASE x = "phase5"
    BY <1>1, <2>1 DEF MetricsOf, Metrics, MetricsOn
  <2>2. CASE x # "phase5"
    <3>1. MetricsOf(m) = MetricsOf(Seen(j))
      BY <1>1, <2>2 DEF MetricsOf
    <3> QED BY <3>1 DEF Metrics
  <2> QED BY <2>1, <2>2
<1>6. ASSUME ~raced5
      PROVE  RecordsInOrder(m)
  <2>1. RecordsInOrder(Seen(j)) /\ PolicyCovers
    BY <1>6 DEF PolicyInv, RecordsCover
  <2>2. "registry" \in DOMAIN m => RecordInOrder(m["registry"])
    <3>1. CASE x = "registry"
      BY <1>1, <1>6, <3>1 DEF PolicyInv, RecordsCover
    <3>2. CASE x # "registry"
      BY <1>1, <2>1, <3>2 DEF RecordsInOrder
    <3> QED BY <3>1, <3>2
  <2>3. ASSUME {"phase5", "policy"} \subseteq DOMAIN m
        PROVE  m["phase5"].rev <= m["policy"].rev
    <3>1. CASE x = "phase5"
      <4>1. "policy" \in DOMAIN Seen(j) /\ InScript(job[j])
        BY <1>1, <2>3, <3>1 DEF PolicyInv
      <4>2. Free(job[j].todo, MetricReads)
        BY <4>1 DEF InScript, Seen
      <4>3. Head(job[j].todo) \in MetricReads
        BY <3>1 DEF MetricReads
      <4>4. 1 \in 1..Len(job[j].todo) /\ Head(job[j].todo) = job[j].todo[1]
        BY LenProperties, EmptySeq DEF JobsOK
      <4> QED BY <4>2, <4>3, <4>4 DEF Free
    <3>2. CASE x = "policy"
      <4>1. m["policy"] = file["policy"] /\ file["policy"] \notin Absent
        BY <1>1, <3>2
      <4>2. m["phase5"] \in Metrics
        BY <1>5, <2>3 DEF MetricsOf
      <4> QED BY <2>1, <4>1, <4>2 DEF PolicyCovers
    <3>3. CASE x \notin {"phase5", "policy"}
      BY <1>1, <2>1, <2>3, <3>3 DEF RecordsInOrder
    <3> QED BY <3>1, <3>2, <3>3
  <2> QED BY <2>2, <2>3 DEF RecordsInOrder
<1>7. Head(job[j].todo) # PolicyDump
  BY DEF PolicyDump
<1>8. MetricsOn(file') \subseteq Metrics /\ file'["policy"] = file["policy"]
  BY DEF Metrics
<1>9. ~raced5 /\ file'["registry"] \notin Absent => RecordInOrder(file'["registry"])
  BY DEF PolicyInv, RecordsCover
<1> QED BY <1>1, <1>2, <1>3, <1>4, <1>5, <1>6, <1>7, <1>8, <1>9, AdvanceKeepsPolicy DEF Has

LEMMA StartKeepsPolicy ==
  ASSUME IInv, PolicyInv, NEW j \in Jobs, Start(j)
  PROVE  PolicyInv'
<1> DEFINE s == Head(plan)
           new == [script |-> s, todo |-> Program[s], seen |-> <<>>]
<1>1. s \in DOMAIN Program
  BY HeadTailProperties DEF Start, IInv, RestOK
<1>2. /\ job' = [job EXCEPT ![j] = new] /\ UNCHANGED <<file, revision>>
      /\ raced5' = (raced5 \/ (s = "phase5" /\ \E k \in Jobs : job[k].script = "phase5"))
  BY DEF Start
<1> HIDE DEF s
<1>3. /\ new.script = s /\ new.todo = Program[s] /\ new.seen = <<>>
      /\ DOMAIN new.seen = {}
  BY EmptyMemory
<1> HIDE DEF new
<1>4. s = "phase5" => /\ EndOf(new.todo, Phase5) /\ ~(Len(new.todo) <= 5)
                      /\ Len(new.todo) \notin 3..5 /\ Len(new.todo) \notin 1..2
  <2>1. Phase5 \in Seq(LegalSteps) /\ Len(Phase5) = 7
    BY Phase5Steps
  <2>2. \A i \in 1..7 : Phase5[7 - 7 + i] = Phase5[i]
    BY <2>1
  <2>3. EndOf(Phase5, Phase5)
    BY <2>1, <2>2 DEF EndOf
  <2> DEFINE n == Len(Phase5)
  <2>4. n = 7
    BY <2>1
  <2> HIDE DEF n
  <2>5. ~(n <= 5) /\ n \notin 3..5 /\ n \notin 1..2
    BY <2>4
  <2>6. s = "phase5" => new.todo = Phase5
    BY <1>3 DEF Program
  <2> QED BY <2>3, <2>5, <2>6 DEF n
<1>5. InScript(new)
  <2>1. MetricsFirst(new.todo) /\ (s # "phase5" => Free(new.todo, PolicySaves))
    BY <1>1, <1>3, ScriptsDoNotDecide, ScriptsReadMetricsFirst
  <2> QED BY <1>3, <1>4, <2>1 DEF InScript
<1>6. ~Deciding(new) /\ ~Evaluating(new)
  BY <1>3, <1>4 DEF Deciding, Evaluating
<1>7. MetricsOf(new.seen) = {} /\ RecordsInOrder(new.seen)
  BY <1>3 DEF MetricsOf, RecordsInOrder
<1>8. MetricsOn(file') \subseteq Metrics
  BY <1>2 DEF Metrics
<1>9. ASSUME ~raced5'
      PROVE  /\ new.script = "phase5" => \A k \in Jobs \ {j} : job[k].script # "phase5"
             /\ file'["registry"] \notin Absent => RecordInOrder(file'["registry"])
  BY <1>2, <1>3, <1>9 DEF PolicyInv, RecordsCover
<1> QED BY <1>2, <1>3, <1>5, <1>6, <1>7, <1>8, <1>9, StepKeepsPolicy DEF IInv

LEMMA ReadingKeepsPolicy ==
  ASSUME IInv, PolicyInv, NEW j \in Jobs,
         \/ ReadConfig(j) \/ TrainBundle(j) \/ ReadFile(j) \/ PeekFile(j) \/ HashBundle(j)
  PROVE  PolicyInv'
<1>1. JobsOK /\ job[j].todo # <<>> /\ UNCHANGED <<file, revision, raced5>>
  BY DEF IInv, ReadConfig, TrainBundle, ReadFile, PeekFile, HashBundle, At
<1>2. Head(job[j].todo).op \in {"config", "train", "read", "peek", "hash"}
  BY DEF ReadConfig, TrainBundle, ReadFile, PeekFile, HashBundle, At
<1>3. /\ MetricsOn(file') \subseteq Metrics
      /\ file'["policy"] = file["policy"] /\ file'["registry"] = file["registry"]
  BY <1>1 DEF Metrics
<1>4. CASE Fail(j)
  BY <1>1, <1>3, <1>4, FailKeepsPolicy
<1>5. CASE Advance(j, Seen(j))
  <2>1. /\ MetricsOf(Seen(j)) \subseteq Metrics
        /\ ~raced5 => RecordsInOrder(Seen(j))
        /\ ~raced5 /\ file'["registry"] \notin Absent => RecordInOrder(file'["registry"])
    BY <1>3 DEF Metrics, PolicyInv, RecordsCover
  <2> QED BY <1>1, <1>2, <1>3, <1>5, <2>1, AdvanceKeepsPolicy DEF PolicyDump, Has
<1>6. ASSUME NEW x \in {"config", "bundle", "hash"}, NEW v, Learn(j, x, v)
      PROVE  PolicyInv'
  BY <1>1, <1>2, <1>6, LearnKeepsPolicy
<1>7. CASE ReadConfig(j) \/ TrainBundle(j) \/ HashBundle(j)
  BY <1>4, <1>6, <1>7 DEF ReadConfig, TrainBundle, HashBundle
<1>8. CASE ReadFile(j) \/ PeekFile(j)
  <2> DEFINE f == Item(j)
             op == Head(job[j].todo).op
  <2>1. f \in Files /\ Head(job[j].todo) = [op |-> op, item |-> f] /\ op \in {"read", "peek"}
    <3>1. Head(job[j].todo) \in LegalSteps /\ op \in {"read", "peek"}
      BY <1>1, <1>8, HeadSupplied DEF ReadFile, PeekFile, At
    <3> QED BY <3>1 DEF LegalSteps, Item
  <2>2. \/ Fail(j) \/ Advance(j, Seen(j))
        \/ Learn(j, f, file[f]) /\ file[f] \notin Absent
    BY <1>8 DEF ReadFile, PeekFile
  <2>3. CASE Learn(j, f, file[f]) /\ file[f] \notin Absent
    BY <1>1, <2>1, <2>3, LearnKeepsPolicy
  <2> QED BY <1>4, <1>5, <2>2, <2>3
<1> QED BY <1>7, <1>8

\* The data in place is at least as recent as every metric there is.
LEMMA LoadDataKeepsPolicy ==
  ASSUME IInv, PolicyInv, NEW j \in Jobs, LoadData(j)
  PROVE  PolicyInv'
<1>1. JobsOK /\ job[j].todo # <<>> /\ UNCHANGED <<file, revision, raced5>>
  BY DEF IInv, LoadData, At
<1>2. CASE Fail(j)
  BY <1>1, <1>2, FailKeepsPolicy DEF Metrics
<1>3. CASE Learn(j, "load", Basis(j))
  <2> DEFINE m == With(Seen(j), "load", Basis(j))
  <2>1. /\ DOMAIN m = DOMAIN Seen(j) \cup {"load"}
        /\ \A y \in DOMAIN m : m[y] = IF y = "load" THEN Basis(j) ELSE Seen(j)[y]
    BY DEF With
  <2>2. PICK new : /\ job' = [job EXCEPT ![j] = new]
                   /\ \/ new = Idle
                      \/ /\ new.script = job[j].script
                         /\ new.todo = Tail(job[j].todo) /\ new.seen = m
    BY <1>1, <1>3, JobAfterStep DEF Learn
  <2> HIDE DEF m
  <2>3. CASE new = Idle
    BY <1>1, <2>2, <2>3, FailKeepsPolicy DEF Fail, Metrics
  <2>4. CASE /\ new.script = job[j].script
             /\ new.todo = Tail(job[j].todo) /\ new.seen = m
    <3>1. InScript(job[j]) /\ job[j].todo \in Seq(LegalSteps)
      BY <1>1 DEF JobsOK, PolicyInv
    <3>2. InScript(new)
      BY <1>1, <2>1, <2>4, <3>1, StepInScript DEF Seen
    <3>3. m["load"].rev = revision /\ revision \in Nat
      BY <2>1, BoundsAssumption DEF Basis, IInv, RestOK
    <3>4. /\ MetricsOf(m) \subseteq Metrics /\ MetricsOn(file') \subseteq Metrics
          /\ RecordsInOrder(Seen(j)) => RecordsInOrder(m)
      BY <1>1, <2>1 DEF MetricsOf, Metrics, RecordsInOrder
    <3>5. \A x \in Metrics : x.rev <= m["load"].rev
      BY <3>3 DEF PolicyInv, FromThePast
    <3>6. ~Evaluating(new)
      <4>1. Evaluating(new) => Evaluating(job[j]) \/ Head(job[j].todo) = PolicyDump
        BY <1>1, <2>4, <3>1, Phase5Before
      <4>2. Head(job[j].todo).op = "load"
        BY DEF LoadData, At
      <4>3. Head(job[j].todo) # PolicyDump
        BY <4>2 DEF PolicyDump
      <4>4. ~Evaluating(job[j])
        <5>1. job[j].script = "phase5" => Len(job[j].todo) = 6
          BY <1>1, <3>1, <4>2, Phase5At DEF InScript
        <5> QED BY <5>1 DEF Evaluating
      <4> QED BY <4>1, <4>3, <4>4
    <3>7. ASSUME ~raced5
          PROVE  /\ job[j].script = "phase5" => \A k \in Jobs \ {j} : job[k].script # "phase5"
                 /\ file'["registry"] \notin Absent => RecordInOrder(file'["registry"])
                 /\ RecordsInOrder(Seen(j))
      BY <1>1, <3>7 DEF PolicyInv, OnePhase5, RecordsCover
    <3>8. m["load"].rev <= revision
      BY <3>3
    <3> QED BY <1>1, <2>2, <2>4, <3>2, <3>4, <3>5, <3>6, <3>7, <3>8, StepKeepsPolicy
  <2> QED BY <2>2, <2>3, <2>4
<1> QED BY <1>2, <1>3 DEF LoadData

\* The training is put in front of the steps that are left: no policy is read.
LEMMA TrainingReadsNoPolicy ==
  ASSUME NEW todo \in Seq(LegalSteps)
  PROVE  /\ MetricsFirst(todo) => MetricsFirst(TrainsBundle \o todo)
         /\ Free(todo, PolicySaves) => Free(TrainsBundle \o todo, PolicySaves)
         /\ Free(todo, MetricReads) => Free(TrainsBundle \o todo, MetricReads)
<1> DEFINE s == TrainsBundle
           OtherItems == [op : {"config", "load", "bundle", "train", "read", "peek", "hash",
                                "open", "dump", "log", "serve"},
                          item : {"policy"}]
<1>1. \A S : S \cap [op : {"train", "open", "dump"}, item : {"bundle"}] = {} => Free(s, S)
  <2> SUFFICES ASSUME NEW S, S \cap [op : {"train", "open", "dump"}, item : {"bundle"}] = {}
               PROVE  Free(s, S)
    OBVIOUS
  <2>1. ASSUME NEW op \in {"train", "open", "dump"}
        PROVE  Free(Step(op, "bundle"), S)
    <3>1. [op |-> op, item |-> "bundle"] \in LegalSteps
      BY DEF LegalSteps, Saved
    <3>2. [op |-> op, item |-> "bundle"] \in [op : {"train", "open", "dump"}, item : {"bundle"}]
      OBVIOUS
    <3> QED BY <3>1, <3>2, FreeStep
  <2>2. Free(Saves("bundle"), S)
    BY <2>1, FreeConcat DEF Saves
  <2>3. Free(Step("train", "bundle"), S)
    BY <2>1
  <2>4. Free(Step("train", "bundle") \o Saves("bundle"), S)
    BY <2>2, <2>3, FreeConcat
  <2> QED BY <2>4 DEF TrainsBundle
<1>2. Free(s, PolicySaves) /\ Free(s, MetricReads) /\ Free(s, OtherItems)
  <2>1. PolicySaves \cap [op : {"train", "open", "dump"}, item : {"bundle"}] = {}
    BY DEF PolicySaves
  <2>2. MetricReads \cap [op : {"train", "open", "dump"}, item : {"bundle"}] = {}
    BY DEF MetricReads
  <2>3. OtherItems \cap [op : {"train", "open", "dump"}, item : {"bundle"}] = {}
    OBVIOUS
  <2> QED BY <1>1, <2>1, <2>2, <2>3
<1>3. s \in Seq(LegalSteps) /\ \A k \in 1..Len(s) : s[k].item # "policy" /\ s[k] \notin MetricReads
  <2>1. ASSUME NEW k \in 1..Len(s)
        PROVE  s[k].item # "policy" /\ s[k] \notin MetricReads
    <3>1. s[k] \in LegalSteps /\ s[k] \notin OtherItems /\ s[k] \notin MetricReads
      BY <1>2, ElementOfSeq DEF Free
    <3> QED BY <3>1 DEF LegalSteps
  <2> QED BY <1>2, <2>1 DEF Free
<1> HIDE DEF s, OtherItems
<1>4. ASSUME MetricsFirst(todo),
             NEW i \in 1..Len(s \o todo), NEW k \in 1..Len(s \o todo),
             (s \o todo)[i] \in MetricReads, k < i
      PROVE  (s \o todo)[k].item # "policy"
  <2> DEFINE n == Len(s)
             t == Len(todo)
  <2>1. /\ n \in Nat /\ t \in Nat /\ i \in 1..(n + t) /\ k \in 1..(n + t)
        /\ \A q \in 1..n : (s \o todo)[q] = s[q]
        /\ \A q \in 1..(n + t) : q > n => q - n \in 1..t /\ (s \o todo)[q] = todo[q - n]
    BY <1>3, ConcatParts
  <2> HIDE DEF n, t
  <2>2. i > n
    <3>1. CASE i \in 1..n
      BY <1>3, <1>4, <2>1, <3>1 DEF n
    <3> QED BY <2>1, <3>1
  <2>3. CASE k <= n
    <3>1. k \in 1..n
      BY <2>1, <2>3
    <3> QED BY <1>3, <2>1, <3>1 DEF n
  <2>4. CASE k > n
    <3>1. k - n < i - n /\ k - n \in 1..t /\ i - n \in 1..t
      BY <1>4, <2>1, <2>2, <2>4
    <3>2. (s \o todo)[i] = todo[i - n] /\ (s \o todo)[k] = todo[k - n]
      BY <2>1, <2>2, <2>4
    <3> QED BY <1>4, <3>1, <3>2 DEF MetricsFirst, t
  <2> QED BY <2>1, <2>3, <2>4
<1> QED BY <1>2, <1>4, FreeConcat DEF MetricsFirst, s

LEMMA ProbeBundleKeepsPolicy ==
  ASSUME IInv, PolicyInv, NEW j \in Jobs, ProbeBundle(j)
  PROVE  PolicyInv'
<1>1. /\ JobsOK /\ job[j].todo # <<>> /\ UNCHANGED <<file, revision, raced5>>
      /\ Head(job[j].todo).op = "bundle"
  BY DEF IInv, ProbeBundle, At
<1>2. MetricsOn(file') \subseteq Metrics /\ file'["policy"] = file["policy"]
  BY <1>1 DEF Metrics
<1>3. CASE Fail(j)
  BY <1>1, <1>2, <1>3, FailKeepsPolicy
<1>4. CASE Learn(j, "bundle", file["bundle"])
  BY <1>1, <1>4, LearnKeepsPolicy
<1>5. CASE job' = [job EXCEPT ![j].todo = TrainsBundle \o Tail(@)]
  <2> DEFINE r == job[j]
             new == [r EXCEPT !.todo = TrainsBundle \o Tail(r.todo)]
  <2>1. job' = [job EXCEPT ![j] = new]
    BY <1>5
  <2>2. /\ InScript(r) /\ r.todo \in Seq(LegalSteps)
        /\ new.script = r.script /\ new.seen = r.seen
        /\ new.todo = TrainsBundle \o Tail(r.todo)
    BY <1>1 DEF JobsOK, PolicyInv
  <2> HIDE DEF new
  <2>3. r.script # "phase5"
    BY <1>1, <2>2, Phase5At DEF InScript
  <2>4. /\ Tail(r.todo) \in Seq(LegalSteps) /\ MetricsFirst(Tail(r.todo))
        /\ Free(Tail(r.todo), PolicySaves)
        /\ "policy" \in DOMAIN r.seen => Free(Tail(r.todo), MetricReads)
    BY <1>1, <2>2, <2>3, MetricsFirstTail, FreeTail, HeadTailProperties DEF InScript
  <2>5. InScript(new)
    BY <2>2, <2>3, <2>4, TrainingReadsNoPolicy DEF InScript
  <2>6. ~Deciding(new) /\ ~Evaluating(new)
    BY <2>2, <2>3 DEF Deciding, Evaluating
  <2>7. /\ MetricsOf(new.seen) \subseteq Metrics
        /\ "load" \in DOMAIN new.seen => new.seen["load"].rev <= revision
    BY <2>2 DEF Metrics, Seen, PolicyInv, FromThePast, Has
  <2>8. ASSUME ~raced5
        PROVE  /\ file'["registry"] \notin Absent => RecordInOrder(file'["registry"])
               /\ RecordsInOrder(new.seen)
    BY <1>1, <2>2, <2>8 DEF PolicyInv, RecordsCover, Seen
  <2> QED BY <1>1, <1>2, <2>1, <2>2, <2>3, <2>5, <2>6, <2>7, <2>8, StepKeepsPolicy
<1> QED BY <1>3, <1>4, <1>5 DEF ProbeBundle

\* Another file's content changes.
LEMMA MetricsSaved ==
  ASSUME FilesOK, NEW f \in Files, NEW v, file' = [file EXCEPT ![f] = v]
  PROVE  /\ f # "phase5" \/ v \in Absent => MetricsOn(file') \subseteq Metrics
         /\ MetricsOn(file') \subseteq Metrics \cup {v}
         /\ file'[f] = v
         /\ \A g \in Files : g # f => file'[g] = file[g]
<1>1. file'[f] = v /\ \A g \in Files : g # f => file'[g] = file[g]
  BY DEF FilesOK
<1>2. "phase5" \in Files
  BY DEF Files, Saved
<1> QED BY <1>1, <1>2 DEF MetricsOn, Metrics

\* A save that is neither of a policy nor of its metrics, or leaves nothing.
LEMMA WriteKeepsPolicy ==
  ASSUME IInv, PolicyInv, NEW j \in Jobs, job[j].todo # <<>>, Advance(j, Seen(j)),
         UNCHANGED <<revision, raced5>>,
         Head(job[j].todo).op # "load", Head(job[j].todo) # PolicyDump,
         NEW f \in Files, NEW v, file' = [file EXCEPT ![f] = v],
         \/ v \in Absent
         \/ f \notin {"policy", "phase5", "registry"}
         \/ f = "registry" /\ (~raced5 => RecordInOrder(v))
  PROVE  PolicyInv'
<1>1. JobsOK /\ FilesOK
  BY DEF IInv
<1>2. /\ f # "phase5" \/ v \in Absent => MetricsOn(file') \subseteq Metrics
      /\ file'[f] = v
      /\ \A g \in Files : g # f => file'[g] = file[g]
  BY <1>1, MetricsSaved
<1>3. "policy" \in Files /\ "registry" \in Files
  BY DEF Files, Saved
<1>4. file'["policy"] \in {file["policy"]} \cup Absent
  BY <1>2, <1>3
<1>5. ~raced5 => /\ file'["registry"] \notin Absent => RecordInOrder(file'["registry"])
                 /\ RecordsInOrder(Seen(j))
  BY <1>2, <1>3 DEF PolicyInv, RecordsCover
<1>6. MetricsOn(file') \subseteq Metrics /\ MetricsOf(Seen(j)) \subseteq Metrics
  BY <1>2 DEF Metrics
<1> QED BY <1>1, <1>4, <1>5, <1>6, AdvanceKeepsPolicy DEF Has

LEMMA OpenFileKeepsPolicy ==
  ASSUME IInv, PolicyInv, NEW j \in Jobs, OpenFile(j)
  PROVE  PolicyInv'
<1>1. /\ job[j].todo # <<>> /\ Head(job[j].todo).op = "open"
      /\ At(j, "open") /\ JobsOK
  BY DEF OpenFile, At, IInv
<1>2. Item(j) \in Files
  BY <1>1, ContentIsSound DEF Files
<1>3. file' = [file EXCEPT ![Item(j)] = Torn] /\ Advance(j, Seen(j))
      /\ UNCHANGED <<revision, raced5>>
  BY DEF OpenFile
<1>4. Head(job[j].todo) # PolicyDump /\ Head(job[j].todo).op # "load" /\ Torn \in Absent
  BY <1>1 DEF PolicyDump, Absent
<1> QED BY <1>1, <1>2, <1>3, <1>4, WriteKeepsPolicy

LEMMA LogRunKeepsPolicy ==
  ASSUME IInv, PolicyInv, NEW j \in Jobs, LogRun(j)
  PROVE  PolicyInv'
<1>1. job[j].todo # <<>> /\ Head(job[j].todo).op = "log"
  BY DEF LogRun, At
<1>2. PICK v : file' = [file EXCEPT !["mlflow"] = v]
  BY DEF LogRun
<1>3. Advance(j, Seen(j)) /\ UNCHANGED <<revision, raced5>> /\ "mlflow" \in Files
  BY DEF LogRun, Files
<1>4. /\ Head(job[j].todo) # PolicyDump /\ Head(job[j].todo).op # "load"
      /\ "mlflow" \notin {"policy", "phase5", "registry"}
  BY <1>1 DEF PolicyDump
<1> QED BY <1>1, <1>2, <1>3, <1>4, WriteKeepsPolicy

\* The content of a champion's record is in order: its metrics were read first.
LEMMA RecordSaved ==
  ASSUME IInv, PolicyInv, ~raced5, NEW j \in Jobs, At(j, "dump"), Item(j) = "registry"
  PROVE  RecordInOrder(Content(j, "registry"))
<1> DEFINE m == Seen(j)
<1>1. RecordsInOrder(m)
  BY DEF PolicyInv, RecordsCover
<1>2. NeedsToSave("registry") \subseteq DOMAIN m
  <2>1. Needs(Head(job[j].todo)) \subseteq DOMAIN m
    BY HeadSupplied DEF At, IInv
  <2> QED BY <2>1 DEF At, Item, Needs
<1>3. CASE Has(j, "registry")
  BY <1>1, <1>3 DEF Content, Has, RecordsInOrder
<1>4. CASE ~Has(j, "registry")
  <2> DEFINE X == {"hash", "phase4", "phase5", "policy"}
  <2>1. {"phase5", "policy"} \subseteq DOMAIN m
    BY <1>2 DEF NeedsToSave
  <2>2. Content(j, "registry") = Restrict(m, X)
    BY <1>4 DEF Content
  <2>3. Restrict(m, X).phase5 = m["phase5"] /\ Restrict(m, X).policy = m["policy"]
    BY <2>1 DEF Restrict
  <2> QED BY <1>1, <2>1, <2>2, <2>3 DEF RecordInOrder, RecordsInOrder
<1> QED BY <1>3, <1>4

LEMMA PolicySavers ==
  ASSUME JobsOK, PolicyInv, NEW j \in Jobs, At(j, "dump"), Item(j) \in {"policy", "phase5"}
  PROVE  /\ job[j].script = "phase5" /\ Has(j, "load")
         /\ Item(j) = "policy" => Deciding(job[j]) /\ Head(job[j].todo) = PolicyDump
         /\ Item(j) = "phase5" => Evaluating(job[j]) /\ Len(job[j].todo) = 1
<1> DEFINE todo == job[j].todo
           n == Len(todo)
<1>1. todo # <<>> /\ todo \in Seq(LegalSteps) /\ InScript(job[j]) /\ Head(todo) \in LegalSteps
  BY HeadSupplied DEF At, JobsOK, PolicyInv
<1>2. Head(todo) = [op |-> "dump", item |-> Item(j)]
  BY <1>1 DEF At, Item, LegalSteps
<1>3. job[j].script = "phase5"
  <2>1. Head(todo) \in PolicySaves
    BY <1>2 DEF PolicySaves
  <2>2. 1 \in 1..Len(todo) /\ Head(todo) = todo[1]
    BY <1>1, LenProperties, EmptySeq
  <2> QED BY <1>1, <2>1, <2>2 DEF InScript, Free
<1>4. (Item(j) = "policy" => n = 3) /\ (Item(j) = "phase5" => n = 1)
  BY <1>1, <1>2, <1>3, Phase5At DEF InScript
<1> HIDE DEF n
<1>5. n <= 5 /\ (n = 3 => n \in 3..5) /\ (n = 1 => n \in 1..2)
  BY <1>4
<1>6. Has(j, "load")
  BY <1>1, <1>3, <1>5 DEF InScript, Has, Seen, n
<1> QED BY <1>2, <1>3, <1>4, <1>5, <1>6 DEF Deciding, Evaluating, PolicyDump, n

LEMMA CrashKeepsPolicy ==
  ASSUME IInv, PolicyInv, NEW j \in Jobs, Crash(j)
  PROVE  PolicyInv'
<1>1. JobsOK /\ FilesOK /\ Fail(j) /\ UNCHANGED <<revision, raced5>>
  BY DEF IInv, Crash, Fail
<1>2. "policy" \in Files /\ "registry" \in Files
  BY DEF Files, Saved
<1>3. CASE file' = file
  BY <1>1, <1>3, FailKeepsPolicy DEF Metrics
<1>4. CASE At(j, "dump") /\ file' = [file EXCEPT ![Item(j)] = Torn]
  <2>1. Item(j) \in Files
    BY <1>1, <1>4, ContentIsSound DEF Files
  <2>2. /\ MetricsOn(file') \subseteq Metrics
        /\ file'[Item(j)] = Torn
        /\ \A g \in Files : g # Item(j) => file'[g] = file[g]
    BY <1>1, <1>4, <2>1, MetricsSaved DEF Absent
  <2>3. /\ file'["policy"] \in {file["policy"]} \cup Absent
        /\ file'["registry"] \in {file["registry"]} \cup Absent
    BY <1>2, <2>2 DEF Absent
  <2> QED BY <1>1, <2>2, <2>3, FailKeepsPolicy
<1>5. file' = file \/ (At(j, "dump") /\ file' = [file EXCEPT ![Item(j)] = Torn])
  <2>1. CASE At(j, "dump")
    <3>1. PICK left \in {file[Item(j)], Torn} : file' = [file EXCEPT ![Item(j)] = left]
      BY <2>1 DEF Crash
    <3>2. left = file[Item(j)] => file' = file
      BY <1>1, <3>1 DEF FilesOK
    <3> QED BY <2>1, <3>1, <3>2
  <2>2. CASE ~At(j, "dump")
    BY <2>2 DEF Crash
  <2> QED BY <2>1, <2>2
<1> QED BY <1>3, <1>4, <1>5

\* Data or configuration is replaced: what was known is only older.
LEMMA ReviseKeepsPolicy ==
  ASSUME IInv, PolicyInv, Revise \/ UNCHANGED vars
  PROVE  PolicyInv'
<1>1. UNCHANGED <<file, job, raced5>> /\ (revision' = revision + 1 \/ revision' = revision)
  BY DEF Revise, vars
<1>2. Metrics' = Metrics
  BY <1>1 DEF Metrics, Seen
<1>3. \A x \in Metrics : x \in Bases
  <2>1. \A x \in MetricsOn(file) : x \in Bases
    BY DEF MetricsOn, IInv, FilesOK, Files, Saved, SoundContents, Sound
  <2>2. ASSUME NEW j \in Jobs, NEW x \in MetricsOf(Seen(j))
        PROVE  x \in Bases
    <3>1. Seen(j) \in Memories
      BY DEF IInv, JobsOK, Seen
    <3> QED BY <2>2, <3>1 DEF MetricsOf, Memories, Held, SoundContents, Sound
  <2> QED BY <2>1, <2>2 DEF Metrics
<1>4. revision \in Nat
  BY BoundsAssumption DEF IInv, RestOK
<1>5. \A x \in Bases : x.rev \in Int
  BY BoundsAssumption DEF Bases
<1>6. \A x \in Metrics' : x.rev <= revision'
  BY <1>1, <1>2, <1>3, <1>4, <1>5 DEF PolicyInv, FromThePast
<1>7. ASSUME NEW j \in Jobs, Has(j, "load")
      PROVE  Seen(j)["load"].rev <= revision'
  <2>1. Seen(j)["load"] \in Bases
    BY <1>7, HeldIsSound DEF IInv, Sound
  <2> QED BY <1>1, <1>4, <1>5, <1>7, <2>1 DEF PolicyInv, FromThePast
<1>8. FromThePast'
  BY <1>1, <1>6, <1>7 DEF FromThePast, Has, Seen
<1>9. (\A j \in Jobs : InScript(job[j])) => (\A j \in Jobs : InScript(job[j]))'
  BY <1>1
<1>10. /\ OnePhase5 => OnePhase5'
       /\ PolicyCovers => PolicyCovers'
       /\ DecisionCovers => DecisionCovers'
       /\ EvaluationCovered => EvaluationCovered'
       /\ RecordsCover => RecordsCover'
  BY <1>1, <1>2 DEF OnePhase5, PolicyCovers, DecisionCovers, EvaluationCovered,
     RecordsCover, Seen
<1> QED BY <1>1, <1>8, <1>9, <1>10 DEF PolicyInv

\* Phase 5 saves its policy, and then the metrics of that policy.
LEMMA Phase5Saves ==
  ASSUME IInv, PolicyInv, NEW j \in Jobs, DumpFile(j), Item(j) \in {"policy", "phase5"}
  PROVE  PolicyInv'
<1> DEFINE b == Seen(j)["load"]
<1>1. /\ JobsOK /\ FilesOK /\ job[j].todo # <<>> /\ At(j, "dump") /\ Advance(j, Seen(j))
      /\ UNCHANGED <<revision, raced5>>
  BY DEF DumpFile, IInv, At
<1>2. /\ job[j].script = "phase5" /\ Has(j, "load")
      /\ Item(j) = "policy" => Deciding(job[j]) /\ Head(job[j].todo) = PolicyDump
      /\ Item(j) = "phase5" => Evaluating(job[j]) /\ Len(job[j].todo) = 1
  BY <1>1, PolicySavers
<1>3. PICK new : /\ job' = [job EXCEPT ![j] = new]
                 /\ \/ new = Idle
                    \/ /\ new.script = job[j].script
                       /\ new.todo = Tail(job[j].todo) /\ new.seen = Seen(j)
                       /\ Len(job[j].todo) # 1
  BY <1>1, JobAfterStep
<1>4. InScript(new)
  <2>1. InScript(job[j]) /\ job[j].todo \in Seq(LegalSteps)
    BY <1>1 DEF JobsOK, PolicyInv
  <2>2. Head(job[j].todo).op # "load"
    BY <1>1 DEF At
  <2> QED BY <1>1, <1>3, <2>1, <2>2, StepInScript DEF Seen
<1>5. /\ job'[j] = new
      /\ \A k \in Jobs : k # j => job'[k] = job[k]
  BY <1>1, <1>3 DEF JobsOK
<1>6. PICK left \in {b, Torn} : file' = [file EXCEPT ![Item(j)] = left]
  <2>1. Content(j, Item(j)) = b
    BY DEF Content
  <2> QED BY <2>1 DEF DumpFile
<1>7. b \in Bases
  BY <1>1, <1>2, HeldIsSound DEF Sound
<1>8. b.rev \in Int /\ b.rev <= revision
  BY <1>2, <1>7, BoundsAssumption DEF Bases, PolicyInv, FromThePast
<1>9. /\ "policy" \in Files /\ "phase5" \in Files /\ "registry" \in Files
      /\ file'[Item(j)] = left
      /\ \A g \in Files : g # Item(j) => file'[g] = file[g]
      /\ MetricsOn(file') \subseteq Metrics \cup ({left} \ Absent)
      /\ Item(j) = "policy" => MetricsOn(file') \subseteq Metrics
  <2>1. "policy" \in Files /\ "phase5" \in Files /\ "registry" \in Files
    BY DEF Files, Saved
  <2>2. Item(j) = "policy" => Item(j) # "phase5"
    OBVIOUS
  <2>3. Item(j) \in Files
    BY <2>1
  <2>4. /\ Item(j) # "phase5" => MetricsOn(file') \subseteq Metrics
        /\ MetricsOn(file') \subseteq Metrics \cup {left}
        /\ file'[Item(j)] = left
        /\ \A g \in Files : g # Item(j) => file'[g] = file[g]
    BY <1>1, <1>6, <2>3, MetricsSaved
  <2>5. MetricsOn(file') \cap Absent = {}
    BY DEF MetricsOn
  <2> QED BY <2>1, <2>2, <2>4, <2>5
<1>11. /\ "load" \in DOMAIN new.seen => new.seen["load"] = b
       /\ MetricsOf(new.seen) \subseteq Metrics
       /\ RecordsInOrder(Seen(j)) => RecordsInOrder(new.seen)
  BY <1>3, IdleIsInScript DEF Metrics
<1>12. left \notin Absent => left = b
  BY <1>6 DEF Absent
<1>13. Metrics' \subseteq Metrics \cup ({left} \ Absent)
  <2>1. \A k \in Jobs : MetricsOf(Seen(k)') \subseteq Metrics
    BY <1>5, <1>11 DEF Metrics, Seen
  <2> QED BY <1>9, <2>1 DEF Metrics
<1>14. \A k \in Jobs : InScript(job'[k])
  BY <1>4, <1>5 DEF PolicyInv
<1>15. FromThePast'
  <2>1. \A x \in Metrics' : x.rev <= revision'
    BY <1>1, <1>8, <1>12, <1>13 DEF PolicyInv, FromThePast
  <2>2. \A k \in Jobs : Has(k, "load")' => Seen(k)'["load"].rev <= revision'
    BY <1>1, <1>5, <1>8, <1>11 DEF PolicyInv, FromThePast, Has, Seen
  <2> QED BY <2>1, <2>2 DEF FromThePast
<1>16. ASSUME ~raced5'
       PROVE  (OnePhase5 /\ PolicyCovers /\ DecisionCovers /\ EvaluationCovered
                 /\ RecordsCover)'
  <2>1. OnePhase5 /\ PolicyCovers /\ DecisionCovers /\ EvaluationCovered /\ RecordsCover
    BY <1>1, <1>16 DEF PolicyInv
  <2>2. \A k \in Jobs : k # j => job[k].script # "phase5"
    BY <1>2, <2>1 DEF OnePhase5
  <2>3. OnePhase5'
    BY <1>5, <2>2 DEF OnePhase5
  <2>4. RecordsCover'
    <3>1. \A k \in Jobs : RecordsInOrder(Seen(k)')
      BY <1>5, <1>11, <2>1 DEF RecordsCover, Seen
    <3>2. file'["registry"] = file["registry"]
      BY <1>9
    <3> QED BY <2>1, <3>1, <3>2 DEF RecordsCover
  <2>5. \A k \in Jobs : k # j => ~Deciding(job'[k]) /\ ~Evaluating(job'[k])
    BY <1>5, <2>2 DEF Deciding, Evaluating
  <2>6. CASE Item(j) = "policy"
    <3>1. \A x \in Metrics : x.rev <= b.rev
      BY <1>2, <2>1, <2>6 DEF DecisionCovers
    <3>2. Metrics' \subseteq Metrics
      <4>1. \A k \in Jobs : MetricsOf(Seen(k)') \subseteq Metrics
        BY <1>5, <1>11 DEF Metrics, Seen
      <4> QED BY <1>9, <2>6, <4>1 DEF Metrics
    <3>3. PolicyCovers'
      BY <1>9, <1>12, <2>6, <3>1, <3>2 DEF PolicyCovers
    <3>4. ~Deciding(job'[j])
      <4>1. new.script = "phase5" => Len(new.todo) \notin 3..5
        <5>1. EndOf(job[j].todo, Phase5) /\ Len(job[j].todo) = 3
          BY <1>1, <1>2, <2>6, Phase5At DEF InScript, PolicyInv, PolicyDump
        <5>2. Len(Tail(job[j].todo)) = Len(job[j].todo) - 1
          BY <1>1, <5>1, Phase5Head
        <5> DEFINE n == Len(Tail(job[j].todo))
        <5>3. n = 2
          BY <5>1, <5>2
        <5> HIDE DEF n
        <5>4. n \notin 3..5
          BY <5>3
        <5>5. CASE new = Idle
          BY <5>5 DEF Idle
        <5>6. CASE new # Idle
          BY <1>3, <5>4, <5>6 DEF n
        <5> QED BY <5>5, <5>6
      <4> QED BY <1>5, <4>1 DEF Deciding
    <3>5. DecisionCovers'
      BY <2>5, <3>4 DEF DecisionCovers
    <3>6. ASSUME Evaluating(job'[j]), file'["policy"] \notin Absent
          PROVE  Seen(j)'["load"].rev <= file'["policy"].rev
      <4>1. new # Idle
        BY <1>5, <3>6, IdleIsInScript
      <4>2. Seen(j)'["load"] = b
        BY <1>3, <1>5, <4>1 DEF Seen
      <4>3. file'["policy"] = b
        BY <1>9, <1>12, <2>6, <3>6
      <4> QED BY <1>8, <4>2, <4>3
    <3>7. EvaluationCovered'
      BY <2>5, <3>6 DEF EvaluationCovered
    <3> QED BY <2>3, <2>4, <3>3, <3>5, <3>7
  <2>7. CASE Item(j) = "phase5"
    <3>1. new = Idle
      BY <1>2, <1>3, <2>7
    <3>2. DecisionCovers' /\ EvaluationCovered'
      BY <1>5, <2>5, <3>1, IdleIsInScript DEF DecisionCovers, EvaluationCovered
    <3>3. file'["policy"] = file["policy"]
      BY <1>9, <2>7
    <3>4. file["policy"] \notin Absent => b.rev <= file["policy"].rev
      BY <1>2, <2>1, <2>7 DEF EvaluationCovered
    <3>5. PolicyCovers'
      BY <1>12, <1>13, <2>1, <3>3, <3>4 DEF PolicyCovers
    <3> QED BY <2>3, <2>4, <3>2, <3>5
  <2> QED BY <2>6, <2>7
<1> QED BY <1>14, <1>15, <1>16 DEF PolicyInv

LEMMA DumpFileKeepsPolicy ==
  ASSUME IInv, PolicyInv, NEW j \in Jobs, DumpFile(j)
  PROVE  PolicyInv'
<1>1. /\ JobsOK /\ job[j].todo # <<>> /\ At(j, "dump") /\ Advance(j, Seen(j))
      /\ UNCHANGED <<revision, raced5>>
  BY DEF DumpFile, IInv, At
<1>2. CASE Item(j) \in {"policy", "phase5"}
  BY <1>2, Phase5Saves
<1>3. CASE Item(j) \notin {"policy", "phase5"}
  <2>1. PICK left \in {Content(j, Item(j)), Torn} : file' = [file EXCEPT ![Item(j)] = left]
    BY DEF DumpFile
  <2>2. Item(j) \in Files
    BY <1>1, ContentIsSound DEF Files
  <2>3. Head(job[j].todo) # PolicyDump /\ Head(job[j].todo).op # "load"
    BY <1>1, <1>3 DEF PolicyDump, At, Item
  <2>4. \/ left \in Absent
        \/ Item(j) \notin {"policy", "phase5", "registry"}
        \/ Item(j) = "registry" /\ (~raced5 => RecordInOrder(left))
    BY <1>1, <1>3, <2>1, RecordSaved DEF Absent
  <2> QED BY <1>1, <2>1, <2>2, <2>3, <2>4, WriteKeepsPolicy
<1> QED BY <1>2, <1>3

LEMMA NextKeepsPolicy ==
  ASSUME IInv, PolicyInv, [Next]_vars
  PROVE  PolicyInv'
<1>1. CASE UNCHANGED vars \/ Revise
  BY <1>1, ReviseKeepsPolicy
<1>2. ASSUME NEW j \in Jobs,
             \/ Start(j) \/ ReadConfig(j) \/ LoadData(j) \/ ProbeBundle(j) \/ TrainBundle(j)
             \/ ReadFile(j) \/ PeekFile(j) \/ HashBundle(j)
             \/ OpenFile(j) \/ DumpFile(j) \/ LogRun(j) \/ Crash(j)
      PROVE  PolicyInv'
  BY <1>2, StartKeepsPolicy, ReadingKeepsPolicy, LoadDataKeepsPolicy, ProbeBundleKeepsPolicy,
     OpenFileKeepsPolicy, DumpFileKeepsPolicy, LogRunKeepsPolicy, CrashKeepsPolicy
<1> QED BY <1>1, <1>2 DEF Next

LEMMA InitHoldsPolicy ==
  ASSUME Init
  PROVE  PolicyInv
<1>1. \A j \in Jobs : job[j] = Idle
  BY DEF Init
<1>2. \A j \in Jobs : /\ InScript(job[j]) /\ ~Deciding(job[j]) /\ ~Evaluating(job[j])
                      /\ RecordsInOrder(Seen(j)) /\ MetricsOf(Seen(j)) = {}
                      /\ ~Has(j, "load") /\ job[j].script # "phase5"
  <2>1. Idle.script # "phase5"
    BY DEF Idle
  <2> QED BY <1>1, <2>1, IdleIsInScript DEF Seen, Has
<1>3. OnePhase5 /\ DecisionCovers /\ EvaluationCovered
  BY <1>2 DEF OnePhase5, DecisionCovers, EvaluationCovered
<1>4. Metrics = MetricsOn(file)
  BY <1>2 DEF Metrics
<1>5. CASE file = [f \in Files |-> Missing]
  <2>1. /\ Metrics = {} /\ file["policy"] \in Absent /\ file["registry"] \in Absent
    BY <1>4, <1>5 DEF MetricsOn, Absent, Files, Saved
  <2> QED BY <1>2, <1>3, <2>1 DEF PolicyInv, FromThePast, PolicyCovers, RecordsCover
<1>6. CASE file = Established
  <2>1. Metrics \subseteq {FirstBasis} /\ file["policy"] = FirstBasis
    BY <1>4, <1>6 DEF MetricsOn, Established, Files, Saved
  <2>2. file["registry"].phase5 = FirstBasis /\ file["registry"].policy = FirstBasis
    BY <1>6 DEF Established, Files, Saved
  <2>3. FirstBasis.rev = 0 /\ revision = 0
    BY DEF FirstBasis, Init
  <2>4. PolicyCovers /\ FromThePast /\ RecordsCover
    BY <1>2, <2>1, <2>2, <2>3 DEF PolicyCovers, FromThePast, RecordsCover, RecordInOrder
  <2> QED BY <1>2, <1>3, <2>4 DEF PolicyInv
<1> QED BY <1>5, <1>6 DEF Init

(* Unless two runs of phase 5 overlapped, the policy in place is at least as *)
(* recent as the metrics saved next to it, and so is a champion's: phase 5   *)
(* saves the policy before its evaluation, and phase 11 reads it after.      *)
THEOREM PolicyIsNotOlder == Spec => []PolicyNotOlderThanItsMetrics
<1>1. ASSUME PolicyInv
      PROVE  PolicyNotOlderThanItsMetrics
  <2> SUFFICES ASSUME ~raced5
               PROVE  /\ {file["policy"], file["phase5"]} \cap Absent = {} =>
                           file["phase5"].rev <= file["policy"].rev
                      /\ file["registry"] \notin Absent =>
                           file["registry"].phase5.rev <= file["registry"].policy.rev
    BY DEF PolicyNotOlderThanItsMetrics
  <2>1. PolicyCovers /\ RecordsCover
    BY <1>1 DEF PolicyInv
  <2>2. file["phase5"] \notin Absent => file["phase5"] \in Metrics
    BY DEF Metrics, MetricsOn
  <2> QED BY <2>1, <2>2 DEF PolicyCovers, RecordsCover, RecordInOrder
<1>2. Init => IInv /\ PolicyInv
  BY InitHolds, InitHoldsPolicy
<1>3. IInv /\ PolicyInv /\ [Next]_vars => IInv' /\ PolicyInv'
  BY NextKeeps, NextKeepsPolicy
<1> QED BY <1>1, <1>2, <1>3, PTL DEF Spec

=============================================================================
