------------------------ MODULE BehavioralStateProofs ------------------------
(***************************************************************************)
(* BehavioralState, for every set of entities, event times, amounts,       *)
(* windows, warm-start history and interleaving: the stored statistics     *)
(* summarise exactly the recorded transactions, provided requests arrive   *)
(* in time order and no deployment warm-starts onto surviving Redis keys.  *)
(* Under the same provisos every reply is the one the offline definition   *)
(* computes from the list: BehavioralState implements OfflineFeatures.     *)
(***************************************************************************)
EXTENDS BehavioralState, SequenceTheorems, FiniteSetTheorems, WellFoundedInduction, TLAPS

----------------------------------------------------------------------------
(* The deque pruning of EntityState. *)

(* A non-empty set of naturals has a least element; the first live index   *)
(* of recent_times is one.                                                 *)
LEMMA LeastNatural ==
  ASSUME NEW S \in SUBSET Nat, S # {}
  PROVE  \E m \in S : \A k \in S : m <= k
<1>1. \E m \in S : \A k \in S : ~(<<k, m>> \in OpToRel(<, Nat))
  BY NatLessThanWellFounded, WFMin
<1>2. PICK m \in S : \A k \in S : ~(<<k, m>> \in OpToRel(<, Nat))
  BY <1>1
<1>3. \A k \in S : ~(k < m)
  BY <1>2 DEF OpToRel
<1> QED BY <1>3

(* Popping expired heads leaves a tail of the deque, and everything popped *)
(* is older than the cutoff (state.py, the two `popleft` loops).           *)
LEMMA DropExpiredIsTail ==
  ASSUME NEW q \in Seq(Nat), NEW cutoff \in Int
  PROVE  /\ DropExpired(q, cutoff) \in Seq(Nat)
         /\ \E k \in 0..Len(q) :
              /\ Len(DropExpired(q, cutoff)) = Len(q) - k
              /\ \A j \in 1..(Len(q) - k) : DropExpired(q, cutoff)[j] = q[k + j]
              /\ \A i \in 1..k : q[i] < cutoff
              /\ k < Len(q) => q[k + 1] >= cutoff
<1> DEFINE live == {i \in 1..Len(q) : q[i] >= cutoff}
<1>0. Len(q) \in Nat /\ \A i \in 1..Len(q) : q[i] \in Nat
  BY LenProperties, ElementOfSeq
<1>1. CASE live = {}
  <2>1. \A i \in 1..Len(q) : q[i] < cutoff
    BY <1>0, <1>1
  <2>2. DropExpired(q, cutoff) = <<>>
    BY <1>1 DEF DropExpired
  <2>3. Len(DropExpired(q, cutoff)) = Len(q) - Len(q)
    BY <1>0, <2>2
  <2>4. DropExpired(q, cutoff) \in Seq(Nat)
    BY <2>2
  <2>5. /\ Len(q) \in 0..Len(q) /\ ~(Len(q) < Len(q))
        /\ \A j \in 1..(Len(q) - Len(q)) : FALSE
    BY <1>0
  <2> QED BY <2>1, <2>3, <2>4, <2>5
<1>2. CASE live # {}
  <2>1. \E m \in live : \A k \in live : m <= k
    <3>1. live \in SUBSET Nat
      BY <1>0
    <3> QED BY <1>2, <3>1, LeastNatural
  <2>2. Min(live) \in live /\ \A k \in live : Min(live) <= k
    BY <2>1 DEF Min
  <2> DEFINE m == Min(live)
  <2> DEFINE r == SubSeq(q, m, Len(q))
  <2>3. m \in 1..Len(q) /\ q[m] >= cutoff /\ \A i \in 1..(m - 1) : q[i] < cutoff
    <3>1. m \in live /\ \A i \in live : m <= i
      BY <2>2
    <3>2. m \in 1..Len(q) /\ q[m] >= cutoff
      BY <3>1
    <3> HIDE DEF m
    <3>3. \A i \in 1..(m - 1) : i \in 1..Len(q) /\ i \notin live
      BY <1>0, <3>1, <3>2
    <3>4. \A i \in 1..(m - 1) : q[i] < cutoff
      BY <1>0, <3>2, <3>3
    <3> QED BY <3>2, <3>4
  <2>4. DropExpired(q, cutoff) = r
    BY <1>2 DEF DropExpired
  <2> HIDE DEF m
  <2>5. \A i \in m..Len(q) : q[i] \in Nat
    BY <1>0, <2>3
  <2>6. /\ r \in Seq(Nat)
        /\ Len(r) = IF m <= Len(q) THEN Len(q) - m + 1 ELSE 0
        /\ \A i \in 1..(Len(q) - m + 1) : r[i] = q[m + i - 1]
    BY <1>0, <2>3, <2>5, SubSeqProperties
  <2> HIDE DEF r
  <2>7. m - 1 \in 0..Len(q) /\ Len(q) - (m - 1) = Len(q) - m + 1 /\ (m - 1) + 1 = m
    BY <1>0, <2>3
  <2>8. \A j \in 1..(Len(q) - (m - 1)) : r[j] = q[(m - 1) + j]
    BY <1>0, <2>3, <2>6, <2>7
  <2>9. Len(r) = Len(q) - (m - 1)
    BY <2>3, <2>6, <2>7
  <2> QED BY <2>3, <2>4, <2>6, <2>7, <2>8, <2>9
<1> QED BY <1>1, <1>2

----------------------------------------------------------------------------
(* Every transition of one entity state preserves Summarises. *)

(* The event times in a list of transactions are naturals.                 *)
LEMMA TimesAreNatural ==
  ASSUME NEW h \in Seq(Txn)
  PROVE  Len(h) \in Nat /\ \A i \in 1..Len(h) : h[i].t \in Nat
<1>1. \A i \in 1..Len(h) : h[i] \in Txn
  BY ElementOfSeq
<1> QED BY <1>1, LenProperties DEF Txn

(* Pruning the deque at or before `now` removes only expired times, so the *)
(* state still summarises the same transactions (_velocity_counts).        *)
LEMMA PruneSummarises ==
  ASSUME NEW s \in EntityStates, NEW h \in Seq(Txn), NEW t \in Nat, NEW now \in Nat,
         t <= now, Summarises(s, h, now)
  PROVE  /\ Prune(s, t) \in EntityStates
         /\ Summarises(Prune(s, t), h, now)
         /\ NoneIffEmpty(s) => NoneIffEmpty(Prune(s, t))
<1> DEFINE q == s.recent
<1> DEFINE r == Prune(s, t).recent
<1>0. q \in Seq(Nat) /\ t - Day \in Int /\ Len(h) \in Nat /\ Len(q) \in Nat
  BY WindowAssumption, LenProperties DEF EntityStates
<1>1. r = DropExpired(q, t - Day)
  BY DEF Prune, EntityStates
<1>2. PICK k \in 0..Len(q) : /\ Len(DropExpired(q, t - Day)) = Len(q) - k
                             /\ \A j \in 1..(Len(q) - k) : DropExpired(q, t - Day)[j] = q[k + j]
                             /\ \A i \in 1..k : q[i] < t - Day
  BY <1>0, DropExpiredIsTail
<1>3. /\ r \in Seq(Nat)
      /\ Len(r) = Len(q) - k
      /\ \A j \in 1..Len(r) : r[j] = q[k + j]
  BY <1>0, <1>1, <1>2, DropExpiredIsTail
<1>4. Prune(s, t) \in EntityStates
  BY <1>1, <1>3 DEF Prune, EntityStates
<1>5. /\ Prune(s, t).count = s.count /\ Prune(s, t).last = s.last
      /\ Prune(s, t).min = s.min /\ Prune(s, t).max = s.max
  BY DEF Prune, EntityStates
<1>6. /\ s.count = Len(h)
      /\ h # <<>> => s.last = h[Len(h)].t
      /\ Len(h) - Len(q) >= 0
      /\ \A j \in 1..Len(q) : q[j] = h[(Len(h) - Len(q)) + j].t
      /\ \A i \in 1..(Len(h) - Len(q)) : h[i].t < now - Day
  BY BehavioralAssumption DEF Summarises
<1> HIDE DEF q, r
<1>6a. t - Day <= now - Day
  BY WindowAssumption
<1>7. Len(h) - Len(r) >= 0
  BY <1>0, <1>2, <1>3, <1>6
<1>8. \A j \in 1..Len(r) : r[j] = h[(Len(h) - Len(r)) + j].t
  BY <1>0, <1>2, <1>3, <1>6
<1>9. \A i \in 1..(Len(h) - Len(r)) : h[i].t < now - Day
  <2> TAKE i \in 1..(Len(h) - Len(r))
  <2>1. CASE i <= Len(h) - Len(q)
    BY <1>0, <1>6, <2>1
  <2>2. CASE i > Len(h) - Len(q)
    <3>0. /\ Len(r) = Len(q) - k /\ k \in Int
          /\ Len(q) \in Int /\ Len(h) \in Int /\ i \in Int /\ i <= Len(h) - Len(r)
      BY <1>0, <1>3
    <3>1. i - (Len(h) - Len(q)) \in 1..k
      BY <2>2, <3>0
    <3>2. q[i - (Len(h) - Len(q))] = h[i].t
      <4> DEFINE x == i - (Len(h) - Len(q))
      <4>1. x \in 1..Len(q) /\ (Len(h) - Len(q)) + x = i
        <5>1. k <= Len(q)
          OBVIOUS
        <5> QED BY <3>0, <3>1, <5>1
      <4> HIDE DEF x
      <4>2. q[x] = h[(Len(h) - Len(q)) + x].t
        BY <1>6, <4>1
      <4> QED BY <4>1, <4>2 DEF x
    <3>3. q[i - (Len(h) - Len(q))] < t - Day
      BY <1>2, <3>1
    <3>4. i - (Len(h) - Len(q)) \in 1..Len(q)
      BY <1>0, <1>2, <3>1
    <3>5. h[i].t \in Nat
      BY <1>0, <3>2, <3>4, ElementOfSeq
    <3>6. h[i].t < t - Day
      BY <3>2, <3>3
    <3>7. t - Day \in Int /\ now - Day \in Int
      BY WindowAssumption
    <3> QED BY <1>6a, <3>5, <3>6, <3>7
  <2> QED BY <1>0, <1>3, <2>1, <2>2
<1>10. Prune(s, t) # Absent
  BY <1>4, BehavioralAssumption
<1> QED BY <1>4, <1>5, <1>6, <1>7, <1>8, <1>9, <1>10 DEF Summarises, NoneIffEmpty, r

(* Time passing never makes a summary wrong: the window only moves on.     *)
LEMMA LaterSummarises ==
  ASSUME NEW s \in EntityStates \cup {Absent}, NEW h \in Seq(Txn),
         NEW now \in Nat, NEW later \in Nat,
         now <= later, Summarises(s, h, now)
  PROVE  Summarises(s, h, later)
<1>1. \A i \in 1..Len(h) : h[i].t \in Nat
  BY TimesAreNatural
<1>2. CASE s = Absent
  BY <1>2 DEF Summarises
<1>3. CASE s # Absent
  <2> DEFINE cut == Len(h) - Len(s.recent)
  <2>1. \A i \in 1..cut : h[i].t < now - Day
    BY <1>3 DEF Summarises
  <2>2. cut \in 0..Len(h)
    <3>1. Len(h) \in Nat /\ Len(s.recent) \in Nat
      BY <1>3, LenProperties DEF EntityStates
    <3>2. cut >= 0
      BY <1>3 DEF Summarises
    <3> QED BY <3>1, <3>2
  <2>3. \A i \in 1..cut : h[i].t < later - Day
    <3> TAKE i \in 1..cut
    <3>1. h[i].t < now - Day /\ h[i].t \in Nat
      BY <1>1, <2>1, <2>2
    <3> QED BY <3>1, WindowAssumption
  <2> QED BY <1>3, <2>3 DEF Summarises
<1> QED BY <1>2, <1>3

(* update() before its final prune: the new transaction joins the summary. *)
LEMMA AppendSummarises ==
  ASSUME NEW s \in EntityStates, NEW h \in Seq(Txn), NEW now \in Nat,
         NEW t \in Nat, NEW a \in Nat, Summarises(s, h, now), NoneIffEmpty(s)
  PROVE  /\ Incorporate(s, t, a) \in EntityStates
         /\ Summarises(Incorporate(s, t, a), Append(h, [t |-> t, a |-> a]), now)
         /\ NoneIffEmpty(Incorporate(s, t, a))
<1> DEFINE n == Incorporate(s, t, a)
<1> DEFINE g == Append(h, [t |-> t, a |-> a])
<1>0. s # Absent
  BY BehavioralAssumption
<1>1. /\ s.count \in Nat /\ s.sum \in Int /\ s.sqdev \in Int /\ s.recent \in Seq(Nat)
      /\ s.min \in Nat \cup {NaN} /\ s.max \in Nat \cup {NaN} /\ s.last \in Nat \cup {NaN}
  BY DEF EntityStates
<1>2. Welford(s, a) \in Int
  <2>1. CASE s.count = 0
    BY <2>1 DEF Welford
  <2>2. CASE s.count # 0
    <3> DEFINE d == s.count * a - s.sum
    <3> DEFINE num == s.sqdev * (s.count + 1) + d * d
    <3>0. d \in Int /\ s.sqdev * (s.count + 1) \in Int
      <4>1. \A x, y \in Int : x * y \in Int
        OBVIOUS
      <4>2. s.count * a \in Int /\ s.sqdev * (s.count + 1) \in Int
        BY <1>1, <4>1
      <4>3. \A x, y \in Int : x - y \in Int
        OBVIOUS
      <4> QED BY <1>1, <4>2, <4>3
    <3> HIDE DEF d
    <3>1. num \in Int
      BY <1>1, <3>0
    <3> HIDE DEF num
    <3>2. num \div s.count \in Int
      BY <1>1, <2>2, <3>1
    <3> QED BY <2>2, <3>2 DEF Welford, num, d
  <2> QED BY <2>1, <2>2
<1>3. Least(s.min, a) \in Nat /\ Greatest(s.max, a) \in Nat
  BY <1>1 DEF Least, Greatest
<1>4. /\ Append(s.recent, t) \in Seq(Nat)
      /\ Len(Append(s.recent, t)) = Len(s.recent) + 1
      /\ \A j \in 1..Len(s.recent) : Append(s.recent, t)[j] = s.recent[j]
      /\ Append(s.recent, t)[Len(s.recent) + 1] = t
  BY <1>1, AppendProperties
<1>5. [t |-> t, a |-> a] \in Txn
  BY DEF Txn
<1>6. /\ g \in Seq(Txn) /\ Len(g) = Len(h) + 1
      /\ \A j \in 1..Len(h) : g[j] = h[j]
      /\ g[Len(h) + 1] = [t |-> t, a |-> a]
  BY <1>5, AppendProperties
<1>7. /\ n \in EntityStates
      /\ n.count = s.count + 1 /\ n.last = t /\ n.recent = Append(s.recent, t)
      /\ n.min = Least(s.min, a) /\ n.max = Greatest(s.max, a)
  BY <1>1, <1>2, <1>3, <1>4 DEF EntityStates, Incorporate
<1> HIDE DEF n
<1>8. Len(h) \in Nat /\ Len(s.recent) \in Nat
  BY <1>1, LenProperties
<1>9. /\ s.count = Len(h)
      /\ Len(h) - Len(s.recent) >= 0
      /\ \A j \in 1..Len(s.recent) : s.recent[j] = h[(Len(h) - Len(s.recent)) + j].t
      /\ \A i \in 1..(Len(h) - Len(s.recent)) : h[i].t < now - Day
  BY <1>0 DEF Summarises
<1>10. Summarises(n, g, now)
  <2> HIDE DEF g
  <2>0. n # Absent
    BY <1>7, BehavioralAssumption
  <2>1. n.count = Len(g)
    BY <1>6, <1>7, <1>9
  <2>2. n.last = g[Len(g)].t
    BY <1>6, <1>7
  <2>3. Len(g) - Len(n.recent) = Len(h) - Len(s.recent)
    <3>1. \A x, y \in Nat : (x + 1) - (y + 1) = x - y
      OBVIOUS
    <3>2. Len(n.recent) = Len(s.recent) + 1
      BY <1>4, <1>7
    <3> QED BY <1>6, <1>8, <3>1, <3>2
  <2>4. \A j \in 1..Len(n.recent) : n.recent[j] = g[(Len(h) - Len(s.recent)) + j].t
    <3> TAKE j \in 1..Len(n.recent)
    <3>1. CASE j = Len(s.recent) + 1
      <4>1. \A x, y \in Nat : (x - y) + (y + 1) = x + 1
        OBVIOUS
      <4>2. (Len(h) - Len(s.recent)) + j = Len(h) + 1
        BY <1>8, <3>1, <4>1
      <4> QED BY <1>4, <1>6, <1>7, <3>1, <4>2
    <3>2. CASE j # Len(s.recent) + 1
      <4>1. j \in 1..Len(s.recent) /\ (Len(h) - Len(s.recent)) + j \in 1..Len(h)
        BY <1>4, <1>7, <1>8, <1>9, <3>2
      <4>2. n.recent[j] = s.recent[j]
        BY <1>4, <1>7, <4>1
      <4>3. g[(Len(h) - Len(s.recent)) + j] = h[(Len(h) - Len(s.recent)) + j]
        BY <1>6, <4>1
      <4>4. s.recent[j] = h[(Len(h) - Len(s.recent)) + j].t
        BY <1>9, <4>1
      <4> QED BY <4>2, <4>3, <4>4
    <3> QED BY <3>1, <3>2
  <2>5. \A i \in 1..(Len(h) - Len(s.recent)) : g[i].t < now - Day
    BY <1>6, <1>8, <1>9
  <2> QED BY <1>9, <2>0, <2>1, <2>2, <2>3, <2>4, <2>5 DEF Summarises
<1>11. NoneIffEmpty(n)
  <2>1. n.min \in Nat /\ n.max \in Nat /\ n.last \in Nat
    BY <1>3, <1>7
  <2>2. n.count # 0
    BY <1>1, <1>7
  <2>3. NaN \notin Nat
    BY BehavioralAssumption
  <2> QED BY <2>1, <2>2, <2>3 DEF NoneIffEmpty
<1> QED BY <1>7, <1>10, <1>11 DEF n

(* The whole of update().                                                  *)
LEMMA UpdateSummarises ==
  ASSUME NEW s \in EntityStates, NEW h \in Seq(Txn), NEW now \in Nat,
         NEW t \in Nat, NEW a \in Nat, t <= now, Summarises(s, h, now), NoneIffEmpty(s)
  PROVE  /\ Update(s, t, a) \in EntityStates
         /\ Summarises(Update(s, t, a), Append(h, [t |-> t, a |-> a]), now)
         /\ NoneIffEmpty(Update(s, t, a))
<1> DEFINE n == Incorporate(s, t, a)
<1> DEFINE g == Append(h, [t |-> t, a |-> a])
<1>1. n \in EntityStates /\ Summarises(n, g, now) /\ NoneIffEmpty(n)
  BY AppendSummarises
<1>2. g \in Seq(Txn)
  BY AppendProperties DEF Txn
<1>3. Update(s, t, a) = Prune(n, t)
  BY DEF Update
<1> HIDE DEF n, g
<1>4. /\ Prune(n, t) \in EntityStates
      /\ Summarises(Prune(n, t), g, now)
      /\ NoneIffEmpty(Prune(n, t))
  BY <1>1, <1>2, PruneSummarises
<1> QED BY <1>3, <1>4 DEF g

(* bulk_initialize on a fresh entity summarises the block.                 *)
LEMMA BulkSummarises ==
  ASSUME NEW e \in Entities, History[e] # <<>>, NEW now \in Nat, AsOf <= now
  PROVE  /\ BulkInitialize(EmptyEntity, History[e], AsOf) \in EntityStates
         /\ Summarises(BulkInitialize(EmptyEntity, History[e], AsOf), History[e], now)
         /\ NoneIffEmpty(BulkInitialize(EmptyEntity, History[e], AsOf))
<1> DEFINE b == History[e]
<1> DEFINE times == [i \in DOMAIN b |-> b[i].t]
<1> DEFINE amts == {b[i].a : i \in DOMAIN b}
<1> DEFINE r == DropExpired(times, AsOf - Day)
<1> DEFINE n == BulkInitialize(EmptyEntity, b, AsOf)
<1>1. b \in Seq(Txn)
  BY BehavioralAssumption
<1>2. Len(b) \in Nat \ {0} /\ DOMAIN b = 1..Len(b)
  BY <1>1, EmptySeq, LenProperties
<1>3. \A i \in 1..Len(b) : b[i].t \in Nat
  BY <1>1, TimesAreNatural
<1>4. /\ times \in Seq(Nat) /\ Len(times) = Len(b)
      /\ \A i \in 1..Len(b) : times[i] = b[i].t
  BY <1>2, <1>3
<1>5. AsOf \in Nat /\ AsOf - Day \in Int
  BY WarmStartAssumption, WindowAssumption
<1>6. BlockSum(b) \in Int /\ BlockSqdev(b) \in Int /\ Min(amts) \in Nat /\ Max(amts) \in Nat
  BY WarmStartAssumption
<1>7. PICK k \in 0..Len(times) :
        /\ Len(r) = Len(times) - k
        /\ \A j \in 1..(Len(times) - k) : r[j] = times[k + j]
        /\ \A i \in 1..k : times[i] < AsOf - Day
  BY <1>4, <1>5, DropExpiredIsTail
<1>8. r \in Seq(Nat)
  BY <1>4, <1>5, DropExpiredIsTail
<1> HIDE DEF b, times, amts, r
<1>9. Len(r) = Len(b) - k /\ k \in 0..Len(b)
  BY <1>2, <1>4, <1>7
<1>10. <<>> \o r = r
  BY <1>8, ConcatEmptySeq
<1>11. n = [count |-> 0 + Len(b), sum |-> 0 + BlockSum(b), sqdev |-> BlockSqdev(b),
            min |-> Min(amts), max |-> Max(amts), last |-> times[Len(b)], recent |-> r]
  BY <1>2, <1>10 DEF BulkInitialize, EmptyEntity, Merge, Least, Greatest, r, times, amts
<1> HIDE DEF n
<1>12. times[Len(b)] \in Nat /\ times[Len(b)] = b[Len(b)].t
  BY <1>2, <1>3, <1>4
<1>13. n \in EntityStates
  BY <1>2, <1>6, <1>8, <1>11, <1>12 DEF EntityStates
<1>14. Len(b) - Len(r) = k
  <2>1. \A x, y \in Int : x - (x - y) = y
    OBVIOUS
  <2>2. k \in Int /\ Len(b) \in Int
    BY <1>2, <1>9
  <2> QED BY <1>9, <2>1, <2>2
<1>15. \A j \in 1..Len(r) : r[j] = b[k + j].t
  <2> TAKE j \in 1..Len(r)
  <2>1. r[j] = times[k + j]
    BY <1>4, <1>7, <1>9
  <2>2. k + j \in 1..Len(b)
    BY <1>2, <1>9
  <2> QED BY <1>4, <2>1, <2>2
<1>16. \A i \in 1..k : b[i].t < now - Day
  BY <1>2, <1>3, <1>4, <1>5, <1>7, WindowAssumption
<1>17. n # Absent
  BY <1>13, BehavioralAssumption
<1>18. Summarises(n, b, now)
  <2>1. n.count = Len(b) /\ n.last = b[Len(b)].t /\ n.recent = r
    BY <1>2, <1>11, <1>12
  <2>2. Len(b) - Len(n.recent) = k
    BY <1>14, <2>1
  <2>3. Len(b) - Len(n.recent) >= 0 /\ b # <<>>
    <3>1. b # <<>>
      BY DEF b
    <3>2. k >= 0
      BY <1>2, <1>9
    <3> QED BY <2>2, <3>1, <3>2
  <2>4. \A j \in 1..Len(n.recent) : n.recent[j] = b[(Len(b) - Len(n.recent)) + j].t
    BY <1>15, <2>1, <2>2
  <2>5. \A i \in 1..(Len(b) - Len(n.recent)) : b[i].t < now - Day
    BY <1>16, <2>2
  <2> QED BY <1>17, <2>1, <2>3, <2>4, <2>5 DEF Summarises
<1>19. NoneIffEmpty(n)
  BY <1>2, <1>6, <1>11, <1>12, BehavioralAssumption DEF NoneIffEmpty
<1> QED BY <1>13, <1>18, <1>19 DEF n, b

----------------------------------------------------------------------------
(* The inductive invariant: the live store and the serialized copy each    *)
(* agree with the transactions they stand for, and no time in either lies  *)
(* beyond the clock.  The saved half is needed by LoadSerialized, the      *)
(* AsOf bound by Restart, which warm-starts long after startup.            *)
EntityAgrees(s, h, now) == /\ Sorted(h)
                           /\ \A i \in 1..Len(h) : h[i].t <= now
                           /\ Summarises(s, h, now)
                           /\ s # Absent => NoneIffEmpty(s)

Agrees(st, h, now) == /\ st \in [Entities -> EntityStates \cup {Absent}]
                      /\ h \in [Entities -> Seq(Txn)]
                      /\ \A e \in Entities : EntityAgrees(st[e], h[e], now)

IInv == /\ deployment \in Deployments
        /\ clock \in Nat
        /\ AsOf <= clock
        /\ Agrees(store, history, clock)
        /\ saved # NaN => Agrees(saved, savedHistory, clock)

(* The deployments the guarantee is about: a warm start replays the        *)
(* historical rows, so it must not find keys that outlived the process.    *)
NoWarmRedis == \A d \in Deployments : ~(d.backend = "redis" /\ d.warm)

LEMMA EntityAgreesLater ==
  ASSUME NEW s \in EntityStates \cup {Absent}, NEW h \in Seq(Txn),
         NEW now \in Nat, NEW later \in Nat, now <= later, EntityAgrees(s, h, now)
  PROVE  EntityAgrees(s, h, later)
<1>1. Summarises(s, h, later)
  BY LaterSummarises DEF EntityAgrees
<1>2. \A i \in 1..Len(h) : h[i].t \in Nat
  BY TimesAreNatural
<1>3. \A i \in 1..Len(h) : h[i].t <= later
  BY <1>2 DEF EntityAgrees
<1> QED BY <1>1, <1>3 DEF EntityAgrees

LEMMA AgreesLater ==
  ASSUME NEW st, NEW h, NEW now \in Nat, NEW later \in Nat,
         now <= later, Agrees(st, h, now)
  PROVE  Agrees(st, h, later)
<1>1. ASSUME NEW e \in Entities PROVE EntityAgrees(st[e], h[e], later)
  <2>1. st[e] \in EntityStates \cup {Absent} /\ h[e] \in Seq(Txn) /\ EntityAgrees(st[e], h[e], now)
    BY DEF Agrees
  <2> QED BY <2>1, EntityAgreesLater
<1> QED BY <1>1 DEF Agrees

(* One entity replaced.                                                    *)
LEMMA AgreesExcept ==
  ASSUME NEW st, NEW h, NEW now, Agrees(st, h, now), NEW e \in Entities,
         NEW s \in EntityStates \cup {Absent}, NEW x \in Seq(Txn), EntityAgrees(s, x, now)
  PROVE  Agrees([st EXCEPT ![e] = s], [h EXCEPT ![e] = x], now)
<1> DEFINE st2 == [st EXCEPT ![e] = s]
<1> DEFINE h2 == [h EXCEPT ![e] = x]
<1>1. st2 \in [Entities -> EntityStates \cup {Absent}] /\ h2 \in [Entities -> Seq(Txn)]
  BY Zenon DEF Agrees
<1>2. ASSUME NEW f \in Entities PROVE EntityAgrees(st2[f], h2[f], now)
  <2>1. CASE f = e
    <3>1. st2[f] = s /\ h2[f] = x
      BY <2>1, Zenon DEF Agrees
    <3> QED BY <3>1
  <2>2. CASE f # e
    <3>1. st2[f] = st[f] /\ h2[f] = h[f]
      BY <2>2, Zenon DEF Agrees
    <3> QED BY <3>1 DEF Agrees
  <2> QED BY <2>1, <2>2
<1> QED BY <1>1, <1>2 DEF Agrees

LEMMA AgreesEmpty ==
  ASSUME NEW now \in Nat
  PROVE  Agrees(EmptyStore, NoHistory, now)
<1>1. EntityAgrees(Absent, <<>>, now)
  BY DEF EntityAgrees, Sorted, Summarises
<1>2. <<>> \in Seq(Txn)
  OBVIOUS
<1> QED BY <1>1, <1>2 DEF Agrees, EmptyStore, NoHistory

(* A warm start onto an empty backend.                                     *)
LEMMA AgreesWarm ==
  ASSUME NEW now \in Nat, AsOf <= now
  PROVE  Agrees(WarmStart(EmptyStore), History, now)
<1> DEFINE st == WarmStart(EmptyStore)
<1>1. History \in [Entities -> Seq(Txn)]
  BY BehavioralAssumption
<1>2. ASSUME NEW e \in Entities
      PROVE  st[e] \in EntityStates \cup {Absent} /\ EntityAgrees(st[e], History[e], now)
  <2>0. Sorted(History[e])
    BY BehavioralAssumption DEF Sorted
  <2>1. \A i \in 1..Len(History[e]) : History[e][i].t <= now
    <3>1. \A i \in 1..Len(History[e]) : History[e][i].t \in Nat /\ History[e][i].t <= AsOf
      BY <1>1, WarmStartAssumption, TimesAreNatural
    <3>2. AsOf \in Nat
      BY WarmStartAssumption
    <3> QED BY <3>1, <3>2
  <2>2. CASE History[e] = <<>>
    <3>1. st[e] = Absent
      BY <2>2 DEF WarmStart, EmptyStore
    <3> QED BY <2>0, <2>1, <2>2, <3>1 DEF EntityAgrees, Summarises
  <2>3. CASE History[e] # <<>>
    <3>1. st[e] = BulkInitialize(EmptyEntity, History[e], AsOf)
      BY <2>3 DEF WarmStart, EmptyStore, GetOrCreate
    <3> QED BY <2>0, <2>1, <2>3, <3>1, BulkSummarises DEF EntityAgrees
  <2> QED BY <2>2, <2>3
<1>3. st \in [Entities -> EntityStates \cup {Absent}]
  <2>1. st = [e \in Entities |-> st[e]]
    BY DEF WarmStart
  <2> HIDE DEF st
  <2> QED BY <1>2, <2>1
<1> HIDE DEF st
<1>4. Agrees(st, History, now)
  BY <1>1, <1>2, <1>3 DEF Agrees
<1> QED BY <1>4 DEF st

(* get_or_create turns a missing entity into an empty one, the same        *)
(* summary of no transactions.                                             *)
LEMMA GetOrCreateAgrees ==
  ASSUME NEW s \in EntityStates \cup {Absent}, NEW h \in Seq(Txn), NEW now \in Nat,
         EntityAgrees(s, h, now)
  PROVE  GetOrCreate(s) \in EntityStates /\ EntityAgrees(GetOrCreate(s), h, now)
<1>1. CASE s = Absent
  <2>1. h = <<>>
    BY <1>1 DEF EntityAgrees, Summarises
  <2>2. EmptyEntity \in EntityStates
    BY DEF EmptyEntity, EntityStates
  <2>3. EmptyEntity # Absent
    BY <2>2, BehavioralAssumption
  <2>4. Summarises(EmptyEntity, <<>>, now)
    BY <2>3 DEF Summarises, EmptyEntity
  <2>5. NoneIffEmpty(EmptyEntity)
    BY DEF NoneIffEmpty, EmptyEntity
  <2> QED BY <1>1, <2>1, <2>2, <2>4, <2>5 DEF GetOrCreate, EntityAgrees
<1>2. CASE s # Absent
  BY <1>2 DEF GetOrCreate
<1> QED BY <1>1, <1>2

(* update() on behalf of one accepted transaction, not older than any      *)
(* recorded one.                                                           *)
LEMMA UpdateAgrees ==
  ASSUME NEW s \in EntityStates, NEW h \in Seq(Txn), NEW t \in Nat, NEW a \in Nat,
         EntityAgrees(s, h, t), s # Absent
  PROVE  /\ Update(s, t, a) \in EntityStates
         /\ Append(h, [t |-> t, a |-> a]) \in Seq(Txn)
         /\ EntityAgrees(Update(s, t, a), Append(h, [t |-> t, a |-> a]), t)
<1> DEFINE g == Append(h, [t |-> t, a |-> a])
<1>1. /\ Update(s, t, a) \in EntityStates
      /\ Summarises(Update(s, t, a), g, t)
      /\ NoneIffEmpty(Update(s, t, a))
  BY UpdateSummarises DEF EntityAgrees
<1>2. /\ g \in Seq(Txn) /\ Len(g) = Len(h) + 1
      /\ \A j \in 1..Len(h) : g[j] = h[j]
      /\ g[Len(h) + 1] = [t |-> t, a |-> a]
  BY AppendProperties DEF Txn
<1>3. Len(h) \in Nat /\ \A i \in 1..Len(h) : h[i].t \in Nat
  BY TimesAreNatural
<1>4. /\ \A i \in 1..Len(h) : h[i].t <= t
      /\ \A i \in 1..Len(h) : \A j \in i..Len(h) : h[i].t <= h[j].t
  BY DEF EntityAgrees, Sorted
<1> HIDE DEF g
<1>5. \A i \in 1..Len(g) : g[i].t <= t
  BY <1>2, <1>3, <1>4
<1>6. ASSUME NEW i \in 1..Len(g), NEW j \in i..Len(g) PROVE g[i].t <= g[j].t
  <2>1. CASE j = Len(h) + 1
    BY <1>2, <1>5, <2>1
  <2>2. CASE j # Len(h) + 1
    <3>1. i \in 1..Len(h) /\ j \in i..Len(h) /\ j \in 1..Len(h)
      BY <1>2, <1>3, <2>2
    <3> QED BY <1>2, <1>4, <3>1
  <2> QED BY <2>1, <2>2
<1> QED BY <1>1, <1>2, <1>5, <1>6 DEF EntityAgrees, Sorted, g

----------------------------------------------------------------------------
(* Every step preserves the inductive invariant. *)

LEMMA InitIInv ==
  ASSUME Init
  PROVE  IInv
<1>1. AsOf \in Nat /\ clock = AsOf
  BY WarmStartAssumption DEF Init
<1>2. Agrees(store, history, clock)
  <2>1. CASE deployment.warm
    <3>1. store = WarmStart(EmptyStore) /\ history = History
      BY <2>1 DEF Init
    <3> QED BY <1>1, <3>1, AgreesWarm
  <2>2. CASE ~deployment.warm
    <3>1. store = EmptyStore /\ history = NoHistory
      BY <2>2 DEF Init
    <3> QED BY <1>1, <3>1, AgreesEmpty
  <2> QED BY <2>1, <2>2
<1> QED BY <1>1, <1>2 DEF Init, IInv

(* A request at time t moves the clock to t, and everything agrees at t.   *)
LEMMA RequestAdvances ==
  ASSUME InOrder, IInv, NEW e \in Entities, NEW t \in EventTimes, NEW a \in AmountSet,
         Request(e, t, a), Advance(t)
  PROVE  /\ t \in Nat /\ a \in Nat /\ clock <= t /\ clock' = t /\ AsOf <= t
         /\ Agrees(store, history, t)
         /\ saved # NaN => Agrees(saved, savedHistory, t)
         /\ store[e] \in EntityStates \cup {Absent}
         /\ history[e] \in Seq(Txn)
         /\ EntityAgrees(store[e], history[e], t)
<1>1. t \in Nat /\ a \in Nat /\ clock \in Nat /\ AsOf \in Nat
  BY BehavioralAssumption, WarmStartAssumption DEF IInv
<1>2. clock <= t /\ clock' = t
  <2>1. t >= clock
    BY Zenon DEF Request
  <2>2. clock' = IF t > clock THEN t ELSE clock
    BY DEF Advance
  <2> QED BY <1>1, <2>1, <2>2
<1>3. AsOf <= t
  BY <1>1, <1>2 DEF IInv
<1>4. Agrees(store, history, t) /\ (saved # NaN => Agrees(saved, savedHistory, t))
  BY <1>1, <1>2, AgreesLater DEF IInv
<1> QED BY <1>1, <1>2, <1>3, <1>4 DEF Agrees

(* compute_features prunes a stored entity, or leaves it alone.            *)
LEMMA AfterReadAgrees ==
  ASSUME NEW e \in Entities, NEW t \in Nat, NEW h \in Seq(Txn),
         store[e] \in EntityStates \cup {Absent}, EntityAgrees(store[e], h, t)
  PROVE  /\ AfterRead(e, t) \in EntityStates \cup {Absent}
         /\ EntityAgrees(AfterRead(e, t), h, t)
<1>1. CASE deployment.backend = "memory" /\ store[e] # Absent
  <2>1. AfterRead(e, t) = Prune(store[e], t)
    BY <1>1 DEF AfterRead
  <2>2. /\ Prune(store[e], t) \in EntityStates
        /\ Summarises(Prune(store[e], t), h, t)
        /\ NoneIffEmpty(Prune(store[e], t))
    BY <1>1, PruneSummarises DEF EntityAgrees
  <2> QED BY <2>1, <2>2 DEF EntityAgrees
<1>2. CASE ~(deployment.backend = "memory" /\ store[e] # Absent)
  <2>1. AfterRead(e, t) = store[e]
    BY <1>2 DEF AfterRead
  <2> QED BY <2>1
<1> QED BY <1>1, <1>2

(* The final put of update(), whatever get_or_create found.                *)
LEMMA PutAgrees ==
  ASSUME NEW e \in Entities, NEW t \in Nat, NEW a \in Nat, Agrees(store, history, t),
         NEW s \in EntityStates \cup {Absent}, EntityAgrees(s, history[e], t)
  PROVE  Agrees([store EXCEPT ![e] = Update(GetOrCreate(s), t, a)],
                [history EXCEPT ![e] = Append(@, [t |-> t, a |-> a])], t)
<1> DEFINE u == Update(GetOrCreate(s), t, a)
<1> DEFINE g == Append(history[e], [t |-> t, a |-> a])
<1>1. history[e] \in Seq(Txn)
  BY DEF Agrees
<1>2. GetOrCreate(s) \in EntityStates /\ EntityAgrees(GetOrCreate(s), history[e], t)
  BY <1>1, GetOrCreateAgrees
<1>3. GetOrCreate(s) # Absent
  BY <1>2, BehavioralAssumption
<1>4. u \in EntityStates /\ g \in Seq(Txn) /\ EntityAgrees(u, g, t)
  BY <1>1, <1>2, <1>3, UpdateAgrees
<1> HIDE DEF u, g
<1>5. Agrees([store EXCEPT ![e] = u], [history EXCEPT ![e] = g], t)
  BY <1>4, AgreesExcept
<1> QED BY <1>5 DEF u, g

LEMMA NextIInv ==
  ASSUME InOrder, NoWarmRedis, IInv, [Next]_vars
  PROVE  IInv'
<1> USE DEF IInv
<1>1. ASSUME NEW e \in Entities, NEW t \in EventTimes, NEW a \in AmountSet,
             ProcessTransaction(e, t, a)
      PROVE  IInv'
  <2>1. Request(e, t, a) /\ Advance(t)
    BY <1>1 DEF ProcessTransaction
  <2>2. /\ t \in Nat /\ a \in Nat /\ clock' = t /\ AsOf <= t
        /\ Agrees(store, history, t)
        /\ saved # NaN => Agrees(saved, savedHistory, t)
        /\ store[e] \in EntityStates \cup {Absent} /\ history[e] \in Seq(Txn)
        /\ EntityAgrees(store[e], history[e], t)
    BY <2>1, RequestAdvances
  <2>3. /\ AfterRead(e, t) \in EntityStates \cup {Absent}
        /\ EntityAgrees(AfterRead(e, t), history[e], t)
    BY <2>2, AfterReadAgrees
  <2>4. Agrees(store', history', t)
    BY <1>1, <2>2, <2>3, PutAgrees DEF ProcessTransaction, Record
  <2> QED BY <1>1, <2>2, <2>4 DEF ProcessTransaction
<1>2. ASSUME NEW e \in Entities, NEW t \in EventTimes, NEW a \in AmountSet,
             PipelineRaises(e, t, a)
      PROVE  IInv'
  <2>1. Request(e, t, a) /\ Advance(t)
    BY <1>2 DEF PipelineRaises
  <2>2. /\ t \in Nat /\ a \in Nat /\ clock' = t /\ AsOf <= t
        /\ Agrees(store, history, t)
        /\ saved # NaN => Agrees(saved, savedHistory, t)
        /\ store[e] \in EntityStates \cup {Absent} /\ history[e] \in Seq(Txn)
        /\ EntityAgrees(store[e], history[e], t)
    BY <2>1, RequestAdvances
  <2>3. /\ AfterRead(e, t) \in EntityStates \cup {Absent}
        /\ EntityAgrees(AfterRead(e, t), history[e], t)
    BY <2>2, AfterReadAgrees
  <2>4. Agrees([store EXCEPT ![e] = AfterRead(e, t)], [history EXCEPT ![e] = history[e]], t)
    BY <2>2, <2>3, AgreesExcept
  <2>5. [history EXCEPT ![e] = history[e]] = history
    BY <2>2 DEF Agrees
  <2>6. Agrees(store', history', t)
    BY <1>2, <2>4, <2>5 DEF PipelineRaises
  <2> QED BY <1>2, <2>2, <2>6 DEF PipelineRaises
<1>3. ASSUME NEW e \in Entities, NEW t \in EventTimes, NEW a \in AmountSet,
             StateBackendUnavailable(e, t, a)
      PROVE  IInv'
  <2>1. Request(e, t, a) /\ Advance(t)
    BY <1>3 DEF StateBackendUnavailable
  <2>2. /\ t \in Nat /\ a \in Nat /\ clock' = t /\ AsOf <= t
        /\ Agrees(store, history, t)
        /\ saved # NaN => Agrees(saved, savedHistory, t)
        /\ store[e] \in EntityStates \cup {Absent} /\ history[e] \in Seq(Txn)
        /\ EntityAgrees(store[e], history[e], t)
    BY <2>1, RequestAdvances
  <2>3. ASSUME UNCHANGED <<store, history>>
        PROVE  Agrees(store', history', t)
    BY <2>2, <2>3
  <2>4. ASSUME store' = [store EXCEPT ![e] = GetOrCreate(@)], UNCHANGED history
        PROVE  Agrees(store', history', t)
    <3>1. /\ GetOrCreate(store[e]) \in EntityStates
          /\ EntityAgrees(GetOrCreate(store[e]), history[e], t)
      BY <2>2, GetOrCreateAgrees
    <3>2. Agrees([store EXCEPT ![e] = GetOrCreate(store[e])],
                 [history EXCEPT ![e] = history[e]], t)
      BY <2>2, <3>1, AgreesExcept
    <3>3. [history EXCEPT ![e] = history[e]] = history
      BY <2>2 DEF Agrees
    <3> QED BY <2>4, <3>2, <3>3
  <2>5. ASSUME store' = [store EXCEPT ![e] = Update(GetOrCreate(@), t, a)],
               Record(e, t, a)
        PROVE  Agrees(store', history', t)
    BY <2>2, <2>5, PutAgrees DEF Record
  <2>6. Agrees(store', history', t)
    BY <1>3, <2>2, <2>3, <2>4, <2>5 DEF StateBackendUnavailable
  <2> QED BY <1>3, <2>2, <2>6 DEF StateBackendUnavailable
<1>4. ASSUME NEW a \in BadAmounts, RejectTransaction(a) PROVE IInv'
  BY <1>4 DEF RejectTransaction
<1>5. CASE ResetState
  BY <1>5, AgreesEmpty DEF ResetState
<1>6. CASE Restart
  <2>1. CASE deployment.backend = "redis"
    <3>1. ~deployment.warm
      BY <2>1 DEF NoWarmRedis
    <3> QED BY <1>6, <2>1, <3>1 DEF Restart
  <2>2. CASE deployment.backend # "redis" /\ deployment.warm
    <3>1. store' = WarmStart(EmptyStore) /\ history' = History
      BY <1>6, <2>2 DEF Restart
    <3>2. Agrees(store', history', clock)
      BY <3>1, AgreesWarm
    <3> QED BY <1>6, <3>2 DEF Restart
  <2>3. CASE deployment.backend # "redis" /\ ~deployment.warm
    <3>1. store' = EmptyStore /\ history' = NoHistory
      BY <1>6, <2>3 DEF Restart
    <3>2. Agrees(store', history', clock)
      BY <3>1, AgreesEmpty
    <3> QED BY <1>6, <3>2 DEF Restart
  <2> QED BY <2>1, <2>2, <2>3
<1>7. CASE Serialize
  BY <1>7 DEF Serialize
<1>8. CASE LoadSerialized
  BY <1>8 DEF LoadSerialized
<1>9. CASE UNCHANGED vars
  BY <1>9 DEF vars
<1> QED BY <1>1, <1>2, <1>3, <1>4, <1>5, <1>6, <1>7, <1>8, <1>9 DEF Next

----------------------------------------------------------------------------
(* The store's types hold, and min, max and last are None exactly in an    *)
(* entity without transactions, in every reachable state.                  *)
THEOREM TypeCorrect ==
  ASSUME InOrder, NoWarmRedis
  PROVE  Spec => []TypeOK
<1>1. Init => IInv
  BY InitIInv
<1>2. IInv /\ [Next]_vars => IInv'
  BY NextIInv
<1>3. IInv => TypeOK
  BY DEF IInv, Agrees, EntityAgrees, TypeOK
<1> QED BY <1>1, <1>2, <1>3, PTL DEF Spec

(* For any entities, times, amounts, windows and warm-start rows, after    *)
(* any sequence of requests, failures, resets, restarts and reloads, every *)
(* stored entity is the exact summary of its recorded transactions.        *)
THEOREM SummaryInvariant ==
  ASSUME InOrder, NoWarmRedis
  PROVE  Spec => []StoreSummarisesHistory
<1>1. Init => IInv
  BY InitIInv
<1>2. IInv /\ [Next]_vars => IInv'
  BY NextIInv
<1>3. IInv => StoreSummarisesHistory
  BY DEF IInv, Agrees, EntityAgrees, StoreSummarisesHistory
<1> QED BY <1>1, <1>2, <1>3, PTL DEF Spec

----------------------------------------------------------------------------
(* Numbers: Welford's step and the two passes over a block divide exactly. *)

(* A division that leaves no remainder.                                    *)
LEMMA ExactDivision ==
  ASSUME NEW n \in Nat \ {0}, NEW x \in Int
  PROVE  (n * x) \div n = x
OBVIOUS

(* Welford's numerator is n times the new sum of squared deviations.       *)
LEMMA WelfordIdentity ==
  ASSUME NEW n \in Int, NEW S \in Int, NEW Q \in Int, NEW a \in Int
  PROVE  (n * Q - S * S) * (n + 1) + (n * a - S) * (n * a - S)
           = n * ((n + 1) * (Q + a * a) - (S + a) * (S + a))
OBVIOUS

(* n^2 times the squared deviations of a block from its own mean.          *)
LEMMA BlockEnd ==
  ASSUME NEW k \in Int, NEW S \in Int, NEW q \in Int
  PROVE  k * k * q - 2 * k * S * S + k * S * S = k * (k * q - S * S)
OBVIOUS

----------------------------------------------------------------------------
(* Folds.  The library's fold over a sequence is a recursive function on   *)
(* the sets of its indices, the greatest index last.  Induction is by the  *)
(* least length (or index) for which a claim fails: LeastNatural.          *)

(* The equation such a fold solves; `w` is what each index adds.           *)
Iterates(w, n, it) ==
  it = [s \in SUBSET (1..n) |-> IF s = {} THEN 0 ELSE it[s \ {Max(s)}] + w[Max(s)]]

(* p holds the partial sums of w.                                          *)
Sums(w, n, p) == /\ p \in [0..n -> Int] /\ p[0] = 0
                 /\ \A k \in 1..n : p[k] = p[k - 1] + w[k]

(* A non-empty set of naturals with a bound has a greatest element.        *)
LEMMA GreatestNatural ==
  ASSUME NEW s \in SUBSET Nat, s # {}, NEW n \in Nat, \A y \in s : y <= n
  PROVE  Max(s) \in s /\ \A y \in s : y <= Max(s)
<1> DEFINE above == {m \in Nat : \A y \in s : y <= m}
<1>0. \A y \in s : y \in Nat /\ y <= n
  OBVIOUS
<1>1. n \in above
  BY <1>0
<1>2. above \in SUBSET Nat /\ above # {}
  BY <1>1
<1>3. PICK m \in above : \A k \in above : m <= k
  BY <1>2, LeastNatural
<1>4. m \in Nat /\ \A y \in s : y <= m
  BY <1>3
<1>5. m \in s
  <2>1. ASSUME m \notin s PROVE FALSE
    <3>1. \A y \in s : y < m
      BY <1>0, <1>4, <2>1
    <3>2. m - 1 \in Nat
      <4>1. PICK y \in s : TRUE
        OBVIOUS
      <4> QED BY <1>0, <1>4, <3>1, <4>1
    <3>3. \A y \in s : y <= m - 1
      BY <1>0, <1>4, <3>1
    <3>4. m - 1 \in above
      BY <3>2, <3>3
    <3>5. m <= m - 1
      BY <1>3, <3>4
    <3> QED BY <1>4, <3>5
  <2> QED BY <2>1
<1>6. \A y \in s : m >= y
  BY <1>0, <1>4
<1>7. \E x \in s : \A y \in s : x >= y
  BY <1>5, <1>6
<1>8. Max(s) \in s /\ \A y \in s : Max(s) >= y
  BY <1>7 DEF Max
<1> DEFINE x == Max(s)
<1>9. x \in s /\ \A y \in s : x >= y
  BY <1>8
<1> HIDE DEF x
<1>10. \A y \in s : y <= x
  BY <1>0, <1>9
<1> QED BY <1>9, <1>10 DEF x

(* The greatest index of a set that contains the last one.                 *)
LEMMA GreatestIndex ==
  ASSUME NEW n \in Nat, NEW s \in SUBSET (1..n), n \in s
  PROVE  Max(s) = n
<1>0. s \in SUBSET Nat /\ s # {} /\ \A y \in s : y <= n
  OBVIOUS
<1> DEFINE x == Max(s)
<1>1. x \in s /\ n <= x
  BY <1>0, GreatestNatural
<1> HIDE DEF x
<1>2. x \in 1..n
  BY <1>1
<1>3. x = n
  BY <1>1, <1>2
<1> QED BY <1>3 DEF x

(* The greatest index is one of the set.                                   *)
LEMMA GreatestOfIndices ==
  ASSUME NEW n \in Nat, NEW s \in SUBSET (1..n), s # {}
  PROVE  Max(s) \in s
<1>1. s \in SUBSET Nat /\ \A y \in s : y <= n
  OBVIOUS
<1> QED BY <1>1, GreatestNatural

(* Such a function exists: one for a shorter sequence can be extended.     *)
LEMMA IteratesExists ==
  ASSUME NEW w, NEW n \in Nat
  PROVE  \E it : Iterates(w, n, it)
<1> DEFINE bad == {k \in Nat : ~ \E it : Iterates(w, k, it)}
<1>1. ASSUME bad # {} PROVE FALSE
  <2>1. bad \in SUBSET Nat
    OBVIOUS
  <2>2. PICK k \in bad : \A m \in bad : k <= m
    BY <1>1, <2>1, LeastNatural
  <2>3. k # 0
    <3>1. Iterates(w, 0, [s \in SUBSET (1..0) |-> 0])
      BY DEF Iterates
    <3> QED BY <2>2, <3>1
  <2>4. k - 1 \in Nat /\ k - 1 \notin bad
    BY <2>2, <2>3
  <2>5. PICK f : Iterates(w, k - 1, f)
    BY <2>4
  <2> DEFINE g == [s \in SUBSET (1..k) |-> IF k \in s THEN f[s \ {k}] + w[k] ELSE f[s]]
  <2>6. ASSUME NEW s \in SUBSET (1..k)
        PROVE  g[s] = IF s = {} THEN 0 ELSE g[s \ {Max(s)}] + w[Max(s)]
    <3>1. CASE k \in s
      <4>1. Max(s) = k
        BY <2>2, <3>1, GreatestIndex
      <4>2. s \ {k} \in SUBSET (1..k) /\ k \notin s \ {k}
        OBVIOUS
      <4>3. g[s \ {k}] = f[s \ {k}] /\ g[s] = f[s \ {k}] + w[k]
        BY <3>1, <4>2
      <4> QED BY <3>1, <4>1, <4>3
    <3>2. CASE k \notin s
      <4>1. s \in SUBSET (1..(k - 1))
        BY <2>2, <3>2
      <4>2. f[s] = IF s = {} THEN 0 ELSE f[s \ {Max(s)}] + w[Max(s)]
        BY <2>5, <4>1 DEF Iterates
      <4>3. s \ {Max(s)} \in SUBSET (1..k) /\ k \notin s \ {Max(s)}
        BY <3>2
      <4>4. g[s] = f[s] /\ g[s \ {Max(s)}] = f[s \ {Max(s)}]
        BY <3>2, <4>3
      <4> QED BY <4>2, <4>4
    <3> QED BY <3>1, <3>2
  <2>7. Iterates(w, k, g)
    <3>1. g = [s \in SUBSET (1..k) |-> g[s]]
      OBVIOUS
    <3> HIDE DEF g
    <3> QED BY <2>6, <3>1 DEF Iterates
  <2> QED BY <2>2, <2>7
<1> QED BY <1>1

(* Its values on the initial intervals are the partial sums.               *)
LEMMA IteratesSums ==
  ASSUME NEW n \in Nat, NEW w \in [1..n -> Int], NEW it, Iterates(w, n, it)
  PROVE  \E p : Sums(w, n, p) /\ it[1..n] = p[n]
<1> DEFINE p == [k \in 0..n |-> it[1..k]]
<1>1. p[0] = 0 /\ p[n] = it[1..n]
  <2>1. 1..0 = {} /\ it[{}] = 0
    BY DEF Iterates
  <2> QED BY <2>1
<1>2. ASSUME NEW k \in 1..n PROVE p[k] = p[k - 1] + w[k]
  <2>1. 1..k \in SUBSET (1..n) /\ k \in 1..k /\ k \in Nat
    OBVIOUS
  <2>2. Max(1..k) = k
    BY <2>1, GreatestIndex
  <2>3. (1..k) \ {k} = 1..(k - 1)
    OBVIOUS
  <2>4. it[1..k] = it[(1..k) \ {Max(1..k)}] + w[Max(1..k)]
    BY <2>1 DEF Iterates
  <2>5. k \in 0..n /\ k - 1 \in 0..n
    OBVIOUS
  <2> QED BY <2>2, <2>3, <2>4, <2>5
<1> DEFINE bad == {k \in 0..n : p[k] \notin Int}
<1>3. bad = {}
  <2>1. ASSUME bad # {} PROVE FALSE
    <3>1. bad \in SUBSET Nat
      OBVIOUS
    <3>2. PICK k \in bad : \A m \in bad : k <= m
      BY <2>1, <3>1, LeastNatural
    <3>3. k # 0 /\ k \in 0..n /\ p[k] \notin Int
      BY <1>1, <3>2
    <3> HIDE DEF p
    <3>4. k \in 1..n /\ k - 1 \in 0..n /\ k - 1 < k
      BY <3>3
    <3>5. p[k - 1] \in Int
      BY <3>2, <3>4
    <3>6. w[k] \in Int
      BY <3>4
    <3> QED BY <1>2, <3>3, <3>4, <3>5, <3>6
  <2> QED BY <2>1
<1>4. p \in [0..n -> Int]
  BY <1>3
<1> HIDE DEF p
<1> QED BY <1>1, <1>2, <1>4 DEF Sums

(* Partial sums are determined by what is added.                           *)
LEMMA SumsAgree ==
  ASSUME NEW n \in Nat, NEW m \in Nat, n <= m, NEW v, NEW w, NEW p, NEW q,
         Sums(v, n, p), Sums(w, m, q), \A i \in 1..n : v[i] = w[i]
  PROVE  \A k \in 0..n : p[k] = q[k]
<1> DEFINE bad == {k \in 0..n : p[k] # q[k]}
<1>1. ASSUME bad # {} PROVE FALSE
  <2>1. bad \in SUBSET Nat
    OBVIOUS
  <2>2. PICK k \in bad : \A i \in bad : k <= i
    BY <1>1, <2>1, LeastNatural
  <2>3. k # 0
    BY <2>2 DEF Sums
  <2>4. k \in 1..n /\ k \in 1..m /\ k - 1 \in 0..n /\ k - 1 \notin bad
    BY <2>2, <2>3
  <2>5. p[k - 1] = q[k - 1] /\ v[k] = w[k]
    BY <2>4
  <2>6. p[k] = p[k - 1] + v[k] /\ q[k] = q[k - 1] + w[k]
    BY <2>4 DEF Sums
  <2> QED BY <2>2, <2>5, <2>6
<1> QED BY <1>1

(* Sum of the amounts: the same fold online (a block's) and offline.       *)
LEMMA SumIsTotal ==
  ASSUME NEW h \in Seq(Txn)
  PROVE  /\ Offline!Sum(h) = BlockSum(h)
         /\ \E p : Sums([i \in 1..Len(h) |-> h[i].a], Len(h), p) /\ BlockSum(h) = p[Len(h)]
<1> DEFINE n == Len(h)
           w == [i \in 1..n |-> h[i].a]
           Fold(it) == it = [s \in SUBSET (1..n) |->
                              IF s = {} THEN 0 ELSE it[s \ {Max(s)}] + h[Max(s)].a]
<1>1. n \in Nat /\ DOMAIN h = 1..n /\ w \in [1..n -> Int]
  <2>1. n \in Nat /\ DOMAIN h = 1..n
    BY LenProperties
  <2>2. \A i \in 1..n : h[i] \in Txn
    BY ElementOfSeq
  <2>3. \A i \in 1..n : h[i].a \in Int
    BY <2>2 DEF Txn
  <2> HIDE DEF n
  <2> QED BY <2>1, <2>3
<1>2. BlockSum(h) = (CHOOSE it : Fold(it))[1..n]
  BY <1>1 DEF BlockSum, FoldLeft, MapThenFoldSet
<1>3. Offline!Sum(h) = (CHOOSE it : Fold(it))[1..n]
  BY <1>1 DEF Offline!Sum, Offline!FoldLeft, Offline!MapThenFoldSet, Max, Offline!Max
<1>4. ASSUME NEW it PROVE Fold(it) <=> Iterates(w, n, it)
  <2>1. ASSUME NEW s \in SUBSET (1..n), s # {} PROVE Max(s) \in 1..n
    BY <1>1, <2>1, GreatestOfIndices
  <2>2. \A s \in SUBSET (1..n) : s # {} => w[Max(s)] = h[Max(s)].a
    BY <2>1
  <2> HIDE DEF w
  <2> QED BY <2>2 DEF Iterates
<1> HIDE DEF w
<1>5. PICK it : Iterates(w, n, it)
  BY <1>1, IteratesExists
<1>6. \E x : Fold(x)
  BY <1>4, <1>5
<1>7. Fold(CHOOSE x : Fold(x))
  BY <1>6
<1> DEFINE c == CHOOSE x : Fold(x)
<1>8. Iterates(w, n, c)
  BY <1>4, <1>7
<1> HIDE DEF c
<1>9. \E p : Sums(w, n, p) /\ c[1..n] = p[n]
  BY <1>1, <1>8, IteratesSums
<1> QED BY <1>2, <1>3, <1>9 DEF c, w

(* Sum of their squares.                                                   *)
LEMMA SquaresAreTotal ==
  ASSUME NEW h \in Seq(Txn)
  PROVE  \E p : /\ Sums([i \in 1..Len(h) |-> h[i].a * h[i].a], Len(h), p)
               /\ Offline!SumOfSquares(h) = p[Len(h)]
<1> DEFINE n == Len(h)
           w == [i \in 1..n |-> h[i].a * h[i].a]
           Fold(it) == it = [s \in SUBSET (1..n) |->
                              IF s = {} THEN 0 ELSE it[s \ {Max(s)}] + h[Max(s)].a * h[Max(s)].a]
<1>1. n \in Nat /\ DOMAIN h = 1..n /\ w \in [1..n -> Int]
  <2>1. n \in Nat /\ DOMAIN h = 1..n
    BY LenProperties
  <2>2. \A i \in 1..n : h[i] \in Txn
    BY ElementOfSeq
  <2>3. \A i \in 1..n : h[i].a \in Int
    BY <2>2 DEF Txn
  <2>4. \A i \in 1..n : h[i].a * h[i].a \in Int
    BY <2>3
  <2> HIDE DEF n
  <2> QED BY <2>1, <2>4
<1>2. Offline!SumOfSquares(h) = (CHOOSE it : Fold(it))[1..n]
  BY <1>1 DEF Offline!SumOfSquares, Offline!FoldLeft, Offline!MapThenFoldSet, Max, Offline!Max
<1>4. ASSUME NEW it PROVE Fold(it) <=> Iterates(w, n, it)
  <2>1. ASSUME NEW s \in SUBSET (1..n), s # {} PROVE Max(s) \in 1..n
    BY <1>1, <2>1, GreatestOfIndices
  <2>2. \A s \in SUBSET (1..n) : s # {} => w[Max(s)] = h[Max(s)].a * h[Max(s)].a
    BY <2>1
  <2> HIDE DEF w
  <2> QED BY <2>2 DEF Iterates
<1> HIDE DEF w
<1>5. PICK it : Iterates(w, n, it)
  BY <1>1, IteratesExists
<1>6. \E x : Fold(x)
  BY <1>4, <1>5
<1>7. Fold(CHOOSE x : Fold(x))
  BY <1>6
<1> DEFINE c == CHOOSE x : Fold(x)
<1>8. Iterates(w, n, c)
  BY <1>4, <1>7
<1> HIDE DEF c
<1>9. \E p : Sums(w, n, p) /\ c[1..n] = p[n]
  BY <1>1, <1>8, IteratesSums
<1> QED BY <1>2, <1>9 DEF c, w

(* The second pass of bulk_initialize.                                     *)
LEMMA BlockFoldIsTotal ==
  ASSUME NEW h \in Seq(Txn), BlockSum(h) \in Int
  PROVE  \E p : /\ Sums([i \in 1..Len(h) |->
                          (Len(h) * h[i].a - BlockSum(h)) * (Len(h) * h[i].a - BlockSum(h))],
                       Len(h), p)
               /\ BlockSqdev(h) = p[Len(h)] \div Len(h)
<1> DEFINE n == Len(h)
           S == BlockSum(h)
           w == [i \in 1..n |-> (n * h[i].a - S) * (n * h[i].a - S)]
           Fold(it) == it = [s \in SUBSET (1..n) |->
                              IF s = {} THEN 0
                              ELSE it[s \ {Max(s)}]
                                     + (n * h[Max(s)].a - S) * (n * h[Max(s)].a - S)]
<1>1. n \in Nat /\ DOMAIN h = 1..n /\ w \in [1..n -> Int]
  <2>1. n \in Nat /\ DOMAIN h = 1..n
    BY LenProperties
  <2>2. \A i \in 1..n : h[i] \in Txn
    BY ElementOfSeq
  <2>3. \A i \in 1..n : h[i].a \in Int
    BY <2>2 DEF Txn
  <2> HIDE DEF n, S
  <2>4. S \in Int
    BY DEF S
  <2>5. \A i \in 1..n : (n * h[i].a - S) * (n * h[i].a - S) \in Int
    BY <2>1, <2>3, <2>4
  <2> QED BY <2>1, <2>5
<1>2. BlockSqdev(h) = (CHOOSE it : Fold(it))[1..n] \div n
  BY <1>1 DEF BlockSqdev, FoldLeft, MapThenFoldSet
<1>4. ASSUME NEW it PROVE Fold(it) <=> Iterates(w, n, it)
  <2>1. ASSUME NEW s \in SUBSET (1..n), s # {} PROVE Max(s) \in 1..n
    BY <1>1, <2>1, GreatestOfIndices
  <2>2. \A s \in SUBSET (1..n) : s # {} => w[Max(s)] = (n * h[Max(s)].a - S) * (n * h[Max(s)].a - S)
    BY <2>1
  <2> HIDE DEF w
  <2> QED BY <2>2 DEF Iterates
<1> HIDE DEF w
<1>5. PICK it : Iterates(w, n, it)
  BY <1>1, IteratesExists
<1>6. \E x : Fold(x)
  BY <1>4, <1>5
<1>7. Fold(CHOOSE x : Fold(x))
  BY <1>6
<1> DEFINE c == CHOOSE x : Fold(x)
<1>8. Iterates(w, n, c)
  BY <1>4, <1>7
<1> HIDE DEF c
<1>9. \E p : Sums(w, n, p) /\ c[1..n] = p[n]
  BY <1>1, <1>8, IteratesSums
<1> QED BY <1>2, <1>9 DEF c, w

----------------------------------------------------------------------------
(* The sums and the extremes of a list, as transactions are added.         *)

(* Short names for what OfflineFeatures computes from a list.              *)
Total(h) == Offline!Sum(h)
Squares(h) == Offline!SumOfSquares(h)

(* No transactions.                                                        *)
LEMMA TotalsOfNothing ==
  Total(<<>>) = 0 /\ Squares(<<>>) = 0
<1>1. <<>> \in Seq(Txn) /\ Len(<<>>) = 0
  OBVIOUS
<1>2. PICK p : Sums([i \in 1..Len(<<>>) |-> <<>>[i].a], Len(<<>>), p)
               /\ BlockSum(<<>>) = p[Len(<<>>)]
  BY <1>1, SumIsTotal
<1>3. PICK q : Sums([i \in 1..Len(<<>>) |-> <<>>[i].a * <<>>[i].a], Len(<<>>), q)
               /\ Squares(<<>>) = q[Len(<<>>)]
  BY <1>1, SquaresAreTotal DEF Squares
<1>4. Total(<<>>) = BlockSum(<<>>)
  BY <1>1, SumIsTotal DEF Total
<1> QED BY <1>1, <1>2, <1>3, <1>4 DEF Sums

(* The totals are numbers.                                                 *)
LEMMA TotalsAreIntegers ==
  ASSUME NEW h \in Seq(Txn)
  PROVE  Total(h) \in Int /\ Squares(h) \in Int
<1> DEFINE n == Len(h)
           v == [i \in 1..n |-> h[i].a]
           w == [i \in 1..n |-> h[i].a * h[i].a]
<1>1. n \in Nat
  BY LenProperties
<1>2. PICK p : Sums(v, n, p) /\ Total(h) = p[n]
  BY SumIsTotal DEF Total
<1>3. PICK q : Sums(w, n, q) /\ Squares(h) = q[n]
  BY SquaresAreTotal DEF Squares
<1> HIDE DEF n, v, w
<1>4. n \in 0..n
  BY <1>1
<1> QED BY <1>2, <1>3, <1>4 DEF Sums

(* One more transaction adds its amount, and its square.                   *)
LEMMA TotalsOfAppend ==
  ASSUME NEW h \in Seq(Txn), NEW x \in Txn
  PROVE  /\ Total(Append(h, x)) = Total(h) + x.a
         /\ Squares(Append(h, x)) = Squares(h) + x.a * x.a
<1> DEFINE g == Append(h, x)
           n == Len(h)
           v1(s) == [i \in 1..Len(s) |-> s[i].a]
           v2(s) == [i \in 1..Len(s) |-> s[i].a * s[i].a]
<1>1. /\ g \in Seq(Txn) /\ Len(g) = n + 1 /\ n \in Nat
      /\ \A i \in 1..n : g[i] = h[i]
      /\ g[n + 1] = x
  BY AppendProperties, LenProperties
<1> HIDE DEF g, n
<1>2. PICK p1 : Sums(v1(h), n, p1) /\ Total(h) = p1[n]
  BY SumIsTotal DEF Total, n
<1>3. PICK q1 : Sums(v1(g), n + 1, q1) /\ Total(g) = q1[n + 1]
  BY <1>1, SumIsTotal DEF Total
<1>4. PICK p2 : Sums(v2(h), n, p2) /\ Squares(h) = p2[n]
  BY SquaresAreTotal DEF Squares, n
<1>5. PICK q2 : Sums(v2(g), n + 1, q2) /\ Squares(g) = q2[n + 1]
  BY <1>1, SquaresAreTotal DEF Squares
<1>6. \A i \in 1..n : i \in 1..(n + 1)
  BY <1>1
<1>7. \A i \in 1..n : v1(h)[i] = v1(g)[i] /\ v2(h)[i] = v2(g)[i]
  <2> TAKE i \in 1..n
  <2>1. i \in 1..Len(h) /\ i \in 1..Len(g) /\ g[i] = h[i]
    BY <1>1, <1>6 DEF n
  <2> QED BY <2>1
<1>8. v1(g)[n + 1] = x.a /\ v2(g)[n + 1] = x.a * x.a
  <2>1. n + 1 \in 1..Len(g) /\ g[n + 1] = x
    BY <1>1
  <2> QED BY <2>1
<1> HIDE DEF v1, v2
<1>9. n <= n + 1 /\ n + 1 \in Nat /\ n \in 0..n /\ n + 1 \in 1..(n + 1) /\ (n + 1) - 1 = n
  BY <1>1
<1>10. p1[n] = q1[n]
  <2>1. \A k \in 0..n : p1[k] = q1[k]
    BY <1>1, <1>2, <1>3, <1>7, <1>9, SumsAgree
  <2> QED BY <1>9, <2>1
<1>11. p2[n] = q2[n]
  <2>1. \A k \in 0..n : p2[k] = q2[k]
    BY <1>1, <1>4, <1>5, <1>7, <1>9, SumsAgree
  <2> QED BY <1>9, <2>1
<1>12. q1[n + 1] = q1[n] + v1(g)[n + 1]
  <2>1. q1[n + 1] = q1[(n + 1) - 1] + v1(g)[n + 1]
    BY <1>3, <1>9 DEF Sums
  <2> QED BY <1>9, <2>1
<1>13. q2[n + 1] = q2[n] + v2(g)[n + 1]
  <2>1. q2[n + 1] = q2[(n + 1) - 1] + v2(g)[n + 1]
    BY <1>5, <1>9 DEF Sums
  <2> QED BY <1>9, <2>1
<1> QED BY <1>2, <1>3, <1>4, <1>5, <1>8, <1>10, <1>11, <1>12, <1>13 DEF g

(* bulk_initialize's two passes give what the offline formula gives.       *)
LEMMA BlockMoments ==
  ASSUME NEW b \in Seq(Txn), b # <<>>
  PROVE  /\ BlockSum(b) = Total(b)
         /\ BlockSqdev(b) = Len(b) * Squares(b) - Total(b) * Total(b)
<1> DEFINE n == Len(b)
           S == Total(b)
           v == [i \in 1..n |-> b[i].a]
           w == [i \in 1..n |-> b[i].a * b[i].a]
           d == [i \in 1..n |-> (n * b[i].a - S) * (n * b[i].a - S)]
<1>1. n \in Nat \ {0}
  BY LenProperties, EmptySeq
<1>2. BlockSum(b) = S /\ S \in Int
  BY SumIsTotal, TotalsAreIntegers DEF Total
<1>3. PICK p : Sums(v, n, p) /\ S = p[n]
  BY SumIsTotal DEF Total
<1>4. PICK q : Sums(w, n, q) /\ Squares(b) = q[n]
  BY SquaresAreTotal DEF Squares
<1>5. PICK r : Sums(d, n, r) /\ BlockSqdev(b) = r[n] \div n
  BY <1>2, BlockFoldIsTotal
<1>6. \A i \in 1..n : b[i].a \in Int
  <2>1. \A i \in 1..n : b[i] \in Txn
    BY ElementOfSeq
  <2> QED BY <2>1 DEF Txn
<1>7. ASSUME NEW i \in 1..n
      PROVE  v[i] = b[i].a /\ w[i] = b[i].a * b[i].a /\ d[i] = (n * b[i].a - S) * (n * b[i].a - S)
  OBVIOUS
<1> HIDE DEF n, S, v, w, d
<1> DEFINE z == [i \in 0..n |-> n * n * q[i] - 2 * n * S * p[i] + i * S * S]
<1>8. \A i \in 0..n : p[i] \in Int /\ q[i] \in Int
  BY <1>3, <1>4 DEF Sums
<1>9. z \in [0..n -> Int]
  <2>1. ASSUME NEW i \in 0..n PROVE n * n * q[i] - 2 * n * S * p[i] + i * S * S \in Int
    <3>1. p[i] \in Int /\ q[i] \in Int /\ n \in Int /\ S \in Int /\ i \in Int
      BY <1>1, <1>2, <1>8
    <3> QED BY <3>1
  <2> QED BY <2>1
<1>10. z[0] = 0
  <2>1. 0 \in 0..n /\ p[0] = 0 /\ q[0] = 0
    BY <1>1, <1>3, <1>4 DEF Sums
  <2> QED BY <1>1, <1>2, <2>1
<1>11. ASSUME NEW i \in 1..n PROVE z[i] = z[i - 1] + d[i]
  <2> DEFINE j == i - 1
             a == b[i].a
  <2>1. i \in 0..n /\ j \in 0..n /\ j + 1 = i /\ j \in Int
    BY <1>1
  <2>2. p[i] = p[j] + a /\ q[i] = q[j] + a * a
    BY <1>3, <1>4, <1>7 DEF Sums
  <2>3. a \in Int
    BY <1>6
  <2>4. p[j] \in Int /\ q[j] \in Int
    BY <1>8, <2>1
  <2>5. /\ z[i] = n * n * q[i] - 2 * n * S * p[i] + i * S * S
        /\ z[j] = n * n * q[j] - 2 * n * S * p[j] + j * S * S
    BY <2>1
  <2>6. d[i] = (n * a - S) * (n * a - S)
    BY <1>7
  <2> HIDE DEF j, a, z
  <2>7. z[i] = n * n * (q[j] + a * a) - 2 * n * S * (p[j] + a) + (j + 1) * S * S
    BY <2>1, <2>2, <2>5
  <2>8. n * n * (q[j] + a * a) - 2 * n * S * (p[j] + a) + (j + 1) * S * S
          = (n * n * q[j] - 2 * n * S * p[j] + j * S * S) + (n * a - S) * (n * a - S)
    <3> DEFINE x == p[j]
               y == q[j]
    <3>1. n \in Int /\ S \in Int /\ x \in Int /\ y \in Int /\ a \in Int /\ j \in Int
      BY <1>1, <1>2, <2>1, <2>3, <2>4
    <3> HIDE DEF x, y
    <3>2. n * n * (y + a * a) - 2 * n * S * (x + a) + (j + 1) * S * S
            = (n * n * y - 2 * n * S * x + j * S * S) + (n * a - S) * (n * a - S)
      BY <3>1
    <3> QED BY <3>2 DEF x, y
  <2>9. z[i] = z[j] + d[i]
    BY <2>5, <2>6, <2>7, <2>8
  <2> QED BY <2>9 DEF j
<1>12. Sums(d, n, z)
  <2> HIDE DEF z
  <2> QED BY <1>9, <1>10, <1>11 DEF Sums
<1>13. n \in Nat /\ n <= n /\ n \in 0..n
  BY <1>1
<1>14. r[n] = z[n]
  <2> HIDE DEF z
  <2>1. \A k \in 0..n : r[k] = z[k]
    BY <1>5, <1>12, <1>13, SumsAgree
  <2> QED BY <1>13, <2>1
<1>15. z[n] = n * n * Squares(b) - 2 * n * S * S + n * S * S
  BY <1>3, <1>4, <1>13
<1> HIDE DEF z
<1>16. Squares(b) \in Int
  BY TotalsAreIntegers
<1> DEFINE m == n * Squares(b) - S * S
<1>17. z[n] = n * m /\ m \in Int
  <2>1. n \in Int
    BY <1>1
  <2>2. m \in Int
    BY <1>2, <1>16, <2>1
  <2> QED BY <1>2, <1>15, <1>16, <2>1, <2>2, BlockEnd
<1>18. BlockSqdev(b) = (n * m) \div n
  BY <1>5, <1>14, <1>17
<1> HIDE DEF m
<1>19. BlockSqdev(b) = m
  BY <1>1, <1>17, <1>18, ExactDivision
<1> QED BY <1>2, <1>19 DEF m, n, S

Amounts(h) == Offline!Amounts(h)

(* The amounts of a list are bounded.                                      *)
LEMMA AmountsBounded ==
  ASSUME NEW h \in Seq(Txn)
  PROVE  Amounts(h) \in SUBSET Nat /\ \E m \in Nat : \A y \in Amounts(h) : y <= m
<1> DEFINE n == Len(h)
<1>1. n \in Nat /\ DOMAIN h = 1..n
  BY LenProperties
<1>2. \A i \in 1..n : h[i].a \in Nat
  <2>1. \A i \in 1..n : h[i] \in Txn
    BY ElementOfSeq
  <2> QED BY <2>1 DEF Txn
<1> HIDE DEF n
<1> DEFINE a(i) == h[i].a
           bad == {k \in 0..n : ~ \E m \in Nat : \A i \in 1..k : a(i) <= m}
<1>3. ASSUME bad # {} PROVE FALSE
  <2>1. bad \in SUBSET Nat
    OBVIOUS
  <2>2. PICK k \in bad : \A m \in bad : k <= m
    BY <1>3, <2>1, LeastNatural
  <2>3. k # 0 /\ k \in 0..n
    BY <2>2
  <2> HIDE DEF bad
  <2>4. k \in 1..n /\ k - 1 \in 0..n /\ k - 1 < k
    BY <1>1, <2>3
  <2>4a. k - 1 \notin bad
    <3> DEFINE j == k - 1
    <3>1. ~ (k <= j)
      BY <2>4
    <3> HIDE DEF j
    <3> QED BY <2>2, <3>1 DEF j
  <2>5. PICK m \in Nat : \A i \in 1..(k - 1) : a(i) <= m
    BY <2>4, <2>4a DEF bad
  <2>6. a(k) \in Nat
    BY <1>2, <2>4
  <2>7. \A i \in 1..n : a(i) \in Nat
    BY <1>2
  <2> HIDE DEF a
  <2> DEFINE top == IF a(k) > m THEN a(k) ELSE m
  <2>8. top \in Nat /\ m <= top /\ a(k) <= top
    BY <2>5, <2>6
  <2> HIDE DEF top
  <2>9. \A i \in 1..k : a(i) <= top
    <3> TAKE i \in 1..k
    <3>1. CASE i = k
      BY <2>8, <3>1
    <3>2. CASE i # k
      <4>1. i \in 1..(k - 1) /\ i \in 1..n
        BY <1>1, <2>4, <3>2
      <4>2. a(i) <= m /\ a(i) \in Nat
        BY <2>5, <2>7, <4>1
      <4> QED BY <2>8, <4>2
    <3> QED BY <3>1, <3>2
  <2> QED BY <2>2, <2>8, <2>9 DEF bad
<1>4. \E m \in Nat : \A i \in 1..n : a(i) <= m
  <2>1. n \in 0..n
    BY <1>1
  <2>2. n \notin bad
    BY <1>3
  <2> HIDE DEF a
  <2> QED BY <2>1, <2>2
<1>5. Amounts(h) = {a(i) : i \in 1..n}
  BY <1>1 DEF Amounts, Offline!Amounts
<1>6. \A i \in 1..n : a(i) \in Nat
  BY <1>2
<1> HIDE DEF a
<1>7. Amounts(h) \in SUBSET Nat
  BY <1>5, <1>6
<1> QED BY <1>4, <1>5, <1>7

(* The extremes of the amounts are amounts, and bound the others.          *)
LEMMA ExtremesAreAmounts ==
  ASSUME NEW h \in Seq(Txn), h # <<>>
  PROVE  /\ Min(Amounts(h)) \in Amounts(h) /\ \A y \in Amounts(h) : Min(Amounts(h)) <= y
         /\ Max(Amounts(h)) \in Amounts(h) /\ \A y \in Amounts(h) : y <= Max(Amounts(h))
<1>1. Amounts(h) \in SUBSET Nat
  BY AmountsBounded
<1>2. Amounts(h) # {}
  <2>1. 1 \in DOMAIN h
    <3>1. Len(h) \in Nat \ {0} /\ DOMAIN h = 1..Len(h)
      BY LenProperties, EmptySeq
    <3> QED BY <3>1
  <2>2. h[1].a \in Amounts(h)
    BY <2>1 DEF Amounts, Offline!Amounts
  <2> QED BY <2>2
<1>3. PICK m \in Nat : \A y \in Amounts(h) : y <= m
  BY AmountsBounded
<1>4. Max(Amounts(h)) \in Amounts(h) /\ \A y \in Amounts(h) : y <= Max(Amounts(h))
  BY <1>1, <1>2, <1>3, GreatestNatural
<1>5. \E m2 \in Amounts(h) : \A y \in Amounts(h) : m2 <= y
  BY <1>1, <1>2, LeastNatural
<1>6. Min(Amounts(h)) \in Amounts(h) /\ \A y \in Amounts(h) : Min(Amounts(h)) <= y
  BY <1>5 DEF Min
<1> QED BY <1>4, <1>6

(* A bound that is attained is the extreme.                                *)
LEMMA MinIs ==
  ASSUME NEW S \in SUBSET Nat, NEW m \in S, \A y \in S : m <= y
  PROVE  Min(S) = m
<1>1. Min(S) \in S /\ \A y \in S : Min(S) <= y
  BY DEF Min
<1> DEFINE x == Min(S)
<1>2. x \in S /\ x <= m /\ m <= x
  BY <1>1
<1> HIDE DEF x
<1>3. x = m
  BY <1>2
<1> QED BY <1>3 DEF x

LEMMA MaxIs ==
  ASSUME NEW S \in SUBSET Nat, NEW m \in S, \A y \in S : y <= m
  PROVE  Max(S) = m
<1>0. \A y \in S : m >= y
  OBVIOUS
<1>1. Max(S) \in S /\ \A y \in S : Max(S) >= y
  BY <1>0 DEF Max
<1> DEFINE x == Max(S)
<1>2. x \in S /\ x <= m /\ x >= m
  BY <1>1
<1> HIDE DEF x
<1>3. x = m
  BY <1>2
<1> QED BY <1>3 DEF x

(* One more transaction adds its amount ...                                *)
LEMMA AmountsOfAppend ==
  ASSUME NEW h \in Seq(Txn), NEW x \in Txn
  PROVE  Amounts(Append(h, x)) = Amounts(h) \cup {x.a}
<1> DEFINE g == Append(h, x)
           n == Len(h)
<1>1. /\ g \in Seq(Txn) /\ Len(g) = n + 1 /\ n \in Nat
      /\ \A i \in 1..n : g[i] = h[i]
      /\ g[n + 1] = x
  BY AppendProperties, LenProperties
<1>2. DOMAIN h = 1..n
  BY LenProperties
<1> HIDE DEF g, n
<1>3. DOMAIN g = 1..(n + 1)
  BY <1>1, LenProperties
<1>4. Amounts(g) = {g[i].a : i \in 1..(n + 1)}
  BY <1>3 DEF Amounts, Offline!Amounts
<1>5. Amounts(h) = {h[i].a : i \in 1..n}
  BY <1>2 DEF Amounts, Offline!Amounts
<1>6. \A i \in 1..n : g[i].a = h[i].a /\ i \in 1..(n + 1)
  BY <1>1
<1>7. \A i \in 1..(n + 1) : i \in 1..n \/ i = n + 1
  BY <1>1
<1>8. g[n + 1].a = x.a /\ n + 1 \in 1..(n + 1)
  BY <1>1
<1>9. ASSUME NEW y \in Amounts(g) PROVE y \in Amounts(h) \cup {x.a}
  BY <1>4, <1>5, <1>6, <1>7, <1>8, <1>9
<1>10. ASSUME NEW y \in Amounts(h) \cup {x.a} PROVE y \in Amounts(g)
  BY <1>4, <1>5, <1>6, <1>8, <1>10
<1>11. Amounts(g) = Amounts(h) \cup {x.a}
  BY <1>9, <1>10
<1> QED BY <1>11 DEF g

(* ... and moves the extremes as update() does.                            *)
LEMMA ExtremesOfAppend ==
  ASSUME NEW h \in Seq(Txn), NEW x \in Txn
  PROVE  /\ h = <<>> => /\ Min(Amounts(Append(h, x))) = x.a
                        /\ Max(Amounts(Append(h, x))) = x.a
         /\ h # <<>> => /\ Min(Amounts(Append(h, x))) = Least(Min(Amounts(h)), x.a)
                        /\ Max(Amounts(Append(h, x))) = Greatest(Max(Amounts(h)), x.a)
<1> DEFINE A == Amounts(h)
           B == Amounts(Append(h, x))
<1>1. A \in SUBSET Nat /\ B = A \cup {x.a} /\ x.a \in Nat
  BY AmountsBounded, AmountsOfAppend DEF Txn
<1>2. B \in SUBSET Nat
  BY <1>1
<1> HIDE DEF B
<1>3. CASE h = <<>>
  <2>1. A = {}
    BY <1>3 DEF Amounts, Offline!Amounts
  <2> HIDE DEF A
  <2>2. B = {x.a}
    BY <1>1, <2>1
  <2>3. x.a \in B /\ (\A y \in B : x.a <= y) /\ (\A y \in B : y <= x.a)
    BY <1>1, <2>2
  <2> QED BY <1>2, <1>3, <2>3, MinIs, MaxIs DEF B
<1>4. CASE h # <<>>
  <2> DEFINE lo == Min(A)
             hi == Max(A)
  <2>1. lo \in A /\ (\A y \in A : lo <= y) /\ hi \in A /\ (\A y \in A : y <= hi)
    BY <1>4, ExtremesAreAmounts
  <2> HIDE DEF lo, hi, A
  <2>2. lo \in Nat /\ hi \in Nat /\ NaN \notin Nat
    BY <1>1, <2>1, BehavioralAssumption
  <2> DEFINE l == Least(lo, x.a)
             u == Greatest(hi, x.a)
  <2>3. l = (IF x.a < lo THEN x.a ELSE lo) /\ u = (IF x.a > hi THEN x.a ELSE hi)
    BY <2>2 DEF Least, Greatest
  <2> HIDE DEF l, u
  <2>4. l \in B /\ u \in B
    BY <1>1, <2>1, <2>3
  <2>5. l \in Nat /\ u \in Nat /\ l <= lo /\ l <= x.a /\ hi <= u /\ x.a <= u
    BY <1>1, <2>2, <2>3
  <2>6. ASSUME NEW y \in B PROVE l <= y /\ y <= u
    <3>1. CASE y = x.a
      BY <2>5, <3>1
    <3>2. CASE y # x.a
      <4>1. y \in A /\ y \in Nat
        BY <1>1, <3>2
      <4>2. lo <= y /\ y <= hi
        BY <2>1, <4>1
      <4> QED BY <2>2, <2>5, <4>1, <4>2
    <3> QED BY <3>1, <3>2
  <2>7. Min(B) = l /\ Max(B) = u
    BY <1>2, <2>4, <2>6, MinIs, MaxIs
  <2> QED BY <1>4, <2>7 DEF l, u, lo, hi, A, B
<1> QED BY <1>3, <1>4

----------------------------------------------------------------------------
(* The two velocity windows.                                               *)

(* What pruning leaves is within the day, once the history is sorted.      *)
LEMMA PrunedIsLive ==
  ASSUME NEW s \in EntityStates, NEW h \in Seq(Txn), NEW t \in Nat, EntityAgrees(s, h, t)
  PROVE  LET r == Prune(s, t).recent
             cut == Len(h) - Len(r)
         IN  /\ r \in Seq(Nat) /\ cut \in 0..Len(h)
             /\ \A j \in 1..Len(r) : r[j] = h[cut + j].t
             /\ \A i \in 1..Len(h) : h[i].t >= t - Day <=> i > cut
<1> DEFINE q == s.recent
           r == Prune(s, t).recent
           n == Len(h)
           m == Len(r)
           cut == n - m
<1>0. s # Absent
  BY BehavioralAssumption
<1>1. Prune(s, t) \in EntityStates /\ Summarises(Prune(s, t), h, t)
  BY <1>0, PruneSummarises DEF EntityAgrees
<1>2. Prune(s, t) # Absent
  BY <1>1, BehavioralAssumption
<1>3. r \in Seq(Nat) /\ n \in Nat /\ m \in Nat /\ \A i \in 1..n : h[i].t \in Nat
  BY <1>1, LenProperties, TimesAreNatural DEF EntityStates
<1>4. /\ cut >= 0
      /\ \A j \in 1..m : r[j] = h[cut + j].t
      /\ \A i \in 1..cut : h[i].t < t - Day
  BY <1>1, <1>2 DEF Summarises
<1>5. r = DropExpired(q, t - Day)
  BY DEF Prune, EntityStates
<1>6. q \in Seq(Nat) /\ t - Day \in Int /\ Day \in Nat
  BY WindowAssumption DEF EntityStates
<1>7. PICK k \in 0..Len(q) :
         /\ m = Len(q) - k
         /\ \A j \in 1..(Len(q) - k) : r[j] = q[k + j]
         /\ k < Len(q) => q[k + 1] >= t - Day
  <2> DEFINE c == t - Day
  <2> HIDE DEF q, r, c
  <2>1. q \in Seq(Nat) /\ c \in Int
    BY <1>6 DEF c
  <2>2. \E k \in 0..Len(q) :
          /\ Len(DropExpired(q, c)) = Len(q) - k
          /\ \A j \in 1..(Len(q) - k) : DropExpired(q, c)[j] = q[k + j]
          /\ \A i \in 1..k : q[i] < c
          /\ k < Len(q) => q[k + 1] >= c
    BY <2>1, DropExpiredIsTail
  <2>3. r = DropExpired(q, c)
    BY <1>5 DEF c
  <2>4. \E k \in 0..Len(q) :
          /\ m = Len(q) - k
          /\ \A j \in 1..(Len(q) - k) : r[j] = q[k + j]
          /\ k < Len(q) => q[k + 1] >= c
    BY <2>2, <2>3
  <2> QED BY <2>4 DEF c
<1>8. m > 0 => r[1] >= t - Day
  <2>1. Len(q) \in Nat
    BY <1>6, LenProperties
  <2>2. m > 0 => k < Len(q) /\ 1 \in 1..(Len(q) - k)
    BY <1>3, <1>7, <2>1
  <2> QED BY <1>7, <2>2
<1>9. \A i \in 1..n : \A j \in i..n : h[i].t <= h[j].t
  BY DEF EntityAgrees, Sorted
<1> HIDE DEF q, r, n, m
<1>10. ASSUME NEW i \in 1..n, i > cut PROVE h[i].t >= t - Day
  <2>1. m > 0 /\ 1 \in 1..m /\ cut + 1 \in 1..n /\ i \in (cut + 1)..n
    BY <1>3, <1>4, <1>10
  <2>2. r[1] >= t - Day /\ r[1] = h[cut + 1].t
    BY <1>4, <1>8, <2>1
  <2>3. h[cut + 1].t <= h[i].t
    BY <1>9, <2>1
  <2>4. h[cut + 1].t \in Nat /\ h[i].t \in Nat
    BY <1>3, <2>1
  <2> QED BY <1>6, <2>2, <2>3, <2>4
<1>11. ASSUME NEW i \in 1..n, ~(i > cut) PROVE h[i].t < t - Day
  <2>1. i \in 1..cut
    BY <1>3, <1>4, <1>11
  <2> QED BY <1>4, <2>1
<1>12. \A i \in 1..n : h[i].t >= t - Day <=> i > cut
  <2> TAKE i \in 1..n
  <2>1. h[i].t \in Nat
    BY <1>3
  <2> HIDE DEF cut
  <2>2. CASE i > cut
    BY <1>10, <2>2
  <2>3. CASE ~(i > cut)
    <3>1. h[i].t < t - Day
      BY <1>11, <2>3
    <3>2. ~(h[i].t >= t - Day)
      BY <1>6, <2>1, <3>1
    <3> QED BY <2>3, <3>2
  <2> QED BY <2>2, <2>3
<1>13. cut \in 0..n
  BY <1>3, <1>4
<1> QED BY <1>3, <1>4, <1>12, <1>13 DEF r, n, m

(* The deque answers both windows as the full list does.                   *)
LEMMA VelocityIsPriorCount ==
  ASSUME NEW s \in EntityStates, NEW h \in Seq(Txn), NEW t \in Nat, EntityAgrees(s, h, t)
  PROVE  /\ VelocityCounts(s, t).day = Offline!PriorCount(h, t, Day)
         /\ VelocityCounts(s, t).hour = Offline!PriorCount(h, t, Hour)
<1> DEFINE r == Prune(s, t).recent
           n == Len(h)
           m == Len(r)
           cut == n - m
<1>1. /\ r \in Seq(Nat) /\ cut \in 0..n
      /\ \A j \in 1..m : r[j] = h[cut + j].t
      /\ \A i \in 1..n : h[i].t >= t - Day <=> i > cut
  BY PrunedIsLive
<1>2. /\ n \in Nat /\ m \in Nat /\ DOMAIN h = 1..n /\ \A i \in 1..n : h[i].t \in Nat
      /\ Hour \in Nat /\ Day \in Nat /\ Hour <= Day
  BY <1>1, LenProperties, TimesAreNatural, WindowAssumption
<1> DEFINE D == {i \in 1..n : h[i].t >= t - Day}
           H == {i \in 1..n : h[i].t >= t - Hour}
           K == {j \in 1..m : r[j] >= t - Hour}
<1>3. /\ Offline!PriorCount(h, t, Day) = Cardinality(D)
      /\ Offline!PriorCount(h, t, Hour) = Cardinality(H)
  BY <1>2 DEF Offline!PriorCount, Offline!Cardinality, Cardinality
<1>4. VelocityCounts(s, t) = [hour |-> Cardinality(K), day |-> m]
  BY DEF VelocityCounts
<1> HIDE DEF r, n, m
<1>5. D = (cut + 1)..n
  BY <1>1, <1>2
<1>6. Cardinality(D) = m
  <2>1. cut + 1 \in Int /\ n \in Int
    BY <1>1, <1>2
  <2>2. Cardinality((cut + 1)..n) = IF cut + 1 > n THEN 0 ELSE n - (cut + 1) + 1
    BY <2>1, FS_Interval
  <2>3. (IF cut + 1 > n THEN 0 ELSE n - (cut + 1) + 1) = m
    BY <1>1, <1>2
  <2> QED BY <1>5, <2>2, <2>3
<1>7. \A i \in H : i > cut
  <2> TAKE i \in H
  <2>1. i \in 1..n /\ h[i].t >= t - Hour /\ h[i].t \in Nat
    BY <1>2
  <2>2. h[i].t >= t - Day
    BY <1>2, <2>1
  <2> QED BY <1>1, <2>1, <2>2
<1> DEFINE f == [j \in K |-> cut + j]
<1>8. ASSUME NEW j \in K PROVE cut + j \in H
  <2>1. j \in 1..m /\ r[j] >= t - Hour /\ r[j] = h[cut + j].t
    BY <1>1
  <2>2. cut + j \in 1..n
    BY <1>1, <1>2, <2>1
  <2> QED BY <2>1, <2>2
<1>9. ASSUME NEW i \in H PROVE \E j \in K : f[j] = i
  <2> DEFINE j == i - cut
  <2>1. i \in 1..n /\ i > cut /\ h[i].t >= t - Hour
    BY <1>7
  <2>2. j \in 1..m /\ cut + j = i
    BY <1>1, <1>2, <2>1
  <2> HIDE DEF j
  <2>3. r[j] = h[i].t
    BY <1>1, <2>2
  <2>4. j \in K
    BY <2>1, <2>2, <2>3
  <2> QED BY <2>2, <2>4
<1>10. ASSUME NEW j \in K, NEW k \in K, f[j] = f[k] PROVE j = k
  <2>1. cut + j = cut + k /\ j \in Int /\ k \in Int /\ cut \in Int
    BY <1>1, <1>2, <1>10
  <2> HIDE DEF cut
  <2> QED BY <2>1
<1>11. f \in [K -> H]
  BY <1>8
<1>12. IsFiniteSet(K)
  <2>1. IsFiniteSet(1..m)
    BY <1>2, FS_Interval
  <2>2. K \in SUBSET (1..m)
    OBVIOUS
  <2> QED BY <2>1, <2>2, FS_Subset
<1> HIDE DEF f, K, H
<1>13. f \in Bijection(K, H)
  BY <1>9, <1>10, <1>11 DEF Bijection, Injection, Surjection, IsInjective
<1>14. Cardinality(H) = Cardinality(K)
  <2>1. ExistsBijection(K, H)
    BY <1>13 DEF ExistsBijection
  <2> QED BY <1>12, <2>1, FS_Bijection
<1> QED BY <1>3, <1>4, <1>6, <1>14

----------------------------------------------------------------------------
(* The statistics of one entity, and the features read from them.          *)

(* The statistics of an entity are those of the full list.                 *)
Matches(s, h) ==
  s # Absent => /\ s.sum = Total(h)
                /\ s.sqdev = Len(h) * Squares(h) - Total(h) * Total(h)
                /\ h # <<>> => s.min = Min(Amounts(h)) /\ s.max = Max(Amounts(h))

(* Pruning leaves the statistics alone.                                    *)
LEMMA PruneMatches ==
  ASSUME NEW s \in EntityStates, NEW h, NEW t, Matches(s, h)
  PROVE  Matches(Prune(s, t), h)
<1>1. s # Absent
  BY BehavioralAssumption
<1> DEFINE p == Prune(s, t)
<1>2. p.sum = s.sum /\ p.sqdev = s.sqdev /\ p.min = s.min /\ p.max = s.max
  BY DEF Prune, EntityStates
<1> HIDE DEF p
<1>3. Matches(p, h)
  BY <1>1, <1>2 DEF Matches
<1> QED BY <1>3 DEF p

(* No transactions, with or without an entity.                             *)
LEMMA EmptyMatches ==
  Matches(EmptyEntity, <<>>) /\ Matches(Absent, <<>>)
<1>1. Total(<<>>) = 0 /\ Squares(<<>>) = 0 /\ Len(<<>>) = 0
  BY TotalsOfNothing
<1> QED BY <1>1 DEF Matches, EmptyEntity

(* Welford's step is exact.                                                *)
LEMMA WelfordMatches ==
  ASSUME NEW s \in EntityStates, NEW h \in Seq(Txn), NEW x \in Txn,
         s.count = Len(h), Matches(s, h)
  PROVE  Welford(s, x.a) = Len(Append(h, x)) * Squares(Append(h, x))
                             - Total(Append(h, x)) * Total(Append(h, x))
<1> DEFINE n == Len(h)
           S == Total(h)
           Q == Squares(h)
           a == x.a
           z == (n + 1) * (Q + a * a) - (S + a) * (S + a)
<1>1. n \in Nat /\ S \in Int /\ Q \in Int /\ a \in Int
  BY LenProperties, TotalsAreIntegers DEF Txn
<1>2. /\ Len(Append(h, x)) = n + 1
      /\ Squares(Append(h, x)) = Q + a * a
      /\ Total(Append(h, x)) = S + a
  BY AppendProperties, TotalsOfAppend
<1>3. s.count = n /\ s.sum = S /\ s.sqdev = n * Q - S * S
  BY BehavioralAssumption DEF Matches
<1>4. CASE n = 0
  <2>1. h = <<>>
    BY <1>4, EmptySeq
  <2>2. S = 0 /\ Q = 0
    BY <2>1, TotalsOfNothing
  <2>3. Welford(s, x.a) = 0
    BY <1>3, <1>4 DEF Welford
  <2> HIDE DEF n, S, Q, a
  <2>4. (n + 1) * (Q + a * a) - (S + a) * (S + a) = 0
    BY <1>1, <1>4, <2>2
  <2> QED BY <1>2, <2>3, <2>4
<1>5. CASE n # 0
  <2>1. Welford(s, x.a) = ((n * Q - S * S) * (n + 1) + (n * a - S) * (n * a - S)) \div n
    BY <1>3, <1>5 DEF Welford
  <2> HIDE DEF n, S, Q, a
  <2>2. (n * Q - S * S) * (n + 1) + (n * a - S) * (n * a - S) = n * z
    <3>1. n \in Int
      BY <1>1
    <3> QED BY <1>1, <3>1, WelfordIdentity
  <2>3. z \in Int /\ n \in Nat \ {0}
    BY <1>1, <1>5
  <2> HIDE DEF z
  <2>4. (n * z) \div n = z
    BY <2>3, ExactDivision
  <2> QED BY <1>2, <2>1, <2>2, <2>4 DEF z
<1> QED BY <1>4, <1>5

(* The whole of update().                                                  *)
LEMMA UpdateMatches ==
  ASSUME NEW s \in EntityStates, NEW h \in Seq(Txn), NEW t \in Nat, NEW a \in Nat,
         NEW now \in Nat, EntityAgrees(s, h, now), Matches(s, h)
  PROVE  Matches(Update(s, t, a), Append(h, [t |-> t, a |-> a]))
<1> DEFINE x == [t |-> t, a |-> a]
           g == Append(h, x)
           u == Incorporate(s, t, a)
<1>1. x \in Txn /\ x.a = a /\ s # Absent
  BY BehavioralAssumption DEF Txn
<1>2. s.count = Len(h)
  BY <1>1 DEF EntityAgrees, Summarises
<1>3. /\ u.sum = s.sum + a /\ u.sqdev = Welford(s, a)
      /\ u.min = Least(s.min, a) /\ u.max = Greatest(s.max, a)
  BY DEF Incorporate
<1>4. u \in EntityStates
  BY <1>1, AppendSummarises DEF EntityAgrees
<1> HIDE DEF u, x
<1>5. u.sqdev = Len(g) * Squares(g) - Total(g) * Total(g)
  BY <1>1, <1>2, <1>3, WelfordMatches
<1>6. u.sum = Total(g)
  BY <1>1, <1>3, TotalsOfAppend DEF Matches
<1>7. u.min = Min(Amounts(g)) /\ u.max = Max(Amounts(g))
  <2>1. CASE h = <<>>
    <3>1. Len(h) = 0
      BY <2>1
    <3>2. s.min = NaN /\ s.max = NaN
      BY <1>1, <1>2, <3>1 DEF EntityAgrees, NoneIffEmpty
    <3>3. Least(s.min, a) = a /\ Greatest(s.max, a) = a
      BY <3>2 DEF Least, Greatest
    <3> QED BY <1>1, <1>3, <2>1, <3>3, ExtremesOfAppend
  <2>2. CASE h # <<>>
    <3>1. s.min = Min(Amounts(h)) /\ s.max = Max(Amounts(h))
      BY <1>1, <2>2 DEF Matches
    <3> QED BY <1>1, <1>3, <2>2, <3>1, ExtremesOfAppend
  <2> QED BY <2>1, <2>2
<1> HIDE DEF g
<1>8. Matches(u, g)
  BY <1>5, <1>6, <1>7 DEF Matches
<1>9. Matches(Prune(u, t), g)
  BY <1>4, <1>8, PruneMatches
<1> QED BY <1>9 DEF Update, u, g, x

(* bulk_initialize on a fresh entity.                                      *)
LEMMA BulkMatches ==
  ASSUME NEW e \in Entities, History[e] # <<>>
  PROVE  Matches(BulkInitialize(EmptyEntity, History[e], AsOf), History[e])
<1> DEFINE b == History[e]
           u == BulkInitialize(EmptyEntity, b, AsOf)
<1>1. b \in Seq(Txn) /\ b # <<>>
  BY BehavioralAssumption
<1>2. /\ BlockSum(b) = Total(b) /\ Total(b) \in Int
      /\ BlockSqdev(b) = Len(b) * Squares(b) - Total(b) * Total(b)
  BY <1>1, BlockMoments, TotalsAreIntegers
<1>3. Amounts(b) = {b[i].a : i \in DOMAIN b}
  BY DEF Amounts, Offline!Amounts
<1>4. /\ u.sum = 0 + BlockSum(b) /\ u.sqdev = Merge(EmptyEntity, b)
      /\ u.min = Least(NaN, Min(Amounts(b))) /\ u.max = Greatest(NaN, Max(Amounts(b)))
  BY <1>1, <1>3 DEF BulkInitialize, EmptyEntity
<1>5. Merge(EmptyEntity, b) = BlockSqdev(b)
  BY DEF Merge, EmptyEntity
<1>6. /\ Least(NaN, Min(Amounts(b))) = Min(Amounts(b))
      /\ Greatest(NaN, Max(Amounts(b))) = Max(Amounts(b))
  BY DEF Least, Greatest
<1> HIDE DEF u, b
<1>7. Matches(u, b)
  BY <1>2, <1>4, <1>5, <1>6 DEF Matches
<1> QED BY <1>7 DEF u, b

(* What compute_features reads off the statistics is what behavioral.py    *)
(* computes from the list.                                                 *)
LEMMA FeaturesMatch ==
  ASSUME NEW s \in EntityStates \cup {Absent}, NEW h \in Seq(Txn), NEW t \in Nat, NEW a \in Nat,
         EntityAgrees(s, h, t), Matches(s, h)
  PROVE  Features(s, t, a) = Offline!FeaturesOf(h, t, a)
<1> DEFINE n == Len(h)
           S == Total(h)
           v == n * Squares(h) - S * S
<1>1. n \in Nat /\ S \in Int
  BY LenProperties, TotalsAreIntegers
<1>2. Offline!FeaturesOf(h, t, a) =
        [count  |-> n,
         mean   |-> IF n = 0 THEN NaN ELSE <<S, n>>,
         var    |-> IF n < 2 THEN NaN ELSE <<v, n * (n - 1)>>,
         min    |-> IF n = 0 THEN NaN ELSE Min(Amounts(h)),
         max    |-> IF n = 0 THEN NaN ELSE Max(Amounts(h)),
         since  |-> IF n = 0 THEN NaN ELSE t - h[n].t,
         ratio  |-> IF n = 0 \/ S = 0 THEN NaN ELSE <<a * n, S>>,
         diff   |-> IF n = 0 THEN NaN ELSE <<a * n - S, n>>,
         zscore |-> IF n < 2 \/ v = 0 THEN NaN ELSE <<a * n - S, n, v>>,
         hour   |-> Offline!PriorCount(h, t, Hour),
         day    |-> Offline!PriorCount(h, t, Day)]
  BY DEF Offline!FeaturesOf, Total, Squares, Amounts, Min, Max, Offline!Min, Offline!Max
<1>3. CASE s = Absent
  <2>1. h = <<>>
    BY <1>3 DEF EntityAgrees, Summarises
  <2>2. n = 0
    BY <2>1
  <2>3. Offline!PriorCount(h, t, Hour) = 0 /\ Offline!PriorCount(h, t, Day) = 0
    <3>1. DOMAIN h = {}
      BY <2>1
    <3>2. /\ {i \in DOMAIN h : h[i].t >= t - Hour} = {}
          /\ {i \in DOMAIN h : h[i].t >= t - Day} = {}
      BY <3>1
    <3>3. Cardinality({}) = 0
      BY FS_EmptySet
    <3> QED BY <3>2, <3>3 DEF Offline!PriorCount, Offline!Cardinality, Cardinality
  <2> HIDE DEF n, S, v
  <2> QED BY <1>2, <1>3, <2>2, <2>3 DEF Features
<1>4. CASE s # Absent
  <2>1. s \in EntityStates
    BY <1>4
  <2>2. s.count = n /\ (h # <<>> => s.last = h[n].t)
    BY <1>4 DEF EntityAgrees, Summarises
  <2>3. h # <<>> <=> n # 0
    BY EmptySeq
  <2>4. /\ VelocityCounts(s, t).day = Offline!PriorCount(h, t, Day)
        /\ VelocityCounts(s, t).hour = Offline!PriorCount(h, t, Hour)
    BY <2>1, VelocityIsPriorCount
  <2>5. s.sum = S /\ s.sqdev = v /\ (n # 0 => s.min = Min(Amounts(h)) /\ s.max = Max(Amounts(h)))
    BY <1>4, <2>3 DEF Matches
  <2>6. n # 0 => s.last = h[n].t
    BY <2>2, <2>3
  <2>7. Features(s, t, a) =
          [count  |-> IF n > 0 THEN n ELSE 0,
           mean   |-> IF n > 0 THEN <<S, n>> ELSE NaN,
           var    |-> IF n > 0 /\ n >= 2 THEN <<v, n * (n - 1)>> ELSE NaN,
           min    |-> IF n > 0 THEN s.min ELSE NaN,
           max    |-> IF n > 0 THEN s.max ELSE NaN,
           since  |-> IF n > 0 THEN t - s.last ELSE NaN,
           ratio  |-> IF n > 0 /\ S # 0 THEN <<a * n, S>> ELSE NaN,
           diff   |-> IF n > 0 THEN <<a * n - S, n>> ELSE NaN,
           zscore |-> IF n > 0 /\ n >= 2 /\ v # 0 THEN <<a * n - S, n, v>> ELSE NaN,
           hour   |-> VelocityCounts(s, t).hour,
           day    |-> VelocityCounts(s, t).day]
    <3> HIDE DEF n, S, v
    <3> QED BY <1>4, <2>2, <2>5 DEF Features
  <2> HIDE DEF n, S, v
  <2>8. CASE n = 0
    BY <1>2, <2>4, <2>7, <2>8
  <2>9. CASE n = 1
    <3>1. n > 0 /\ ~(n >= 2) /\ n < 2 /\ n # 0
      BY <2>9
    <3> QED BY <1>2, <2>4, <2>5, <2>6, <2>7, <3>1
  <2>10. CASE n >= 2
    <3>1. n > 0 /\ ~(n < 2) /\ n # 0
      BY <1>1, <2>10
    <3> QED BY <1>2, <2>4, <2>5, <2>6, <2>7, <2>10, <3>1
  <2> QED BY <1>1, <2>8, <2>9, <2>10
<1> QED BY <1>3, <1>4

----------------------------------------------------------------------------
(* Every step is a step of the offline definition.                         *)

(* The statistics of every entity of a store match its list.               *)
Exact(st, h) == \A e \in Entities : Matches(st[e], h[e])

(* ... in the live store, and in the copy a reload brings back.            *)
MInv == Exact(store, history) /\ (saved # NaN => Exact(saved, savedHistory))

(* A cleared store.                                                        *)
LEMMA ExactEmpty == Exact(EmptyStore, NoHistory)
BY EmptyMatches DEF Exact, EmptyStore, NoHistory

(* A warm start onto an empty backend.                                     *)
LEMMA ExactWarm == Exact(WarmStart(EmptyStore), History)
<1>1. ASSUME NEW e \in Entities PROVE Matches(WarmStart(EmptyStore)[e], History[e])
  <2>1. CASE History[e] = <<>>
    <3>1. WarmStart(EmptyStore)[e] = Absent
      BY <2>1 DEF WarmStart, EmptyStore
    <3> QED BY <2>1, <3>1, EmptyMatches
  <2>2. CASE History[e] # <<>>
    <3>1. WarmStart(EmptyStore)[e] = BulkInitialize(EmptyEntity, History[e], AsOf)
      BY <2>2 DEF WarmStart, EmptyStore, GetOrCreate
    <3> QED BY <2>2, <3>1, BulkMatches
  <2> QED BY <2>1, <2>2
<1> QED BY <1>1 DEF Exact

(* One entity replaced.                                                    *)
LEMMA ExactExcept ==
  ASSUME NEW st, NEW h, NEW now, Agrees(st, h, now), Exact(st, h),
         NEW e \in Entities, NEW s, NEW x, Matches(s, x)
  PROVE  Exact([st EXCEPT ![e] = s], [h EXCEPT ![e] = x])
<1> DEFINE st2 == [st EXCEPT ![e] = s]
           h2 == [h EXCEPT ![e] = x]
<1>1. ASSUME NEW f \in Entities PROVE Matches(st2[f], h2[f])
  <2>1. CASE f = e
    <3>1. st2[f] = s /\ h2[f] = x
      BY <2>1, Zenon DEF Agrees
    <3> QED BY <3>1
  <2>2. CASE f # e
    <3>1. st2[f] = st[f] /\ h2[f] = h[f]
      BY <2>2, Zenon DEF Agrees
    <3> QED BY <3>1 DEF Exact
  <2> QED BY <2>1, <2>2
<1> QED BY <1>1 DEF Exact

(* get_or_create, the read of compute_features and the final put.          *)
LEMMA GetOrCreateMatches ==
  ASSUME NEW s, NEW h, NEW now, EntityAgrees(s, h, now), Matches(s, h)
  PROVE  Matches(GetOrCreate(s), h)
<1>1. CASE s = Absent
  <2>1. h = <<>>
    BY <1>1 DEF EntityAgrees, Summarises
  <2> QED BY <1>1, <2>1, EmptyMatches DEF GetOrCreate
<1>2. CASE s # Absent
  BY <1>2 DEF GetOrCreate
<1> QED BY <1>1, <1>2

LEMMA AfterReadMatches ==
  ASSUME NEW e \in Entities, NEW t, store[e] \in EntityStates \cup {Absent},
         NEW h, Matches(store[e], h)
  PROVE  Matches(AfterRead(e, t), h)
<1>1. CASE deployment.backend = "memory" /\ store[e] # Absent
  BY <1>1, PruneMatches DEF AfterRead
<1>2. CASE ~(deployment.backend = "memory" /\ store[e] # Absent)
  BY <1>2 DEF AfterRead
<1> QED BY <1>1, <1>2

LEMMA PutMatches ==
  ASSUME NEW e \in Entities, NEW t \in Nat, NEW a \in Nat, Agrees(store, history, t),
         Exact(store, history),
         NEW s \in EntityStates \cup {Absent}, EntityAgrees(s, history[e], t),
         Matches(s, history[e])
  PROVE  Exact([store EXCEPT ![e] = Update(GetOrCreate(s), t, a)],
               [history EXCEPT ![e] = Append(@, [t |-> t, a |-> a])])
<1> DEFINE u == Update(GetOrCreate(s), t, a)
           g == Append(history[e], [t |-> t, a |-> a])
<1>1. history[e] \in Seq(Txn)
  BY DEF Agrees
<1>2. GetOrCreate(s) \in EntityStates /\ EntityAgrees(GetOrCreate(s), history[e], t)
  BY <1>1, GetOrCreateAgrees
<1>3. Matches(GetOrCreate(s), history[e])
  BY GetOrCreateMatches
<1>4. Matches(u, g)
  BY <1>1, <1>2, <1>3, UpdateMatches
<1> HIDE DEF u, g
<1>5. Exact([store EXCEPT ![e] = u], [history EXCEPT ![e] = g])
  BY <1>4, ExactExcept
<1> QED BY <1>5 DEF u, g

LEMMA InitMInv ==
  ASSUME Init
  PROVE  MInv
<1>1. CASE deployment.warm
  BY <1>1, ExactWarm DEF Init, MInv
<1>2. CASE ~deployment.warm
  BY <1>2, ExactEmpty DEF Init, MInv
<1> QED BY <1>1, <1>2

(* Every step keeps the statistics exact and is a step of the offline      *)
(* definition on the lists, or changes nothing it speaks of.               *)
LEMMA NextRefines ==
  ASSUME InOrder, NoWarmRedis, IInv, MInv, [Next]_vars
  PROVE  MInv' /\ [Offline!Next]_(Offline!vars)
<1> USE DEF MInv
<1>1. ASSUME NEW e \in Entities, NEW t \in EventTimes, NEW a \in AmountSet,
             Request(e, t, a), Advance(t)
      PROVE  /\ t \in Nat /\ a \in Nat
             /\ Agrees(store, history, t)
             /\ store[e] \in EntityStates \cup {Absent} /\ history[e] \in Seq(Txn)
             /\ EntityAgrees(store[e], history[e], t)
             /\ Matches(store[e], history[e])
             /\ AfterRead(e, t) \in EntityStates \cup {Absent}
             /\ EntityAgrees(AfterRead(e, t), history[e], t)
             /\ Matches(AfterRead(e, t), history[e])
  <2>1. /\ t \in Nat /\ a \in Nat /\ Agrees(store, history, t)
        /\ store[e] \in EntityStates \cup {Absent} /\ history[e] \in Seq(Txn)
        /\ EntityAgrees(store[e], history[e], t)
    BY <1>1, RequestAdvances
  <2>2. Matches(store[e], history[e])
    BY DEF Exact
  <2> QED BY <2>1, <2>2, AfterReadAgrees, AfterReadMatches
<1>2. ASSUME NEW e \in Entities, NEW t \in EventTimes, NEW a \in AmountSet,
             ProcessTransaction(e, t, a)
      PROVE  MInv' /\ [Offline!Next]_(Offline!vars)
  <2>1. Request(e, t, a) /\ Advance(t)
    BY <1>2 DEF ProcessTransaction
  <2>2. Exact(store', history')
    BY <1>1, <1>2, <2>1, PutMatches DEF ProcessTransaction, Record
  <2>3. reply' = Offline!FeaturesOf(history[e], t, a)
    BY <1>1, <1>2, <2>1, FeaturesMatch DEF ProcessTransaction
  <2>4. Offline!Answer(e, t, a)
    BY <1>2, <2>3 DEF Offline!Answer, Offline!Append1, ProcessTransaction, Record
  <2> QED BY <1>2, <2>2, <2>4 DEF ProcessTransaction, Offline!Next
<1>3. ASSUME NEW e \in Entities, NEW t \in EventTimes, NEW a \in AmountSet,
             PipelineRaises(e, t, a)
      PROVE  MInv' /\ [Offline!Next]_(Offline!vars)
  <2>1. Request(e, t, a) /\ Advance(t)
    BY <1>3 DEF PipelineRaises
  <2>2. Exact([store EXCEPT ![e] = AfterRead(e, t)], [history EXCEPT ![e] = history[e]])
    BY <1>1, <2>1, ExactExcept
  <2>3. [history EXCEPT ![e] = history[e]] = history
    BY <1>1, <2>1 DEF Agrees
  <2>4. Exact(store', history')
    BY <1>3, <2>2, <2>3 DEF PipelineRaises
  <2>5. Offline!Fail(e, t, a)
    BY <1>3 DEF Offline!Fail, PipelineRaises
  <2> QED BY <1>3, <2>4, <2>5 DEF PipelineRaises, Offline!Next
<1>4. ASSUME NEW e \in Entities, NEW t \in EventTimes, NEW a \in AmountSet,
             StateBackendUnavailable(e, t, a)
      PROVE  MInv' /\ [Offline!Next]_(Offline!vars)
  <2>1. Request(e, t, a) /\ Advance(t)
    BY <1>4 DEF StateBackendUnavailable
  <2>2. ASSUME UNCHANGED <<store, history>>
        PROVE  Exact(store', history') /\ history' = history
    BY <2>2
  <2>3. ASSUME store' = [store EXCEPT ![e] = GetOrCreate(@)], UNCHANGED history
        PROVE  Exact(store', history') /\ history' = history
    <3>1. Matches(GetOrCreate(store[e]), history[e])
      BY <1>1, <2>1, GetOrCreateMatches
    <3>2. Exact([store EXCEPT ![e] = GetOrCreate(store[e])], [history EXCEPT ![e] = history[e]])
      BY <1>1, <2>1, <3>1, ExactExcept
    <3>3. [history EXCEPT ![e] = history[e]] = history
      BY <1>1, <2>1 DEF Agrees
    <3> QED BY <2>3, <3>2, <3>3
  <2>4. ASSUME store' = [store EXCEPT ![e] = Update(GetOrCreate(@), t, a)],
               Record(e, t, a)
        PROVE  Exact(store', history') /\ history' = Offline!Append1(e, t, a)
    BY <1>1, <2>1, <2>4, PutMatches DEF Record, Offline!Append1
  <2>5. Exact(store', history') /\ history' \in {history, Offline!Append1(e, t, a)}
    BY <1>4, <2>2, <2>3, <2>4 DEF StateBackendUnavailable
  <2>6. Offline!Fail(e, t, a)
    BY <1>4, <2>5 DEF Offline!Fail, StateBackendUnavailable
  <2> QED BY <1>4, <2>5, <2>6 DEF StateBackendUnavailable, Offline!Next
<1>5. ASSUME NEW a \in BadAmounts, RejectTransaction(a)
      PROVE  MInv' /\ [Offline!Next]_(Offline!vars)
  <2>1. Offline!Forget
    BY <1>5 DEF RejectTransaction, Offline!Forget
  <2> QED BY <1>5, <2>1 DEF RejectTransaction, Offline!Next
<1>6. CASE ResetState
  <2>1. Offline!Forget
    BY <1>6 DEF ResetState, Offline!Forget, NoHistory, Offline!NoHistory
  <2> QED BY <1>6, <2>1, ExactEmpty DEF ResetState, Offline!Next
<1>7. CASE Restart
  <2>1. Exact(store', history') /\ history' \in {NoHistory, History, history}
    <3>1. CASE deployment.backend = "redis"
      <4>1. ~deployment.warm
        BY <3>1 DEF NoWarmRedis, IInv
      <4> QED BY <1>7, <3>1, <4>1 DEF Restart
    <3>2. CASE deployment.backend # "redis" /\ deployment.warm
      BY <1>7, <3>2, ExactWarm DEF Restart
    <3>3. CASE deployment.backend # "redis" /\ ~deployment.warm
      BY <1>7, <3>3, ExactEmpty DEF Restart
    <3> QED BY <3>1, <3>2, <3>3
  <2>2. Offline!Forget
    BY <1>7, <2>1 DEF Restart, Offline!Forget, NoHistory, Offline!NoHistory
  <2> QED BY <1>7, <2>1, <2>2 DEF Restart, Offline!Next
<1>8. CASE Serialize
  <2>1. Offline!Save
    BY <1>8 DEF Serialize, Offline!Save
  <2> QED BY <1>8, <2>1 DEF Serialize, Offline!Next
<1>9. CASE LoadSerialized
  <2>1. savedHistory \in [Entities -> Seq(Txn)]
    BY <1>9 DEF LoadSerialized, IInv, Agrees
  <2>2. savedHistory # NaN
    BY <2>1, BehavioralAssumption
  <2>3. Offline!Restore
    BY <1>9, <2>2 DEF LoadSerialized, Offline!Restore
  <2> QED BY <1>9, <2>3 DEF LoadSerialized, Offline!Next
<1>10. CASE UNCHANGED vars
  BY <1>10 DEF vars, Offline!vars
<1> QED BY <1>2, <1>3, <1>4, <1>5, <1>6, <1>7, <1>8, <1>9, <1>10 DEF Next

----------------------------------------------------------------------------
(* A request that fails after compute_features changes no later answer: an *)
(* entity's features for any time not before the failed one, and any       *)
(* amount, are what they were (risk_engine.py:22-27 claims this for every  *)
(* time; the read has pruned the deque, which only earlier times can see). *)
FailureChangesNoLaterAnswer ==
  [][\A e \in Entities, t \in EventTimes, a \in AmountSet :
       PipelineRaises(e, t, a) =>
         \A u \in EventTimes, b \in AmountSet :
           u >= t => Features(store'[e], u, b) = Features(store[e], u, b)]_vars

LEMMA FailureKeepsAnswers ==
  ASSUME InOrder, IInv, MInv, NEW e \in Entities, NEW t \in EventTimes, NEW a \in AmountSet,
         PipelineRaises(e, t, a), NEW u \in EventTimes, NEW b \in AmountSet, u >= t
  PROVE  Features(store'[e], u, b) = Features(store[e], u, b)
<1> DEFINE h == history[e]
           r == AfterRead(e, t)
<1>1. Request(e, t, a) /\ Advance(t)
  BY DEF PipelineRaises
<1>2. /\ t \in Nat /\ store[e] \in EntityStates \cup {Absent} /\ h \in Seq(Txn)
      /\ EntityAgrees(store[e], h, t) /\ Agrees(store, history, t)
  BY <1>1, RequestAdvances
<1>3. Matches(store[e], h)
  BY DEF MInv, Exact
<1>4. r \in EntityStates \cup {Absent} /\ EntityAgrees(r, h, t) /\ Matches(r, h)
  BY <1>2, <1>3, AfterReadAgrees, AfterReadMatches
<1>5. store'[e] = r
  BY <1>2 DEF PipelineRaises, Agrees
<1>6. u \in Nat /\ b \in Nat /\ t <= u
  BY <1>2, BehavioralAssumption
<1> HIDE DEF r, h
<1>7. EntityAgrees(store[e], h, u) /\ EntityAgrees(r, h, u)
  BY <1>2, <1>4, <1>6, EntityAgreesLater
<1>8. /\ Features(store[e], u, b) = Offline!FeaturesOf(h, u, b)
      /\ Features(r, u, b) = Offline!FeaturesOf(h, u, b)
  BY <1>2, <1>3, <1>4, <1>6, <1>7, FeaturesMatch
<1> QED BY <1>5, <1>8

----------------------------------------------------------------------------
(* The online engine implements the batch definition: for any entities,    *)
(* times, amounts, windows and warm-start rows, every reply of every       *)
(* behaviour is what behavioral.py computes from the full list of earlier  *)
(* transactions, through failures, resets, restarts and reloads.           *)
THEOREM OnlineIsOffline ==
  ASSUME InOrder, NoWarmRedis
  PROVE  Spec => OnlineMatchesOffline
<1>1. Init => IInv /\ MInv
  BY InitIInv, InitMInv
<1>2. Init => Offline!Init
  BY DEF Init, Offline!Init, NoHistory, Offline!NoHistory
<1>3. IInv /\ MInv /\ [Next]_vars => (IInv /\ MInv)' /\ [Offline!Next]_(Offline!vars)
  BY NextIInv, NextRefines
<1> QED BY <1>1, <1>2, <1>3, PTL DEF Spec, OnlineMatchesOffline, Offline!Spec

(* In time order, a failed request is invisible to every later answer.     *)
THEOREM FailuresAreInvisible ==
  ASSUME InOrder, NoWarmRedis
  PROVE  Spec => FailureChangesNoLaterAnswer
<1>1. Init => IInv /\ MInv
  BY InitIInv, InitMInv
<1>2. IInv /\ MInv /\ [Next]_vars => (IInv /\ MInv)'
  BY NextIInv, NextRefines
<1>3. IInv /\ MInv /\ [Next]_vars =>
        [\A e \in Entities, t \in EventTimes, a \in AmountSet :
           PipelineRaises(e, t, a) =>
             \A u \in EventTimes, b \in AmountSet :
               u >= t => Features(store'[e], u, b) = Features(store[e], u, b)]_vars
  BY FailureKeepsAnswers
<1> QED BY <1>1, <1>2, <1>3, PTL DEF Spec, FailureChangesNoLaterAnswer
==============================================================================
