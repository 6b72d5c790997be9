----------------------------- MODULE EntityState -----------------------------
(***************************************************************************)
(* The arithmetic of src/engine/state.py: the sufficient statistics kept   *)
(* per card1 entity, and the functions that update them with one           *)
(* transaction or a historical block and read the features back.           *)
(*                                                                         *)
(* Welford's mean_amt and m2 are kept exact and integral: sum is           *)
(* mean_amt * count (the code's own derived sum_amt) and sqdev is          *)
(* m2 * count.  None and NaN are one model value.                          *)
(***************************************************************************)
EXTENDS Integers, SequencesExt

CONSTANTS Hour, Day,  \* VELOCITY_WINDOWS_SECONDS["1h"] and ["24h"]
          NaN,        \* None in a field, NaN in a feature
          Absent      \* backend.get() found nothing

ASSUME WindowAssumption == Hour \in Nat /\ Day \in Nat /\ Hour <= Day

Txn == [t : Nat, a : Nat]

EntityStates == [count : Nat, sum : Int, sqdev : Int, min : Nat \cup {NaN},
                 max : Nat \cup {NaN}, last : Nat \cup {NaN}, recent : Seq(Nat)]

EmptyEntity == [count |-> 0, sum |-> 0, sqdev |-> 0, min |-> NaN, max |-> NaN,
                last |-> NaN, recent |-> <<>>]

----------------------------------------------------------------------------
(* recent_times *)

\* `while q and q[0] < cutoff: q.popleft()`: only the head is ever examined.
DropExpired(q, cutoff) ==
  LET live == {i \in 1..Len(q) : q[i] >= cutoff}
  IN  IF live = {} THEN <<>> ELSE SubSeq(q, Min(live), Len(q))

\* state.recent_times after _velocity_counts or update has pruned it at time t.
\* (PruneTooMuch: the boundary instant is expired, `<=` for `<`.)
PruneTooMuch(s, t) == [s EXCEPT !.recent = DropExpired(@, t - Day + 1)]
Prune(s, t) == [s EXCEPT !.recent = DropExpired(@, t - Day)]

VelocityCounts(s, t) ==
  LET kept == Prune(s, t).recent
  IN  [hour |-> Cardinality({i \in 1..Len(kept) : kept[i] >= t - Hour}),
       day  |-> Len(kept)]

----------------------------------------------------------------------------
(* compute_features on the state `s` that the backend returned *)
Features(s, t, a) ==
  LET known == s # Absent /\ s.count > 0
      spread == known /\ s.count >= 2
      velocity == IF s = Absent THEN [hour |-> 0, day |-> 0] ELSE VelocityCounts(s, t)
  IN  [count  |-> IF known THEN s.count ELSE 0,
       mean   |-> IF known THEN <<s.sum, s.count>> ELSE NaN,
       var    |-> IF spread THEN <<s.sqdev, s.count * (s.count - 1)>> ELSE NaN,
       min    |-> IF known THEN s.min ELSE NaN,
       max    |-> IF known THEN s.max ELSE NaN,
       since  |-> IF known THEN t - s.last ELSE NaN,
       ratio  |-> IF known /\ s.sum # 0 THEN <<a * s.count, s.sum>> ELSE NaN,
       diff   |-> IF known THEN <<a * s.count - s.sum, s.count>> ELSE NaN,
       zscore |-> IF spread /\ s.sqdev # 0
                  THEN <<a * s.count - s.sum, s.count, s.sqdev>> ELSE NaN,
       hour   |-> velocity.hour,
       day    |-> velocity.day]

----------------------------------------------------------------------------
(* update: one transaction *)

Least(x, y) == IF x = NaN \/ y < x THEN y ELSE x
Greatest(x, y) == IF x = NaN \/ y > x THEN y ELSE x

\* m2 += (a - mean) * (a - mean'), scaled by the new count.
Welford(s, a) ==
  IF s.count = 0 THEN 0
  ELSE (s.sqdev * (s.count + 1) + (s.count * a - s.sum) * (s.count * a - s.sum)) \div s.count

\* A mutant of Update: last_time is not advanced.
UpdateForgetsTime(s, t, a) ==
  Prune([count  |-> s.count + 1,
         sum    |-> s.sum + a,
         sqdev  |-> Welford(s, a),
         min    |-> Least(s.min, a),
         max    |-> Greatest(s.max, a),
         last   |-> s.last,
         recent |-> Append(s.recent, t)], t)

Incorporate(s, t, a) == [count  |-> s.count + 1,
                         sum    |-> s.sum + a,
                         sqdev  |-> Welford(s, a),
                         min    |-> Least(s.min, a),
                         max    |-> Greatest(s.max, a),
                         last   |-> t,
                         recent |-> Append(s.recent, t)]

Update(s, t, a) == Prune(Incorporate(s, t, a), t)

----------------------------------------------------------------------------
(* bulk_initialize: one entity's group of the sorted historical block *)

BlockSum(b) == FoldLeft(LAMBDA acc, x : acc + x.a, 0, b)
\* Two-pass: n times the sum of squared deviations from the block's own mean.
BlockSqdev(b) ==
  FoldLeft(LAMBDA acc, x : acc + (Len(b) * x.a - BlockSum(b)) * (Len(b) * x.a - BlockSum(b)),
           0, b) \div Len(b)

\* A mutant of Merge: the term for the distance between the two means is missing.
MergeWithoutGap(s, b) ==
  LET n == s.count  k == Len(b)
  IN  IF n = 0 THEN BlockSqdev(b)
      ELSE ((n + k) * (s.sqdev * k + BlockSqdev(b) * n)) \div (n * k)

\* Chan et al.'s combination of two blocks, scaled by the joint count.
Merge(s, b) ==
  LET n == s.count  k == Len(b)  gap == BlockSum(b) * n - s.sum * k
  IN  IF n = 0 THEN BlockSqdev(b)
      ELSE ((n + k) * (s.sqdev * k + BlockSqdev(b) * n) + gap * gap) \div (n * k)

BulkInitialize(s, b, asOf) ==
  LET times == [i \in DOMAIN b |-> b[i].t]
      amts == {b[i].a : i \in DOMAIN b}
  IN  IF b = <<>> THEN s
      ELSE [count  |-> s.count + Len(b),
            sum    |-> s.sum + BlockSum(b),
            sqdev  |-> Merge(s, b),
            min    |-> Least(s.min, Min(amts)),
            max    |-> Greatest(s.max, Max(amts)),
            last   |-> times[Len(b)],
            recent |-> s.recent \o DropExpired(times, asOf - Day)]
==============================================================================
