---------------------------- MODULE DecisionPolicy ----------------------------
(***************************************************************************)
(* src/decision/: how the APPROVE / REVIEW / BLOCK policy is derived from   *)
(* validation scores (threshold_selection.py, on the top-K selection of    *)
(* evaluation/operational_eval.py), applied (policy.py), evaluated         *)
(* (evaluation.py) and compared with a flat review budget (comparison.py). *)
(* run_phase5_decision_policy.py builds one policy per candidate setting   *)
(* from the same validation set; built holds those made so far.            *)
(*                                                                         *)
(* A fraction is a number of Units-ths, a score an integer, a precision a  *)
(* pair <<fraud, rows>> compared by cross-multiplication.  Where rounding   *)
(* decides, it is kept: a float product n * fraction whose exact value is a *)
(* number of rows may come out just above it, and its ceiling is then one   *)
(* row more.  Which products do is a matter of the run's float values.      *)
(***************************************************************************)
EXTENDS Integers, FiniteSetsExt, Functions

CONSTANTS
  N,            \* rows of the validation set
  Scores,       \* score values that occur, integers
  Units,        \* fractions are multiples of 1/Units
  Step,         \* block_scan_step, in Units
  Settings,     \* candidate policies: [capacity : 1..Units, target : 0..100]
  Roundings,    \* [literal, grid : sets of fractions]: see rounding
  Raised,       \* build_policy_from_validation raised
  MaxBuilt      \* bound: policies built in one behaviour

\* The fractions that are a whole number of the N rows.
WholeRows == {f \in 1..Units : (N * f) % Units = 0}

ASSUME PolicyAssumption ==
  /\ N \in Nat \ {0} /\ Units \in Nat \ {0} /\ Step \in Nat \ {0} /\ MaxBuilt \in Nat
  /\ Scores \subseteq Int
  /\ Settings \subseteq [capacity : 1..Units, target : 0..100]
  /\ Roundings \subseteq [literal : SUBSET (WholeRows \ {Units}), grid : SUBSET WholeRows]
  /\ Raised \notin [approve : Int, block : Int, achieved : BOOLEAN]

VARIABLES
  fraud,   \* y_val: the rows labelled fraud
  score,   \* val_scores
  rounding, \* the fractions whose float product exceeds its whole number of rows:
           \* literal, as written in a setting (1.0 is exact), and grid, as
           \* np.arange computes them
  built    \* [settings built so far -> policy and diagnostics, or Raised]

validation == <<fraud, score, rounding>>
vars == <<validation, built>>

Rows == 1..N

----------------------------------------------------------------------------
(* operational_eval.py *)

\* max(1, ceil(n * k_fraction)), for a fraction whose product is rounded up if it is in up
Selected(fraction, up) ==
  Max({1, (N * fraction + Units - 1) \div Units}) + (IF fraction \in up THEN 1 ELSE 0)

\* The last n of a stable ascending argsort: of equal scores, later rows first.
TopRows(n) ==
  {i \in Rows : Cardinality({j \in Rows : \/ score[j] > score[i]
                                          \/ score[j] = score[i] /\ j > i}) < n}

TopKMask(fraction, up) == TopRows(Selected(fraction, up))

\* precision_at_k(...) >= min_precision, for a fraction of the grid
PrecisionMeets(fraction, target) ==
  100 * Cardinality(TopKMask(fraction, rounding.grid) \cap fraud)
    >= target * Selected(fraction, rounding.grid)

----------------------------------------------------------------------------
(* threshold_selection.py *)

ScoreAtTopFraction(fraction, up) == Min({score[i] : i \in TopKMask(fraction, up)})

\* Mutant of CandidateFractions: the scan is not capped at the review capacity.
UncappedFractions(capacity) == {k * Step : k \in 1..(Units \div Step)}

\* np.arange(step, max_fraction + 1e-9, step): its last element may be the
\* capacity itself, as a float that need not equal the capacity's literal.
CandidateFractions(capacity) == {k * Step : k \in 1..(capacity \div Step)}

\* Mutant of BlockFraction: the scan keeps the first slice that meets the target.
FirstBlockFraction(capacity, target) ==
  LET meeting == {f \in CandidateFractions(capacity) : PrecisionMeets(f, target)}
  IN  IF meeting # {} THEN Min(meeting) ELSE Step

BlockFraction(capacity, target) ==
  LET meeting == {f \in CandidateFractions(capacity) : PrecisionMeets(f, target)}
  IN  IF meeting # {} THEN Max(meeting) ELSE Step

TargetAchieved(capacity, target) ==
  \E f \in CandidateFractions(capacity) : PrecisionMeets(f, target)

----------------------------------------------------------------------------
(* policy.py and evaluation.py *)

\* Mutant of Decide: the block boundary is exclusive.
DecideExclusive(policy, s) == IF s > policy.block THEN "BLOCK"
                              ELSE IF s < policy.approve \/ s = policy.block THEN "APPROVE"
                              ELSE "REVIEW"

\* REVIEW everywhere, then APPROVE below one threshold, then BLOCK from the other on.
Decide(policy, s) == IF s >= policy.block THEN "BLOCK"
                     ELSE IF s < policy.approve THEN "APPROVE" ELSE "REVIEW"

Bucket(policy, decision) == {i \in Rows : Decide(policy, score[i]) = decision}
Intervened(policy) == Bucket(policy, "REVIEW") \cup Bucket(policy, "BLOCK")

\* Mutant of FlatBudgets: the BLOCK bucket is left out of the rate.
ReviewBudgets(policy) == {Cardinality(Bucket(policy, "REVIEW"))} \cap Rows

\* The rows a flat ranking flags at the policy's own intervention rate: the
\* count becomes the float r/n + b/n and is taken back by ceil(n * fraction).
FlatBudgets(policy) ==
  LET own == Cardinality(Intervened(policy)) IN {own, own + 1} \cap Rows

\* fixed_budget_report: the fraud that ranking captures.
FlatCaptures(policy) == {Cardinality(TopRows(n) \cap fraud) : n \in FlatBudgets(policy)}

----------------------------------------------------------------------------
(* run_phase5_decision_policy.py *)

Init == /\ fraud \in SUBSET Rows
        /\ score \in [Rows -> Scores]
        /\ rounding \in Roundings
        /\ built = <<>>

\* build_policy_from_validation: both thresholds and the diagnostics.
PolicyOf(p) ==
  [approve  |-> ScoreAtTopFraction(p.capacity, rounding.literal),
   block    |-> ScoreAtTopFraction(BlockFraction(p.capacity, p.target), rounding.grid),
   achieved |-> TargetAchieved(p.capacity, p.target)]

\* No candidate fraction (results[0] of an empty list), a candidate above 1.0
\* (top_k_mask's ValueError) and thresholds out of order (the assert) all raise.
Raises(p) == \/ CandidateFractions(p.capacity) = {}
             \/ Units \in CandidateFractions(p.capacity) \cap rounding.grid
             \/ PolicyOf(p).block < PolicyOf(p).approve

BuildPolicy(p) ==
  /\ p \notin DOMAIN built /\ Cardinality(DOMAIN built) < MaxBuilt
  /\ built' = [q \in DOMAIN built \cup {p} |->
                 IF q # p THEN built[q] ELSE IF Raises(p) THEN Raised ELSE PolicyOf(p)]
  /\ UNCHANGED validation

Next == \E p \in Settings : BuildPolicy(p)

Spec == Init /\ [][Next]_vars

----------------------------------------------------------------------------
(* Properties *)

Policies == {p \in DOMAIN built : built[p] # Raised}

\* threshold_selection.py:119-125 asserts "by construction" that the derived
\* thresholds do not cross.  No validation set makes them cross; a float does,
\* exactly when the scan's last fraction is the capacity and asks for one row
\* more than it.  Otherwise only a capacity below the scan's step raises.
ThresholdsCrossOnlyByRounding ==
  \A p \in DOMAIN built :
    built[p] = Raised =>
      \/ p.capacity < Step
      \/ p.capacity % Step = 0 /\ p.capacity \in rounding.grid \ rounding.literal

\* The intervention budget: at least the selected number of rows is reviewed or
\* blocked, and it is exceeded only by rows that tie with the last one selected.
CapacityIsCovered ==
  \A p \in Policies :
    LET budget == Selected(p.capacity, rounding.literal)
    IN  /\ Cardinality(Intervened(built[p])) >= budget
        /\ Cardinality({i \in Rows : score[i] > built[p].approve}) < budget

\* A candidate with more capacity and a looser precision target intervenes on
\* and blocks everything a tighter one does (threshold_selection.py:21-23),
\* although precision is not monotonic in the size of the slice.
PoliciesAreNested ==
  \A p, q \in Policies :
    p.capacity <= q.capacity /\ p.target >= q.target =>
      /\ Intervened(built[p]) \subseteq Intervened(built[q])
      /\ Bucket(built[p], "BLOCK") \subseteq Bucket(built[q], "BLOCK")

\* Without a tie at the block threshold, an achieved target is the precision of
\* the BLOCK bucket itself, and no larger slice within the capacity meets it.
TargetHoldsWithoutTies ==
  \A p \in Policies :
    LET blocked == Bucket(built[p], "BLOCK")
    IN  /\ built[p].achieved
        /\ Cardinality({i \in Rows : score[i] = built[p].block}) = 1
        => /\ 100 * Cardinality(blocked \cap fraud) >= p.target * Cardinality(blocked)
           /\ \A f \in CandidateFractions(p.capacity) :
                Selected(f, rounding.grid) > Cardinality(blocked) => ~PrecisionMeets(f, p.target)

\* comparison.py:54-57: at the matched budget the flat ranking's recall is the
\* policy's own or one fraud better, never worse: it flags the policy's rows
\* and, when the rate's float is rounded up, the next one.
MatchedBudgetRecall ==
  \A p \in Policies :
    LET own == Cardinality(Intervened(built[p]) \cap fraud)
    IN  own \in FlatCaptures(built[p]) /\ FlatCaptures(built[p]) \subseteq {own, own + 1}
=============================================================================
