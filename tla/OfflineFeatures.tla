--------------------------- MODULE OfflineFeatures ---------------------------
(***************************************************************************)
(* What the behavioural features promise: src/features/behavioral.py, the  *)
(* Phase 4 batch definition, computes every bhv_* column of a transaction  *)
(* from the FULL list of earlier transactions of the same card1 entity.    *)
(* The state machine below answers each transaction with exactly those     *)
(* features and then appends it to the list.  BehavioralState, which keeps *)
(* a handful of running statistics instead of the list, implements it.     *)
(*                                                                         *)
(* Numbers: amounts are integers and every mean, variance, ratio and       *)
(* z-score is an exact unreduced fraction <<numerator, denominator>>, so   *)
(* floating-point rounding is abstracted away.  A standard deviation is    *)
(* represented by its square.  NaN is a model value.                       *)
(***************************************************************************)
EXTENDS Integers, SequencesExt

CONSTANTS
  Entities,   \* card1 values
  Hour, Day,  \* VELOCITY_WINDOWS_SECONDS["1h"] and ["24h"]
  NaN,        \* "unknown": no history to compute the value from
  EventTimes, \* TransactionDT values that occur
  AmountSet,  \* TransactionAmt values that pass validation
  History,    \* [Entities -> Seq(Txn)]: the train + validation rows
  NoResult    \* the last step raised, or returns nothing

VARIABLES
  history,    \* [Entities -> Seq(Txn)]: everything the features may depend on
  saved,      \* a serialized copy of the state, or NaN
  reply       \* the features the last step returned, or NoResult

vars == <<history, saved, reply>>

Txn == [t : Nat, a : Nat]
NoHistory == [e \in Entities |-> <<>>]

----------------------------------------------------------------------------
(* One row of compute_behavioral_features: h holds the entity's strictly   *)
(* earlier rows in (TransactionDT, TransactionID) order.                   *)
Times(h) == [i \in DOMAIN h |-> h[i].t]
Amounts(h) == {h[i].a : i \in DOMAIN h}
Sum(h) == FoldLeft(LAMBDA acc, x : acc + x.a, 0, h)
SumOfSquares(h) == FoldLeft(LAMBDA acc, x : acc + x.a * x.a, 0, h)

PriorCount(h, t, window) == Cardinality({i \in DOMAIN h : h[i].t >= t - window})

FeaturesOf(h, t, a) ==
  LET n == Len(h)
      S == Sum(h)
      numerator == n * SumOfSquares(h) - S * S
  IN  [count  |-> n,
       mean   |-> IF n = 0 THEN NaN ELSE <<S, n>>,
       var    |-> IF n < 2 THEN NaN ELSE <<numerator, n * (n - 1)>>,
       min    |-> IF n = 0 THEN NaN ELSE Min(Amounts(h)),
       max    |-> IF n = 0 THEN NaN ELSE Max(Amounts(h)),
       since  |-> IF n = 0 THEN NaN ELSE t - h[n].t,
       ratio  |-> IF n = 0 \/ S = 0 THEN NaN ELSE <<a * n, S>>,
       diff   |-> IF n = 0 THEN NaN ELSE <<a * n - S, n>>,
       zscore |-> IF n < 2 \/ numerator = 0 THEN NaN ELSE <<a * n - S, n, numerator>>,
       hour   |-> PriorCount(h, t, Hour),
       day    |-> PriorCount(h, t, Day)]

----------------------------------------------------------------------------
Init == /\ history \in {NoHistory, History}
        /\ saved = NaN
        /\ reply = NoResult

Append1(e, t, a) == [history EXCEPT ![e] = Append(@, [t |-> t, a |-> a])]

\* The features of a transaction never include the transaction itself.
Answer(e, t, a) == /\ reply' = FeaturesOf(history[e], t, a)
                   /\ history' = Append1(e, t, a)
                   /\ UNCHANGED saved

\* A request that raises: its transaction counts entirely or not at all.
Fail(e, t, a) == /\ reply' = NoResult
                 /\ history' \in {history, Append1(e, t, a)}
                 /\ UNCHANGED saved

\* A reset, or a new process: nothing, the warm-start rows, or everything is kept.
Forget == /\ history' \in {NoHistory, History, history}
          /\ reply' = NoResult
          /\ UNCHANGED saved

Save == saved' = history /\ reply' = NoResult /\ UNCHANGED history

Restore == saved # NaN /\ history' = saved /\ reply' = NoResult /\ UNCHANGED saved

Next == \/ \E e \in Entities, t \in EventTimes, a \in AmountSet :
             Answer(e, t, a) \/ Fail(e, t, a)
        \/ Forget \/ Save \/ Restore

Spec == Init /\ [][Next]_vars
==============================================================================
