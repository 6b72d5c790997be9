--------------------------- MODULE ExperimentData ---------------------------
(***************************************************************************)
(* The data every experiment script starts from: the transaction file, its  *)
(* chronological split (src/data), and which parts of it each decision of   *)
(* the experiment looks at (src/features, src/models).                      *)
(*                                                                         *)
(* A dataset is a record of n rows in file order; time, id and card give    *)
(* the columns that order and group the rows, and sound says whether the    *)
(* file has the columns and types the loader insists on.  What else a row   *)
(* holds is abstracted to two cells: <<r, "x">> for its transaction         *)
(* columns and <<r, "y">> for its label.  Training is deterministic (fixed  *)
(* seeds, one thread), so a model is known by what it was computed from.    *)
(*                                                                         *)
(* A configuration gives the three ratios in per cent, and which of the two  *)
(* cuts falls short where it should be a whole number: the code multiplies  *)
(* floating-point ratios.                                                   *)
(***************************************************************************)
EXTENDS Naturals, FiniteSets

CONSTANT SampleRows   \* rows read first to choose the column types (5000)

ASSUME SampleRowsAssumption == SampleRows \in Nat

DatasetsOf(n) ==
  [n : {n}, time : [1..n -> Nat], id : [1..n -> Nat], card : [1..n -> Nat],
   sound : BOOLEAN]

Datasets == UNION {DatasetsOf(n) : n \in Nat}

\* Without validation rows both cuts are one product.
Configs ==
  {c \in [train : Nat, val : Nat, test : Nat, short : SUBSET {"train", "val"}] :
     c.val = 0 => ("train" \in c.short <=> "val" \in c.short)}

Rows(d) == 1..d.n

-----------------------------------------------------------------------------
(* Loading *)

\* load_train_transaction: the required columns, a binary label and valid
\* times (sound), and no TransactionID twice; anything else raises.
Loadable(d) ==
  /\ d.sound
  /\ \A q, r \in Rows(d) : d.id[q] = d.id[r] => q = r

\* _build_efficient_dtypes: the types of every column, the label's included,
\* are those of the first rows of the file, whatever partition they fall in.
SampleCells(d) == {r \in Rows(d) : r <= SampleRows} \X {"x", "y"}

-----------------------------------------------------------------------------
(* The chronological split *)

\* Mutant of Before: rows of one instant share a position.
BeforeByTime(d, q, r) == d.time[q] < d.time[r]

\* sort_values(time_col, kind="mergesort"): by time, ties in file order.
Before(d, q, r) ==
  \/ d.time[q] < d.time[r]
  \/ d.time[q] = d.time[r] /\ q < r

Position(d, r) == Cardinality({q \in Rows(d) : Before(d, q, r)})

\* int(n * ratio): where the exact product is a whole number, the one of floats
\* may lie just below it (0.57 + 0.23 is less than 0.8) and lose a row.
Cut(n, share, short) ==
  LET exact == (n * share) \div 100
  IN IF short /\ exact > 0 /\ (n * share) % 100 = 0 THEN exact - 1 ELSE exact

TrainEnd(d, c) == Cut(d.n, c.train, "train" \in c.short)
ValEnd(d, c) == Cut(d.n, c.train + c.val, "val" \in c.short)

Train(d, c) == {r \in Rows(d) : Position(d, r) < TrainEnd(d, c)}
Validation(d, c) ==
  {r \in Rows(d) : TrainEnd(d, c) <= Position(d, r) /\ Position(d, r) < ValEnd(d, c)}
Test(d, c) ==
  {r \in Rows(d) : TrainEnd(d, c) <= Position(d, r) /\ ValEnd(d, c) <= Position(d, r)}

\* compute_temporal_split: ratios that do not sum to 1 raise, and so does the
\* int(NaN) of an empty partition's time range.
Splits(d, c) ==
  /\ c.train + c.val + c.test = 100
  /\ {} \notin {Train(d, c), Validation(d, c), Test(d, c)}

Ids(d, S) == {d.id[r] : r \in S}

\* All of S is no later than all of T: max(S) <= min(T).
NoLater(d, S, T) == \A q \in S, r \in T : d.time[q] <= d.time[r]

\* verify_split, the six checks every training script insists on.
Verified(d, c) ==
  LET tr == Train(d, c)
      va == Validation(d, c)
      te == Test(d, c)
  IN /\ Ids(d, tr) \cap Ids(d, va) = {}
     /\ Ids(d, va) \cap Ids(d, te) = {}
     /\ Ids(d, tr) \cap Ids(d, te) = {}
     /\ NoLater(d, tr, va)
     /\ NoLater(d, va, te)
     /\ Cardinality(Ids(d, tr)) + Cardinality(Ids(d, va)) + Cardinality(Ids(d, te))
          = Cardinality(Ids(d, tr) \cup Ids(d, va) \cup Ids(d, te))

-----------------------------------------------------------------------------
(* Features *)

\* compute_behavioral_features orders by (TransactionDT, TransactionID): the
\* ties the split broke in file order are broken by identifier here.
Earlier(d, q, r) ==
  \/ d.time[q] < d.time[r]
  \/ d.time[q] = d.time[r] /\ d.id[q] < d.id[r]

\* The transactions of the same card that a row's behavioural features
\* summarise.
Prior(d, r) == {q \in Rows(d) : d.card[q] = d.card[r] /\ Earlier(d, q, r)}

\* FeaturePipeline.transform works row by row and takes no label; neither does
\* the behavioural frame, which is asserted to have none.
Raw(S) == S \X {"x"}
Labels(S) == S \X {"y"}
Cells(S) == S \X {"x", "y"}
Behavioral(d, S) == Raw(S \cup UNION {Prior(d, r) : r \in S})

\* build_feature_schema: names, types and missing shares of the training rows,
\* the label column's own row of the schema included.
SchemaReads(d, c) == Cells(Train(d, c)) \cup SampleCells(d)

\* Mutant of PreprocessorReads: a vocabulary that covers every row of the file.
PreprocessorOnAll(d, c) == SchemaReads(d, c) \cup Raw(Rows(d))

\* Imputer, scaler, one-hot vocabulary; category vocabulary; medians and
\* category frequencies: every preprocessor is fitted on training rows.
PreprocessorReads(d, c) == SchemaReads(d, c) \cup Raw(Train(d, c))

-----------------------------------------------------------------------------
(* What each decision of the experiment depends on *)

\* Phase 2A: two calibrated logistic regressions, fitted on training rows ...
LogRegReads(d, c) == PreprocessorReads(d, c) \cup Labels(Train(d, c))

\* ... their thresholds and the choice between them made on validation rows.
LogRegChoiceReads(d, c) == LogRegReads(d, c) \cup Cells(Validation(d, c))

\* train_lightgbm: trees from training rows, early stopping on validation.
LightGBMReads(d, c) ==
  PreprocessorReads(d, c) \cup Cells(Train(d, c)) \cup Cells(Validation(d, c))

\* Phase 3: an unsupervised forest per configuration, the configuration and
\* the thresholds of the conditional analysis chosen on validation rows.
DetectorReads(d, c) == PreprocessorReads(d, c) \cup Raw(Train(d, c))
DetectorChoiceReads(d, c) ==
  DetectorReads(d, c) \cup LightGBMReads(d, c) \cup Cells(Validation(d, c))

\* Phase 4, model B: the same with the behavioural columns of the training and
\* validation rows attached.
ModelBReads(d, c) ==
  LightGBMReads(d, c) \cup Behavioral(d, Train(d, c) \cup Validation(d, c))

\* Phase 5: the thresholds, from the scores and labels of validation rows.
PolicyReads(d, c) ==
  ModelBReads(d, c) \cup Behavioral(d, Validation(d, c)) \cup Labels(Validation(d, c))

\* Phase 10: the drift reference, from validation rows, their scores and the
\* decisions of the policy on them.
ProfileReads(d, c) ==
  ModelBReads(d, c) \cup PolicyReads(d, c) \cup Behavioral(d, Validation(d, c))

-----------------------------------------------------------------------------
(* The simulation: an engine warm-started on training and validation rows   *)
(* is given the test rows one at a time in (time, id) order.                *)

Simulated(d, c, size) ==
  {r \in Test(d, c) : Cardinality({q \in Test(d, c) : Earlier(d, q, r)}) < size}

\* Mutant of OnlinePrior: warm-started on the training rows alone.
OnlinePriorTrainOnly(d, c, size, r) ==
  {q \in Train(d, c) : d.card[q] = d.card[r]}
    \cup {q \in Simulated(d, c, size) : d.card[q] = d.card[r] /\ Earlier(d, q, r)}

\* What the engine has seen of a card when row r of the slice is scored.
OnlinePrior(d, c, size, r) ==
  {q \in Train(d, c) \cup Validation(d, c) : d.card[q] = d.card[r]}
    \cup {q \in Simulated(d, c, size) : d.card[q] = d.card[r] /\ Earlier(d, q, r)}

-----------------------------------------------------------------------------
(* When the two orders agree: transactions of one instant are in the file   *)
(* in the order of their identifiers.                                       *)

TiesFollowIds(d) ==
  \A q, r \in Rows(d) : d.time[q] = d.time[r] /\ q < r => d.id[q] < d.id[r]

=============================================================================
