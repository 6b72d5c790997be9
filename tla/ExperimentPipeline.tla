-------------------------- MODULE ExperimentPipeline --------------------------
(***************************************************************************)
(* The experiment: a dozen scripts (src/run_phase*.py, MLflow logging, the  *)
(* services' start-up) that hand results to one another through files, with *)
(* no lock, no temporary file and no record of what a file was made from.   *)
(*                                                                         *)
(* A job runs one script.  A script is the sequence of the steps at which   *)
(* it touches something another job can see: the configuration, the data,   *)
(* the cached model bundle, the files it reads and the files it saves.      *)
(* What is computed in between is deterministic, so a result is identified  *)
(* by its basis: the version of the data and of the configuration it comes  *)
(* from.  A save opens the file for writing, which empties it, and dumps    *)
(* the content later; a job can be killed at any point.                     *)
(***************************************************************************)
EXTENDS ExperimentData, Sequences, SequencesExt, Functions

CONSTANTS
  Jobs,         \* processes that run scripts
  Plans,        \* bound: the sequences in which scripts may be started
  Tables,       \* versions of the transaction file: a function to datasets
  Ratios,       \* versions of config.yaml's split: a function to configs
  NewTables,    \* bound: versions of the data that may replace another
  MaxRevisions, \* bound: replacements of the data or the configuration
  SliceSize,    \* SIMULATION_SIZE
  Missing,      \* the content of a file that does not exist
  Torn          \* of one that is empty, cut short, or parts of two contents

ASSUME TablesAssumption ==
  \A t \in DOMAIN Tables : Tables[t].n \in Nat /\ Tables[t] \in DatasetsOf(Tables[t].n)

ASSUME RatiosAssumption == \A t \in DOMAIN Ratios : Ratios[t] \in Configs

ASSUME BoundsAssumption ==
  MaxRevisions \in Nat /\ SliceSize \in Nat /\ NewTables \subseteq DOMAIN Tables

VARIABLES
  data,         \* the version of the data in place
  config,       \* the version of the configuration in place
  revision,     \* how many replacements there have been
  file,         \* the content of each file
  mix,          \* contents dumped or being dumped since a file had no writer
  job,          \* what each process is doing
  plan,         \* the scripts still to be started
  raced,        \* history: two jobs have been training the bundle at a time
  raced5        \* history: two jobs have been running phase 5 at a time

vars == <<data, config, revision, file, mix, job, plan, raced, raced5>>

-----------------------------------------------------------------------------
(* Files and what they say *)

Saved == {"split_metadata", "feature_schema", "phase2a", "phase2b", "phase3",
          "phase4", "policy", "phase5", "bundle", "phase6", "profile", "registry"}
Files == Saved \cup {"mlflow"}

Absent == {Missing, Torn}

\* The versions the loader and the split accept, and those whose partitions
\* pass verify_split.
Versions == (DOMAIN Tables) \X (DOMAIN Ratios)

Accepted ==
  {v \in Versions : Loadable(Tables[v[1]]) /\ Splits(Tables[v[1]], Ratios[v[2]])}

Checked == {v \in Accepted : Verified(Tables[v[1]], Ratios[v[2]])}

Version(b) == <<b.data, b.config>>

Bases == [data : DOMAIN Tables, config : DOMAIN Ratios, rev : 0..MaxRevisions]

\* No saved basis is mistaken for a file that cannot be read.
ASSUME AbsentAssumption == Missing # Torn /\ Absent \cap Bases = {}

-----------------------------------------------------------------------------
(* Scripts *)

Step(op, item) == <<[op |-> op, item |-> item]>>

ReadsConfig == Step("config", "config")
LoadsData == Step("load", "verified")
SplitsOnly == Step("load", "split")    \* the same without verify_split
UsesBundle == Step("bundle", "bundle")
Reads(f) == Step("read", f)            \* required: raises when absent or torn
Peeks(f) == Step("peek", f)            \* optional: skipped when absent
Saves(f) == Step("open", f) \o Step("dump", f)

\* Phase 1 saves the split's boundaries and the feature schema.
Phase1 == ReadsConfig \o LoadsData \o Saves("split_metadata") \o Saves("feature_schema")

\* Phase 2A saves the chosen logistic regression's figures; later, phase 2B
\* compares its own with them when there are any.
Phase2a == ReadsConfig \o LoadsData \o Saves("phase2a")
Phase2b == ReadsConfig \o LoadsData \o Peeks("phase2a") \o Saves("phase2b")

\* Phases 3 to 5 retrain the earlier phase's model and compare its scores with
\* the saved ones; a mismatch is a warning.
Phase3 == ReadsConfig \o LoadsData \o Peeks("phase2b") \o Saves("phase3")
Phase4 == ReadsConfig \o LoadsData \o Peeks("phase2b") \o Saves("phase4")

\* Mutant of Phase5: the evaluation is saved before the policy it evaluates.
Phase5MetricsFirst ==
  ReadsConfig \o LoadsData \o Peeks("phase4") \o Saves("phase5") \o Saves("policy")

\* The policy is frozen and saved before it is applied to the test rows.
Phase5 == ReadsConfig \o LoadsData \o Peeks("phase4") \o Saves("policy") \o Saves("phase5")

\* The simulation, its demonstration script and the drift reference start from
\* the cached bundle; only the first verifies the split.
Phase6 == ReadsConfig \o UsesBundle \o LoadsData \o Reads("policy") \o Saves("phase6")
Simulate == ReadsConfig \o UsesBundle \o SplitsOnly \o Reads("policy")
Phase10 == ReadsConfig \o UsesBundle \o SplitsOnly \o Reads("policy") \o Saves("profile")

\* Metadata only: nothing is retrained, the bundle is hashed as it lies.
Phase11 == Reads("phase4") \o Reads("phase5") \o Reads("policy") \o Step("hash", "bundle")
             \o Peeks("registry") \o Saves("registry")

\* The MLflow run is recorded first, then the bundle is uploaded and unpickled.
Mlflow == Reads("phase4") \o Reads("phase5") \o Reads("policy") \o Reads("registry")
            \o Step("log", "mlflow") \o Reads("bundle") \o Step("log", "mlflow")

\* The API, the consumer and the dashboard build the same engine and then
\* serve; the warm start replays training and validation rows.
WarmService == ReadsConfig \o UsesBundle \o Reads("policy") \o SplitsOnly
                 \o Step("serve", "engine")
ColdService == ReadsConfig \o UsesBundle \o Reads("policy") \o Step("serve", "engine")

Program ==
  [phase1 |-> Phase1, phase2a |-> Phase2a, phase2b |-> Phase2b, phase3 |-> Phase3,
   phase4 |-> Phase4, phase5 |-> Phase5, phase6 |-> Phase6, simulate |-> Simulate,
   phase10 |-> Phase10, phase11 |-> Phase11, mlflow |-> Mlflow,
   warm |-> WarmService, cold |-> ColdService]

ASSUME PlansAssumption == Plans \subseteq Seq(DOMAIN Program)

\* build_or_load_bundle without a cached bundle: train, then cache.
TrainsBundle == Step("train", "bundle") \o Saves("bundle")

-----------------------------------------------------------------------------
(* Jobs: the script, the steps left, and what the process holds in memory.  *)

Idle == [script |-> "none", todo |-> <<>>, seen |-> <<>>]

At(j, op) == job[j].todo # <<>> /\ Head(job[j].todo).op = op
Item(j) == Head(job[j].todo).item
Seen(j) == job[j].seen

\* seen with one item more, or read again.
With(seen, item, value) == [x \in DOMAIN seen \cup {item} |-> IF x = item THEN value ELSE seen[x]]

\* The step is done: the process remembers what it learned from it, and ends
\* after its last step.
Advance(j, seen) ==
  job' = [job EXCEPT ![j] =
            IF Len(@.todo) = 1 THEN Idle
            ELSE [script |-> @.script, todo |-> Tail(@.todo), seen |-> seen]]

Learn(j, item, value) == Advance(j, With(Seen(j), item, value))

\* An exception, or an error exit.
Fail(j) == job' = [job EXCEPT ![j] = Idle]

Has(j, item) == item \in DOMAIN Seen(j)

\* Training the bundle and not done saving it.
Building(j) ==
  \E i \in 1..Len(job[j].todo) :
    job[j].todo[i].item = "bundle" /\ job[j].todo[i].op \in {"train", "open", "dump"}

\* A file is being written by the processes that have opened it and not dumped.
Writers(f) == {j \in Jobs : At(j, "dump") /\ Item(j) = f}

\* What a job saves: the basis of what it has computed, or what it has read.
Content(j, f) ==
  CASE f = "bundle" -> Seen(j)["bundle"]
    [] f \in {"phase6", "profile"} ->
         Restrict(Seen(j), {"bundle", "load", "policy"})
    [] f = "registry" /\ Has(j, "registry") -> Seen(j)["registry"]
    [] f = "registry" /\ ~Has(j, "registry") ->
         Restrict(Seen(j), {"hash", "phase4", "phase5", "policy"})
    [] OTHER -> Seen(j)["load"]

-----------------------------------------------------------------------------
(* Initially nothing has been run, or every script has been, in order.      *)

FirstBasis == [data |-> data, config |-> config, rev |-> 0]

Established ==
  [f \in Files |->
     CASE f \in {"phase6", "profile"} ->
            [bundle |-> FirstBasis, load |-> FirstBasis, policy |-> FirstBasis]
       [] f = "registry" ->
            [hash |-> FirstBasis, phase4 |-> FirstBasis, phase5 |-> FirstBasis,
             policy |-> FirstBasis]
       [] f = "mlflow" ->
            [hash |-> FirstBasis, phase4 |-> FirstBasis, phase5 |-> FirstBasis,
             bundle |-> FirstBasis]
       [] OTHER -> FirstBasis]

Init ==
  /\ data \in DOMAIN Tables
  /\ config \in DOMAIN Ratios
  /\ revision = 0
  /\ file \in {[f \in Files |-> Missing]} \cup
       (IF <<data, config>> \in Accepted
        THEN {Established} ELSE {})
  /\ mix = [f \in Saved |-> {}]
  /\ job = [j \in Jobs |-> Idle]
  /\ plan \in Plans
  /\ raced = FALSE
  /\ raced5 = FALSE

-----------------------------------------------------------------------------
(* Steps *)

Start(j) ==
  /\ job[j].script = "none"
  /\ plan # <<>>
  /\ LET s == Head(plan)
     IN /\ job' = [job EXCEPT ![j] = [script |-> s, todo |-> Program[s], seen |-> <<>>]]
        /\ raced5' = (raced5 \/ (s = "phase5" /\ \E k \in Jobs : job[k].script = "phase5"))
  /\ plan' = Tail(plan)
  /\ UNCHANGED <<data, config, revision, file, mix, raced>>

\* load_config: the configuration is read once, and kept for the whole script.
ReadConfig(j) ==
  /\ At(j, "config")
  /\ Learn(j, "config", config)
  /\ UNCHANGED <<data, config, revision, file, mix, plan, raced, raced5>>

\* What training or splitting gives now, with the configuration read earlier.
Basis(j) == [data |-> data, config |-> Seen(j)["config"], rev |-> revision]

\* load_train_transaction, compute_temporal_split and, where the script calls
\* it, verify_split.
LoadData(j) ==
  /\ At(j, "load")
  /\ IF Version(Basis(j)) \in (IF Item(j) = "verified" THEN Checked ELSE Accepted)
     THEN Learn(j, "load", Basis(j))
     ELSE Fail(j)
  /\ UNCHANGED <<data, config, revision, file, mix, plan, raced, raced5>>

\* Mutant of ProbeBundle: the cache is not looked up.
ProbeIgnoringCache(j) ==
  /\ At(j, "bundle")
  /\ job' = [job EXCEPT ![j].todo = TrainsBundle \o Tail(@)]
  /\ raced' = (raced \/ \E k \in Jobs \ {j} : Building(k))
  /\ UNCHANGED <<data, config, revision, file, mix, plan, raced5>>

\* build_or_load_bundle: a cached bundle is taken as it is, whatever data and
\* configuration are in place; a torn one makes pickle raise; without one the
\* model is trained.
ProbeBundle(j) ==
  /\ At(j, "bundle")
  /\ \/ /\ file["bundle"] = Missing
        /\ job' = [job EXCEPT ![j].todo = TrainsBundle \o Tail(@)]
        /\ raced' = (raced \/ \E k \in Jobs \ {j} : Building(k))
     \/ /\ file["bundle"] = Torn
        /\ Fail(j)
        /\ UNCHANGED raced
     \/ /\ file["bundle"] \notin Absent
        /\ Learn(j, "bundle", file["bundle"])
        /\ UNCHANGED raced
  /\ UNCHANGED <<data, config, revision, file, mix, plan, raced5>>

TrainBundle(j) ==
  /\ At(j, "train")
  /\ IF Version(Basis(j)) \in Accepted THEN Learn(j, "bundle", Basis(j)) ELSE Fail(j)
  /\ UNCHANGED <<data, config, revision, file, mix, plan, raced, raced5>>

ReadFile(j) ==
  /\ At(j, "read")
  /\ IF file[Item(j)] \in Absent THEN Fail(j) ELSE Learn(j, Item(j), file[Item(j)])
  /\ UNCHANGED <<data, config, revision, file, mix, plan, raced, raced5>>

\* if path.is_file(): read it.
PeekFile(j) ==
  /\ At(j, "peek")
  /\ \/ file[Item(j)] = Missing /\ Advance(j, Seen(j))
     \/ file[Item(j)] = Torn /\ Fail(j)
     \/ file[Item(j)] \notin Absent /\ Learn(j, Item(j), file[Item(j)])
  /\ UNCHANGED <<data, config, revision, file, mix, plan, raced, raced5>>

\* compute_artifact_sha256 hashes the bytes there are, a torn file's too.
HashBundle(j) ==
  /\ At(j, "hash")
  /\ IF file["bundle"] = Missing THEN Fail(j) ELSE Learn(j, "hash", file["bundle"])
  /\ UNCHANGED <<data, config, revision, file, mix, plan, raced, raced5>>

\* open(path, "w") empties the file.
OpenFile(j) ==
  /\ At(j, "open")
  /\ LET f == Item(j)
     IN /\ file' = [file EXCEPT ![f] = Torn]
        /\ mix' = [mix EXCEPT ![f] = (IF Writers(f) = {} THEN {} ELSE @) \cup {Content(j, f)}]
  /\ Advance(j, Seen(j))
  /\ UNCHANGED <<data, config, revision, plan, raced, raced5>>

\* The last bytes are written and the file closed.  Alone, or with writers of
\* the same bytes that are all done, this leaves the content; while another
\* process has the file open, or after one wrote something else, it may leave
\* parts of both.
DumpFile(j) ==
  /\ At(j, "dump")
  /\ LET f == Item(j)
         own == Content(j, f)
     IN \E left \in (IF mix[f] = {own} /\ Writers(f) = {j} THEN {own} ELSE {own, Torn}) :
          file' = [file EXCEPT ![f] = left]
  /\ Advance(j, Seen(j))
  /\ UNCHANGED <<data, config, revision, mix, plan, raced, raced5>>

\* Mutant of LogRun: the champion's tags are left out.
LogRunUntagged(j) ==
  /\ At(j, "log")
  /\ file' = [file EXCEPT !["mlflow"] =
                Restrict(Seen(j), {"phase4", "phase5", "bundle"} \cap DOMAIN Seen(j))]
  /\ Advance(j, Seen(j))
  /\ UNCHANGED <<data, config, revision, mix, plan, raced, raced5>>

\* MLflow's store is a database: a run is recorded with the champion's tags and
\* the saved metrics, and its model added when the bundle has been unpickled.
LogRun(j) ==
  /\ At(j, "log")
  /\ file' = [file EXCEPT !["mlflow"] =
                With(Restrict(Seen(j), {"phase4", "phase5", "bundle"} \cap DOMAIN Seen(j)),
                     "hash", Seen(j)["registry"].hash)]
  /\ Advance(j, Seen(j))
  /\ UNCHANGED <<data, config, revision, mix, plan, raced, raced5>>

\* A process is killed, a serving one stopped.  A file it had open keeps
\* whatever was flushed.
Crash(j) ==
  /\ job[j].script # "none"
  /\ job' = [job EXCEPT ![j] = Idle]
  /\ \E left \in (IF At(j, "dump") THEN {file[Item(j)], Torn} ELSE {Missing}) :
       file' = IF At(j, "dump") THEN [file EXCEPT ![Item(j)] = left] ELSE file
  /\ UNCHANGED <<data, config, revision, mix, plan, raced, raced5>>

\* Somebody puts another transaction file in place, or edits the ratios.
Revise ==
  /\ revision < MaxRevisions
  /\ revision' = revision + 1
  /\ \/ data' \in NewTables \ {data} /\ UNCHANGED config
     \/ config' \in DOMAIN Ratios \ {config} /\ UNCHANGED data
  /\ UNCHANGED <<file, mix, job, plan, raced, raced5>>

Next ==
  \/ \E j \in Jobs :
       \/ Start(j) \/ ReadConfig(j) \/ LoadData(j) \/ ProbeBundle(j) \/ TrainBundle(j)
       \/ ReadFile(j) \/ PeekFile(j) \/ HashBundle(j)
       \/ OpenFile(j) \/ DumpFile(j) \/ LogRun(j) \/ Crash(j)
  \/ Revise

Spec == Init /\ [][Next]_vars

-----------------------------------------------------------------------------
(* Properties *)

Records == [{"bundle", "load", "policy"} -> Bases]

\* The hash in a champion's record, and a run's copy of it, can be of a torn
\* bundle.
Champions ==
  [{"hash", "phase4", "phase5", "policy"} -> Bases \cup {Torn}]

Runs ==
  UNION {[{"hash", "phase4", "phase5"} \cup b -> Bases \cup {Torn}] :
           b \in SUBSET {"bundle"}}

ContentsOf(f) ==
  CASE f \in {"phase6", "profile"} -> Records
    [] f = "registry" -> Champions
    [] f = "mlflow" -> Runs
    [] OTHER -> Bases

\* Everything in place is a version there is, and every file holds what its
\* own script saves, or nothing readable.
TypeOK ==
  /\ data \in DOMAIN Tables
  /\ config \in DOMAIN Ratios
  /\ revision \in 0..MaxRevisions
  /\ \A f \in Files : file[f] \in Absent \/ file[f] \in ContentsOf(f)
  /\ \A f \in Saved : \A x \in mix[f] : x \in ContentsOf(f)
  /\ \A j \in Jobs :
       /\ job[j].script \in DOMAIN Program \cup {"none"}
       /\ job[j].script = "none" <=> job[j].todo = <<>>
       /\ Has(j, "load") => Seen(j)["load"] \in Bases
       /\ Has(j, "bundle") => Seen(j)["bundle"] \in Bases
  /\ plan \in Seq(DOMAIN Program)
  /\ {raced, raced5} \subseteq BOOLEAN

\* Cuts at most one row short of the shares asked for, and nothing left over.
SizesAsAsked(d, c) ==
  LET t == Cardinality(Train(d, c))
      v == t + Cardinality(Validation(d, c))
  IN /\ 100 * t <= d.n * c.train /\ d.n * c.train <= 100 * t + 100
     /\ 100 * v <= d.n * (c.train + c.val) /\ d.n * (c.train + c.val) <= 100 * v + 100
     /\ v + Cardinality(Test(d, c)) = d.n

\* Whatever file and ratios a script is about to split, if the loader and the
\* split accept them then the cuts fall at most one row short of the shares
\* asked for, and verify_split, which the training scripts assert, does not
\* refuse the partitions
\* (src/data/split.py).
SplitSound ==
  \A j \in Jobs :
    At(j, "load") =>
      LET d == Tables[data]
          c == Ratios[Seen(j)["config"]]
      IN Loadable(d) /\ Splits(d, c) => Verified(d, c) /\ SizesAsAsked(d, c)

\* What the saved decision of a file depends on.
DecidedFrom(f, d, c) ==
  CASE f \in {"split_metadata", "phase6"} -> {}
    [] f = "feature_schema" -> SchemaReads(d, c)
    [] f = "phase2a" -> LogRegChoiceReads(d, c)
    [] f = "phase2b" -> LightGBMReads(d, c)
    [] f = "phase3" -> DetectorChoiceReads(d, c)
    [] f \in {"phase4", "bundle"} -> ModelBReads(d, c)
    [] f \in {"policy", "phase5"} -> PolicyReads(d, c)
    [] f = "profile" -> ProfileReads(d, c)

\* Row r of the test partition can reach row q of an earlier one only through a
\* tie: same card, same instant, and the smaller identifier.
ThroughTie(d, c, r) ==
  \E q \in Train(d, c) \cup Validation(d, c) :
    d.card[q] = d.card[r] /\ d.time[q] = d.time[r] /\ d.id[r] < d.id[q]

\* No schema, model, threshold, policy or reference that is saved depends on a
\* test row, apart from the rows whose types are sampled and those tied with a
\* row before the cut ("Test -> final evaluation only", all run_phase scripts).
DecisionsIgnoreTest ==
  \A j \in Jobs :
    At(j, "dump") /\ Item(j) # "registry" =>
      LET f == Item(j)
          b == IF f \in {"phase6", "profile"} THEN Content(j, f).load ELSE Content(j, f)
          d == Tables[b.data]
          c == Ratios[b.config]
      IN \A cell \in DecidedFrom(f, d, c) \cap Cells(Test(d, c)) :
           \/ cell \in SampleCells(d)
           \/ cell[2] = "x" /\ ThroughTie(d, c, cell[1])

SameHistory(d, c) ==
  \A r \in Simulated(d, c, SliceSize) :
    /\ Prior(d, r) \subseteq OnlinePrior(d, c, SliceSize, r)
    /\ \A q \in OnlinePrior(d, c, SliceSize, r) \ Prior(d, r) :
         d.time[q] = d.time[r] /\ d.id[r] < d.id[q]

\* An engine warm-started on the rows before the test partition sees, at each
\* test row, the history the offline features summarise; the difference is at
\* most the rows before the cut that are tied with it and have larger
\* identifiers (run_phase6_simulation.py, parity).
SimulationMatchesOffline ==
  \A j \in Jobs :
    Has(j, "load") /\ Has(j, "bundle") =>
      SameHistory(Tables[Seen(j)["load"].data], Ratios[Seen(j)["load"].config])

\* Every model and every hash of one that is held, saved or registered.
ModelsAbout ==
  {Seen(j)["bundle"] : j \in {k \in Jobs : Has(k, "bundle")}}
    \cup ({file["bundle"]} \ Absent)
    \cup {file[f].bundle : f \in {g \in {"phase6", "profile"} : file[g] \notin Absent}}
    \cup ({file[f].hash : f \in {g \in {"registry", "mlflow"} : file[g] \notin Absent}}
            \ {Torn})

\* Unless two jobs trained it at the same time, there is one model: the one
\* served, simulated, profiled, hashed into the registry and logged is the one
\* in the bundle, through crashes and whatever is revised meanwhile
\* (build_or_load_bundle, run_phase11_register_champion.py).
OneModelUnlessRaced == raced \/ Cardinality(ModelsAbout) <= 1

\* A policy is never older than the evaluation saved next to it, in the files
\* and in a champion's record, unless two runs of phase 5 overlapped
\* (run_phase5_decision_policy.py saves the policy first, phase 11 reads it
\* last).
PolicyNotOlderThanItsMetrics ==
  \/ raced5
  \/ /\ {file["policy"], file["phase5"]} \cap Absent = {} =>
          file["phase5"].rev <= file["policy"].rev
     /\ file["registry"] \notin Absent =>
          file["registry"].phase5.rev <= file["registry"].policy.rev

NoLaterRowRead(d, c) ==
  /\ \A r \in Train(d, c) : Prior(d, r) \subseteq Train(d, c)
  /\ \A r \in Validation(d, c) : Prior(d, r) \cap Test(d, c) = {}

\* What the documentation says of the behavioural features: "no future
\* transaction, from any split, ever contributes to a past one", so that no
\* row of a partition reads a row of a later one (src/features/behavioral.py).
FeaturesFromEarlierPartitions ==
  \A j \in Jobs :
    job[j].script \in {"phase4", "phase5", "phase10"} /\ Has(j, "load") =>
      NoLaterRowRead(Tables[Seen(j)["load"].data], Ratios[Seen(j)["load"].config])

=============================================================================
