# Verification of the real-time risk and fraud engine

TLA+ models of the engine that scores card transactions, TLC configurations
that model-check them on small instances, and theorems about them proved with
TLAPS. `tlc -config X.cfg M` runs a configuration; `tlapm M.tla` checks a proof.
`PROJECT.json` holds the runs, the lines each definition models, the findings
and the hazards.

All source paths below are relative to the repository; the Python package is
the repository's `src/` directory.

## 1. Inventory

| Component (package) | State it keeps | Operations | Interacts with | Correct when |
|---|---|---|---|---|
| **Behavioural state** (`engine/state.py`) | per `card1`: count, Welford mean and m2, min, max, last time, a deque of times within 24 h | `compute_features`, `update`, `bulk_initialize`, `reset`, `serialize`, `load_serialized` | backend, engine | it is the exact summary of the transactions recorded; its features equal the batch ones |
| **Offline features** (`features/behavioral.py`) | none | `compute_behavioral_features` | training, parity check | uses strictly earlier rows only |
| **Risk engine** (`engine/risk_engine.py`) | references only | `process_transaction`, `reset_state` | state, pipeline, model, policy, explainer | predict first, update last, nothing on failure |
| **State backends** (`engine/state_backend.py`) | a dict, or Redis keys | `get`, `put`, `items`, `clear`, `count` | Redis | no update lost, a reset is final |
| **Streaming** (`streaming/`) | position, retry attempt, stop flag, counters; the handler's idempotency cache | `run`, `_process_one`, `stop`, handler call | Kafka, engine, decision and dead-letter topics | at-least-once, at most one application per cause, exact counters, no blocked partition |
| **Decision policy** (`decision/`, `evaluation/operational_eval.py`) | two thresholds | derive from validation data, `decide`, evaluate, compare | engine, phase-5 script | ordered thresholds, capacity covered, nested candidates, precision supported |
| **Model registry** (`governance/registry.py`) | a JSON file and each process's copy | register, promote, rollback, reject, save | operator scripts, API | one champion, rollback possible, nothing lost |
| **API** (`api/`) | engine, metrics, monitor and registry singletons | `/predict`, `/predict/explain`, `/drift/analyze`, `/dev/reset-state`, `/health`, summaries | everything above | errors become the right status; the answer tells the client whether its transaction was counted |
| **Metrics** (`monitoring/`) | counters under one lock | one `record_*` per outcome | API middleware and handlers | statuses and outcome counters explain each other |
| **Drift monitor** (`drift/`) | latest report, severity counts | `analyze_batch`, `summary` | API | a report is counted once; the latest is not overtaken by one that was over before it began |
| **Dashboard** (`dashboard/`) | a local engine per process | Live Scoring: check, post, fall back | API, Redis | a submission always resolves, and is counted twice only when in doubt |
| **Promotion gates** (`governance/gates.py` and neighbours) | none | six gates, aggregation | registry, through an operator | a recommendation is earned; a line of champions cannot drift unboundedly |
| **Loading and split** (`data/`) | none | `load_train_transaction`, `compute_temporal_split`, `verify_split` | every script, warm start | disjoint, ordered, complete, cut at most a row short of the shares asked for |
| **Pipeline, preprocessors, models** (`features/`, `models/`) | fitted constants | fit on train, choose on validation | phase scripts, bundle | no decision depends on a test row |
| **Experiment scripts** (`run_phase*.py`, `scripts/`) | a dozen files, the cached model bundle | read, compute, save | one another, only through files | one model everywhere, a policy with its own evaluation |
| **MLflow** (`mlops/`) | an external run store | log the champion | registry, metrics files, bundle | the run carries the champion's hash |
| `inspect_data.py`, plots, SHAP values, export, other dashboard pages, deployment files | | reporting, numerics, configuration | | not modelled (section 7) |

How they interact. The API builds one engine per process (`lifespan`,
`build_engine`), warm-starts its state when `WARM_START_STATE` is on, and serves
sync routes from a thread pool, so threads share the engine. The stream consumer
is another process with its own engine; with Redis both share entity state. The
registry is a file that operator scripts change and the API reads once. The
dashboard posts to the API and, after any failure, scores with an engine of its
own. The experiment scripts hand results to one another, and to the services,
through files without locks or temporary files.

What is hard: two threads between a backend's get and put; Redis failing before
or after it applied a command; a restart that keeps half of the state; a request
that raises between the read and the update; redelivery, retry and eviction
around the idempotency cache; offsets committed by polls and by `close()`; a stop
signal in the middle of a delivery, an exception in the middle of a message; an engine call that never returns; exact window boundaries and zero amounts;
tied scores at a threshold; a file truncated before it is written, or written by
two processes at once; a timeout in the dashboard while the service goes on; a
503 sent after the state was updated; transactions of one instant that a cut
separates; scripts run in another order, twice, or over replaced data.
`PROJECT.json` lists each one under "hazards", at its line.

## 2. Modules

| Module | Models | Notes |
|---|---|---|
| `OfflineFeatures` | `features/behavioral.py` | abstract specification: every reply is computed from the full list of earlier transactions |
| `EntityState` | the arithmetic of `engine/state.py` | operators only |
| `BehavioralState` | state manager, engine and backend, one request at a time, with startup, restarts, failures and reloads | implements `OfflineFeatures` |
| `ConcurrentEngine` | the same code run by several threads on one entity, step by step | |
| `StreamConsumer` | `streaming/` around the engine | safety and liveness |
| `DecisionPolicy` | threshold derivation and its use | pure algorithms, checked on every small validation set |
| `ModelRegistry` | `governance/registry.py`, several processes | |
| `ApiService` | `api/`, `monitoring/`, `drift/monitor.py`, the dashboard's Live Scoring page | requests from arrival to counted answer; safety and liveness |
| `ExperimentData` | `data/load.py`, `data/split.py`, and which rows `features/`, `models/` and the phase scripts look at | operators only |
| `ExperimentPipeline` | `run_phase*.py`, MLflow logging and service start-up as processes sharing files | extends `ExperimentData` |
| `PromotionGates` | `governance/gates.py`, `compatibility.py`, and promotion along a line of champions | with its theorems; no run |
| `BehavioralStateProofs`, `StreamConsumerProofs`, `ModelRegistryProofs`, `ExperimentProofs`, `ApiServiceProofs`, `ConcurrentEngineProofs`, `DecisionPolicyProofs` | | theorems |
| `MC*` | | instances for TLC |

### EntityState, BehavioralState, OfflineFeatures

`EntityState` keeps the code's sufficient statistics exact: `sum` is
`mean_amt * count` (the code's derived `sum_amt`) and `sqdev` is `m2 * count`, so
Welford's step and Chan's merge are integer formulas and means, variances and
z-scores are unreduced fractions. What is abstracted is floating-point rounding;
what is kept is every case distinction (no history, one transaction, zero mean,
zero spread) and the deque, whose head alone is examined when it is pruned.

Actions of `BehavioralState`: `ProcessTransaction` is the whole successful
request; `RejectTransaction` is `_validate_transaction`; `PipelineRaises` is
anything that raises between `compute_features` and `update`, and with the memory
backend keeps the pruning `compute_features` did on the stored object;
`StateBackendUnavailable` has one disjunct per place where Redis can fail;
`ResetState`, `Restart`, `Serialize`, `LoadSerialized` act on the whole store.
`history` is a history variable: the transactions the store stands for.
`Deployment` is (`STATE_BACKEND`, `WARM_START_STATE`); the shipped combinations
are Redis/cold (`k8s/configmap.yaml`), memory/cold (Docker) and memory/warm (a bare
host).

The refinement is `OnlineMatchesOffline == Offline!Spec` with `history`, `saved`
(by `savedHistory`) and `reply` mapped. The abstract machine forgets how the
features are computed online and allows a failed request to count entirely or not
at all, never in part.

### ConcurrentEngine

One entity, because entities share nothing but `clear()`. An `EntityState` object
is named after the request that created it: the memory dict holds such a
reference, while a Redis `get` makes a private copy. A step is what one thread
does between two points where CPython may switch threads or Redis may serve
another client. Resets run in the thread pool too, so two of them may overlap;
`reset` says how far each one is. `overlapped`, `owed`, `gone` and `quiet` are history
variables that say which updates ran alone, which requests were over before a reset and
which resets met no update.

### StreamConsumer

A log entry is a transaction ID; a duplicated ID is a producer's retry or a
redelivery. External behaviour is taken from how `kafka_client.py` uses
kafka-python: the iterator moves the position before it yields, a poll or a
`close()` may commit the position, a group without a committed offset starts at the
end. The engine is its effect on the state: after `CallEngine` it returns, it raises before
the update, it raises although the update was applied (`ambiguous`), or it never comes
back. The engine's state outlives the process, as with Redis; cache, counters and
position do not.

A process ends in one of three ways. `Crash` is a kill: nothing is committed. `BreakOff`,
`LeaveLoop` and `DecodeRaises` leave `run()` through its `finally`, and so does
`Interrupt`: a `KeyboardInterrupt` or `SystemExit` is no `Exception`, so `_process_one`
does not catch it, and neither does it catch an error of the dead-letter send that is no
`StreamingUnavailableError`. `close()` then commits the position, which is already past
the message in hand, or fails to. `abandoned` and `interrupted` are those messages.

### DecisionPolicy

The validation set (`score`, `fraud`) is chosen in `Init`, and each step builds
one candidate policy from it, as `run_phase5_decision_policy.py` does. Fractions
are multiples of `1/Units`, precisions are compared by cross-multiplication.
`TopRows` is the tail of a stable ascending sort, ties included.

Where a float decides a number of rows it is modelled. `math.ceil(n * k_fraction)` is a
row too many when the exact product is a whole number and the float one lies just above
it. `rounding`, chosen in `Init`, is the set of fractions for which that happens, as
they are written in a setting (`literal`) and as `np.arange` computes them (`grid`):
the same fraction need not be the same float in both, as 0.03 is not. The matched budget of
`comparison.py`, two counts divided by n, added and multiplied by n again, may gain the
row for any count (`FlatBudgets`).

### ModelRegistry

`save()` is two actions because `open(path, "w")` truncates first. `current` is
a history variable: the processes whose copy descends from the file's latest save,
by loading it or by having made it. `Direct` gives the metadata with which
`register_model` is called directly; the named methods call it with their own.

### ApiService

A request goes through `queued` (received, waiting for a thread of the pool that
runs the sync routes, `/health` included), `running`, `scored` or `computed` (after
the engine or the drift analysis, before their results are recorded), `raised`
(an exception left the route), `replying` and `answered`. `Score` is
`engine.process_transaction`: of the store only "counted or not" is kept,
because entities and overlapping updates are the subject of `BehavioralState` and
`ConcurrentEngine`. Three details of the code decide the shape:

* handlers are found along the exception's bases, so a lost backend (a
  `RuntimeError`) has its own 503 while any other `RuntimeError`, from the model too,
  becomes the 503 "engine_not_initialized" of an engine that is initialised;
* the handler of `Exception` sits outside the metrics middleware: the 500 is counted
  first (`PassUnhandled`) and `internal_errors` after (`HandleUnexpected`);
* `/predict/explain` refuses for want of an explainer after the success was
  recorded (`RecordSuccess`).

`Analyze` and `Publish` are the two halves of `analyze_batch`, outside and under the
lock; `published` are the reports that are out, whether or not their answer could
be rendered afterwards (an infinite distance has no JSON: `Answer`), and `before`
remembers which were out when an analysis began.
`CheckApi`, `Post`, `ReadAnswer`, `GiveUp`, `ScoreLocally` are the dashboard's page,
which turns to its own engine after any failure: an unreachable service, a
timeout, a 422 or a 503 alike. Service and page use the same `STATE_BACKEND`: with
`redis` they share the store.

Read in passing, and visible in the model: `metrics.py:65` calls `failures`
"validation/processing failures" but only validation errors are counted there
(`AttemptsAccounted` states the difference); `ping()` is documented as used by
`/health` and is not; `record_streaming_message` has no caller.

### ExperimentData, ExperimentPipeline

`ExperimentData` gives a dataset's rows in file order with time, identifier and card,
and abstracts everything else of a row to two cells, `"x"` and `"y"` (its label).
`Train`, `Validation` and `Test` are positions in the stable order by time.
`...Reads(d, c)` is, for each decision of the experiment (a schema, a preprocessor,
a model, a threshold, the policy, the drift reference), the set of cells it is
computed from, following the calls of the script that makes it. Two orders meet
here: the split breaks ties of `TransactionDT` by file order (`Before`), the
behavioural features by `TransactionID` (`Earlier`). A cut is `int(n * ratio)`: where the
exact product is a whole number, the one of floats may fall short of it and lose a row
(`Cut`); `short` in a configuration says which of the two cuts do.

`ExperimentPipeline` writes each script as the sequence of the steps other processes
can notice: read the configuration (once), load the data, use or train the
bundle, require or peek at a file, and save one in two steps, because `open(...,
"w")` empties it. Training is deterministic (fixed seeds), so a result is its basis:
the version of the data and configuration it was made from. `mix` holds the
contents whose writers overlapped, in which case a file may end up torn;
`raced` and `raced5` are history variables. `Crash` kills a job anywhere, `Revise`
puts another transaction file or other ratios in place.

What the scripts do not do is modelled too: a cached bundle is used whatever data
is in place and a torn one is never rebuilt (`ProbeBundle`); phase 11 hashes the
bundle without unpickling it, so it may register the hash of a torn one; the
comparison of phases 3 to 5 with earlier figures is a warning; phase 10, the
simulation script and the warm start do not call `verify_split`, and `SplitSound`
shows that it would not have refused.

### PromotionGates

A model is its evaluation and the versions it names; rates are in units of
1/10000. The gates are total functions of two models: `compute_ranking_metrics`
raises rather than return `None`, so the gates meet NaN (`measured` is FALSE) and never
`None`. The module adds the procedure of `demo_model_governance.py` as a state
machine: promote on a recommendation, promote after a review, roll back.

## 3. Runs

| Run | Properties | Instance, and why it is enough |
|---|---|---|
| `behavioral_state` | `TypeOK`, `StoreSummarisesHistory`, `BlocksMergeLikeUpdates`, `OnlineMatchesOffline` | 2 entities; times 0, 2, 3 and windows 1 and 2, so that a transaction falls inside, exactly on and outside each window; amounts 0 and 3 for zero mean and zero spread; 3 live transactions (cold) or 2 on top of 2 historical rows, so that a warm start is updated; the historical block is two rows with a spread of their own, and `BlocksMergeLikeUpdates` merges it into every stored entity that is reached, with 0 to 4 transactions: no supported deployment takes the branch that merges into a nonempty entity, because a warm start meets an empty store; a snapshot while `clock <= SnapshotBy`, so reloads happen after later requests. About 370,000 states |
| `failed_request` (violation) | `FailedRequestIsInvisible` | one entity, memory backend, requests in any order |
| `warm_redis` (violation) | `StoreSummarisesHistory` | Redis with warm start |
| `concurrent_engine` | `TypeOK`, `NotTorn`, `IsolatedUpdateIsKept`, `ResetIsFinal`, `RedisRepliesAreSnapshots`, `OnlyOverlapsDropUpdates` (action property) | 4 requests (two that overlap, one before and one after), 2 resets that may overlap, both backends, requests and resets symmetric. About 4.6 million states |
| `stream_consumer` | `TypeOK`, `CacheInSync`, `AppliedBound`, `DecisionsBacked`, `CommittedIsHandled`, `AccountingExact` | 3 messages from 2 valid IDs and an invalid one, cache of size 1 (so that A, B, A evicts A before its duplicate), one retry, 2 processes, one ambiguous failure per ID. About 4.2 million states |
| `stream_progress` | `EveryMessageHandled` | `FairSpec`, with an undecodable message, 2 retries and no dead-letter topic; engine calls that return, raise or hang |
| `graceful_stop` (violation) | `NothingAbandoned` | the `stream_consumer` instance |
| `decision_policy` | `ThresholdsCrossOnlyByRounding`, `CapacityIsCovered`, `PoliciesAreNested`, `TargetHoldsWithoutTies`, `MatchedBudgetRecall` | all labellings of 4 rows and all scores in 1..3, so that rows tie at, above and below every boundary; fractions in eighths, so that half of the scan's lie on a whole number of rows, with every choice of the ones that round up, of the literal and of the scan's fractions apart; capacities below the scan step, on the grid, between two of its points and 1.0; two targets; any two candidates together. About 1.2 million states |
| `model_registry` | `TypeOK`, `OneChampion`, `RollbackIsPossible`, `CurrentCopyExtendsFile` | 3 models (champion, the previous one, a third), 2 processes, 2 saves, a RETIRED model imported through `register_model`. About 0.9 million states, up to symmetry |
| `api_service` | `TypeOK`, `AttemptsAccounted`, `StatusesExplained`, `AnswerTellsState`, `CountedTwiceOnlyIfInDoubt`, `DriftSummaryConsistent`, `SubmissionResolved` | one form and two other calls (a reset or a read against a scoring request; two analyses that overlap), 2 threads, 1 crash and restart, a memory store without explainer and profile, a shared Redis with both. About 2.2 million states |
| `experiment_pipeline` | `TypeOK`, `SplitSound`, `DecisionsIgnoreTest`, `SimulationMatchesOffline`, `OneModelUnlessRaced`, `PolicyNotOlderThanItsMetrics` | 2 processes; 8 working days of three scripts each, so that every script runs, some twice, and overlaps with one it exchanges files with; 5 tables (in order, tied across both cuts against identifier order, shuffled, with a repeated identifier, too short), 5 rows long so that shares fall on whole rows; 2 pairs of ratios, one of which (57 and 23 percent) adds up to a float below 0.8; one revision. About 430,000 states, up to symmetry |
| `tie_leak` (violation) | `FeaturesFromEarlierPartitions` | phase 4 on the same tables |

`CHECK_DEADLOCK FALSE` wherever the bounded inputs run out or the system may
rest: a consumer that is down, an engine without requests, a service nobody calls,
a script that ended.

### What the violations show

* `failed_request`: with the memory backend `compute_features` pops expired times
  from the stored object (`engine/state.py:224`). A request dated later than the
  next one, which then raises, removes times the next one should count.
  `risk_engine.py:25-27` says a failure "prevents state from being touched at all".
  With requests in time order the pruned times were expired for every later
  request, and `behavioral_state` shows the failure to be invisible.
* `warm_redis`: `build_engine` replays the historical rows at every start without
  asking what the backend holds. The shipped configurations avoid the combination
  (the defaults do not: `WARM_START_STATE` is on unless set).
* `graceful_stop`: `run()` tests `_stopped` after the message was yielded, breaks, and
  `close()` commits past it; the docstring promises to finish the in-flight message.
* `tie_leak`: `split.py:83` sorts by time alone, keeping file order among ties, while
  `behavioral.py:113` orders ties by identifier. When rows of one card and one
  instant span a cut and the file does not list them by identifier, a training or
  validation row's features summarise a row of a later partition. The docstring of
  `behavioral.py` says that cannot happen. `OrderedTiesKeepPartitionsApart` is the
  theorem that it happens only then; `DecisionsIgnoreTest` and
  `SimulationMatchesOffline` are stated up to such ties.

Two disagreements with comments have a theorem and no run of their own.

* `threshold_selection.py:119-121` says that `block_threshold >= approve_threshold` holds
  "by construction (block_fraction <= review_capacity implies this)". The scan's last
  fraction may be a float above the capacity: `np.arange(0.0005, 0.03 + 1e-9, 0.0005)`, with
  the default step, ends at 0.030000000000000002. Of 100 rows its slice has 4 while the
  capacity has 3; when the scan settles on it the assert fires. Phase 5's own capacities, 0.01,
  0.02 and 0.05 at that step, are not affected. `ThresholdsCrossOnlyByRounding` says that this, and a capacity below the
  scan step, is all that keeps a policy from being built.
* `registry.py:8-11` says that nothing but `promote` and `rollback` changes the champion,
  and the message at lines 66-67 that overwriting a model's metadata does not. `register_model`, called directly with CHAMPION metadata, does too
  (line 71), without retiring the other; `register_candidate` cannot. The registry proofs
  assume that it is not called so (`Supervised`).

One fact to know when reading the phase 5 report: rows tied with the last row of the measured slice are
blocked too, so the blocked set's precision may be below the target
(`TargetHoldsWithoutTies` is what is left).

## 4. Fairness

`StreamConsumer` assumes weak fairness of the steps of its single consumer
thread (`Process`, `Deliver`, `BreakOff`, `LeaveLoop`, `DecodeRaises`). The thread runs a
plain loop and each of these steps stays enabled until it is taken or the process ends,
so a scheduler that runs the thread at all takes it. No fairness is assumed of
the engine's call (`EngineReturns`, `EngineRaises`), because its Redis client has no read
timeout: `EveryMessageHandled` releases a behaviour in which such a call never comes back.
None is assumed of producers, crashes, interrupts, `stop()`, the auto-commit, or of the
start of a new process, and none of a particular outcome of the engine: a message
whose handling always raises must still leave the loop. A message is released from
the claim when the process goes down, because nothing in the code restarts it; an
undecodable message does stop every process that meets it.

`ApiService` assumes weak fairness of the page's script only: `Visit(f)`, because a
submitted script runs on and every call it makes has a timeout, and
`ScoreLocally(f)` when the store is in memory, where the engine's call ends. None is
assumed of the service, which may stall for ever, and none of Redis, whose client
has a timeout for connecting and none for reading (`dependencies.py:81`): with
Redis the page is released from the claim while its own engine waits.

## 5. Proofs

* **`BehavioralStateProofs`**: `TypeCorrect` (`Spec => []TypeOK`) and `SummaryInvariant`
  (`Spec => []StoreSummarisesHistory`), for every set of entities, times and amounts,
  both windows, every warm-start history and bound. Assumed: `InOrder` (requests
  arrive in time order; without it the first finding applies) and `NoWarmRedis` (no
  warm start onto Redis; the second finding). `StoreSummarisesHistory` is not
  inductive alone: `IInv` adds that the clock is not behind the warm start's
  `AsOf`, that the types hold, and that the saved copy summarises the saved history
  at the present clock, which is what a reload needs. The key step is pruning:
  what a later cutoff removes from the deque is a prefix, older than the window
  (a nonempty set of naturals has a least element, hence
  `DropExpired` of a sorted deque is one of its tails).
  `OnlineIsOffline` (`Spec => OnlineMatchesOffline`) is the refinement, under the same
  two assumptions. `MInv` adds to `IInv` that sum, squared deviations, minimum and
  maximum of each stored and each saved entity are those of its list; then
  `FeaturesMatch` shows a reply equal to the batch definition's, and every action is
  mapped: a request to `Answer`, a failed one to `Fail`, reset, restart and a refused
  amount to `Forget`, the copy to `Save` and `Restore`. Both sides fold over the list.
  What a fold computes is obtained without the library's induction theorems: the set
  of lengths where a claim fails would have a least element (`LeastNatural`). This gives
  that the recursive function inside the library's fold exists
  (`IteratesExists`), that its values are partial sums and that these are unique
  (`SumsAgree`); so one more transaction adds its amount (`TotalsOfAppend`), Welford's
  division leaves no remainder (`WelfordMatches`), and the two passes over
  a warm-start block give the one-pass formula (`BlockMoments`). The velocity
  counts are a bijection between deque and list. `FailuresAreInvisible`: where
  the first finding refutes the claim that a failed request leaves state untouched,
  its read changes no answer at its own time or later.
* **`StreamConsumerProofs`**: `TypeCorrect`, `AtMostOncePerCause` (`AppliedBound`),
  `DecisionsAreBacked` (`DecisionsBacked`), `CommittedOffsetsAreDealtWith`
  (`CommittedIsHandled`), `CacheStaysInSync` (`CacheInSync`) and `AccountingIsExact`
  (`AccountingExact`), for any IDs, cache size, retry limit and bounds. Each
  strengthening ties the counters to the control state: between the engine's
  return and the end of the message an application is not yet in the cache or
  not yet a decision, and the offsets up to the position are accounted for except the
  one in flight. `CommittedOffsetsAreDealtWith` counts the messages cut short by a stop or
  by an exception that left `run()`: one per process, because the process ends with them. The cache's list holds each ID once because the ID of a message
  being applied was not cached; a dead letter still to be sent leaves one failure
  that no dead letter accounts for yet.
* **`ConcurrentEngineProofs`**: all properties of the run, for any number of threads,
  both backends and any resets, overlapping ones too: `TypeCorrect`, `StateIsNeverTorn` (`NotTorn`),
  `IsolatedUpdatesStay` (`IsolatedUpdateIsKept`), `QuietResetsAreFinal` (`ResetIsFinal`),
  `RepliesAreSnapshots` (`RedisRepliesAreSnapshots`) and `LossNeedsOverlap`
  (`OnlyOverlapsDropUpdates`, an action property: where `IsolatedUpdateIsKept` says
  which updates survive, it says which steps may destroy one). Assumed: finitely
  many requests, or the count would have no size to be compared with. `Owned` says who can reach
  an object: a Redis copy has one owner, and nobody holds what a thread has not
  created yet. On it rest the parts of the invariant: `Exact` (every object has counted
  what it has seen and what is being appended to it), `Alone` and `Kept` (an update
  outside `overlapped` is alone, hence what it wrote is in whatever a later update works
  on), `UpToDate` (an update that is alone works on all that is stored), `Cleared` (what a
  quiet reset removed is in nothing that can be stored again) and `Answered`.
* **`DecisionPolicyProofs`**: all invariants of the run, for every validation set, labels,
  scores, scan step, settings and roundings: `ThresholdsCrossOnlyByAFloat`
  (`ThresholdsCrossOnlyByRounding`), `BudgetIsUsedUp` (`CapacityIsCovered`),
  `LooserPoliciesCatchMore` (`PoliciesAreNested`), `AchievedTargetHolds`
  (`TargetHoldsWithoutTies`) and `FlatRankingIsNoWorse` (`MatchedBudgetRecall`). Counting the rows ahead of a row gives it a rank, the ranks
  are 0 to N-1 each taken once, so a selection has the size asked for; a set that
  contains every row ahead of its own is a selection, and a bucket is one. The
  invariant says only that what is built is what setting and validation set determine.
* **`ModelRegistryProofs`**: `TypeCorrect`, `OneChampionAlways`, `RollbackAlwaysPossible`,
  `CopiesExtendTheFile` (`CurrentCopyExtendsFile`), for
  any models, processes and bounds, assuming `Supervised`: direct calls of
  `register_model` neither import a CHAMPION nor overwrite (with CHAMPION metadata it
  replaces the champion and leaves two models with that status). `Sound` of a registry is the inductive part, kept by every edit and
  carried between memory and file by load and dump. `Lineage` adds that while the latest
  version is being saved only the saver holds it, and the file is unreadable; everybody else
  gets it by loading, and no edit takes anything away from a copy.
* **`ExperimentProofs`**: first the data, for every dataset and all ratios.
  `SplitIsAPartition` counts positions (a bijection of the rows with an initial
  segment of the naturals) to get the sizes, which are at most a row short of the shares
  asked for (`SizesAsAsked`), and orders the two cuts whichever of them rounds down; `VerificationNeverRefuses` derives the
  six checks; `DecisionsReadNoTestRow` follows every decision's cells;
  `WarmStartGivesOfflineHistory` and `OrderedTiesKeepPartitionsApart` compare the two
  orders. Then the pipeline, for any jobs, plans, tables, ratios, revisions and
  slice: `TypeCorrect`, `SplitsAreSound`, `TestStaysUnseen` and `SimulationIsParity` are
  the run's properties. The inductive invariant is `JobsOK /\ FilesOK /\ RestOK`:
  each job's remaining steps are the tail of its script and what it holds in
  memory is what the steps behind it supply, so that every later step finds what it
  needs; files and mixed contents are what their own script saves, with bases of
  versions the loader accepted. `OneModelIsShared` (`OneModelUnlessRaced`) adds `ModelInv`:
  training steps come first in what a job has left, so one that is past training
  cannot return to it; and until training is raced, one job trains, there is no bundle
  until it opens one, and as long as there is none nobody else holds or has saved
  anything about a model. Without the last part a profile or a registry could already
  speak of another model when the bundle appears. `PolicyIsNotOlder`
  (`PolicyNotOlderThanItsMetrics`) adds `PolicyInv`: a script is at a position that
  its remaining steps tell, only phase 5 saves policies and evaluations,
  in that order, whoever reads both reads the evaluation first, and nothing comes from
  a version still to come; hence every evaluation known anywhere is at most as
  new as the policy in place, or as the one about to be saved. Needed of the
  constants: a file that is absent is not mistaken for a revision (`AbsentAssumption`).
* **`ApiServiceProofs`**: all invariants of the run, for any forms, calls, deployments,
  thread pool and number of crashes. `RequestsOK` says what each stage implies:
  nothing is counted before the engine is called, and counted from then on unless an
  exception says otherwise; `PagesOK` says why a page has turned to its own engine.
  `AnswersTell` and `CountedTwiceOnlyInDoubt` follow. `NoAttemptIsLost`
  (`AttemptsAccounted`) and `StatusesAddUp` (`StatusesExplained`) relate counters to
  numbers of requests and are inductive as balanced books (`BooksInv`): the
  responses raised or on their way are entered too, so that every step adds the same
  to both sides. `SummaryIsConsistent` (`DriftSummaryConsistent`): an analysis saw
  only reports that were out when it began (`SeenOK`), hence never the one published now.
* **`PromotionGates`**: `RecommendationIsEarned` (what PROMOTE and REQUIRES_REVIEW
  guarantee), `BetterIsNeverRecommendedLess` (the aggregation is monotone) and
  `LinesAreBounded`: tolerances are relative to the champion in place, so they add
  up along a line; the floor and the schema are all that holds however long it gets.
  `LineInv` adds the types to the bound. There is no run: the proofs cover all
  rates, and a small instance would have to pick rates around every threshold.

Only model-checked: the two liveness properties, `EveryMessageHandled` and
`SubmissionResolved` (the prover handles neither `ENABLED` nor fairness),
`BlocksMergeLikeUpdates` (a fold from an arbitrary state), and of
course the runs that expect a violation.

## 6. Bounds

`MaxTxns`, `SnapshotBy` (`BehavioralState`), `MaxLog`,
`MaxLives`, `MaxAmbiguous` (`StreamConsumer`), `MaxBuilt` (`DecisionPolicy`),
`MaxSaves` (`ModelRegistry`), `MaxCrashes` (`ApiService`), `Resets` (`ConcurrentEngine`), `Plans`, `NewTables` and
`MaxRevisions` (`ExperimentPipeline`) are guards that stop an environment from acting
for ever; none is in the code. `Threads` (the server's pool), `SliceSize`
(`SIMULATION_SIZE`) and `SampleRows` (5000) are the code's own limits, made small. Counters are Python integers and do not wrap.

## 7. Not modelled

* Floating-point rounding, other than where it decides a number of rows (the selections of
  `DecisionPolicy`, the cuts of `ExperimentData`): state statistics, a precision at exactly
  its target, the blocked-rate gate at exactly its tolerance. And everything whose content is
  numerics: encodings, LightGBM, anomaly models, SHAP, PSI and KS statistics; they
  appear as what they are computed from, as a severity, or as "returns or raises".
* NaN amounts and scores: validation and `decide` refuse them.
* The Redis TTL: `build_state_backend` never sets one. Redis persistence itself:
  its keys survive restarts of the engine's processes.
* A reset or reload that Redis interrupts half-way through several entities; in
  `ConcurrentEngine` the reset of one entity may fail at either command.
* Kafka rebalancing, several partitions or consumers: one partition, one consumer.
* `data/inspect_data.py` (read-only exploration whose output nothing reads),
  `evaluation/metrics.py` beyond its top-K selection, `complementarity.py`, plots,
  percentages and reports; histograms and latencies, Prometheus export, logging;
  the dashboard pages that only read; demo scripts that only call and print;
  Docker and Kubernetes files other than the two settings of a deployment.

## 8. Plan

Done, in this order: `OfflineFeatures`, `EntityState`, `BehavioralState` with its
refinement and proofs; `ConcurrentEngine` with its proofs; `StreamConsumer` with its proofs;
`DecisionPolicy` with its proofs; `ModelRegistry` with its proofs; `ApiService` with its proofs;
`ExperimentData` and `ExperimentPipeline` with their proofs; `PromotionGates` with its proofs.

Left:

1. Composition of `StreamConsumer` with the engine of `BehavioralState` in place of
   the `applied` counter, and of `PromotionGates` with `ModelRegistry`.
