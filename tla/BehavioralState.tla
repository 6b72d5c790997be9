--------------------------- MODULE BehavioralState ---------------------------
(***************************************************************************)
(* src/engine/state.py behind src/engine/risk_engine.py, one request at a  *)
(* time: BehavioralStateManager over either backend of                     *)
(* src/engine/state_backend.py, driven by process_transaction, the reset   *)
(* endpoint, process restarts (dependencies.build_engine) and              *)
(* serialize/load_serialized.                                              *)
(*                                                                         *)
(* `history` and `savedHistory` are history variables: the list of         *)
(* transactions the store stands for, which the code does not keep.        *)
(***************************************************************************)
EXTENDS EntityState

CONSTANTS
  Entities,       \* card1 values
  EventTimes,     \* TransactionDT values that occur
  AmountSet,      \* TransactionAmt values that pass validation
  BadAmounts,     \* ... and that _validate_transaction refuses
  NoResult,       \* the last step raised, or returns nothing
  History,        \* [Entities -> Seq(Txn)]: warm-start rows, sorted (DT, ID)
  Deployments,    \* the [backend, warm] environments explored
  InOrder,        \* TRUE: requests arrive in time order
  MaxTxns,        \* bound: transactions recorded, for cold and for warm starts
  SnapshotBy      \* bound: serialize() is called up to this event time

Deployment == [backend : {"memory", "redis"}, warm : BOOLEAN]

ASSUME BehavioralAssumption ==
  /\ EventTimes \subseteq Nat
  /\ AmountSet \subseteq Nat
  /\ BadAmounts \cap AmountSet = {}
  /\ History \in [Entities -> Seq(Txn)]
  /\ \A e \in Entities : \A i \in 1..Len(History[e]) : \A j \in i..Len(History[e]) :
        History[e][i].t <= History[e][j].t
  /\ Deployments \subseteq Deployment
  /\ InOrder \in BOOLEAN
  /\ MaxTxns \in [BOOLEAN -> Nat] /\ SnapshotBy \in Nat
  /\ Absent \notin EntityStates
  /\ NaN \notin Nat /\ NaN \notin [Entities -> Seq(Txn)]

VARIABLES
  deployment,     \* STATE_BACKEND and WARM_START_STATE, fixed for the run
  store,          \* what the backend holds: EntityState or Absent
  clock,          \* the latest event time any request carried
  reply,          \* the features the last step returned, or NoResult
  saved,          \* the last serialize() result, or NaN
  history,        \* the transactions store[e] is the summary of
  savedHistory    \* the transactions saved stands for, or NaN

vars == <<deployment, store, clock, reply, saved, history, savedHistory>>

EmptyStore == [e \in Entities |-> Absent]
NoHistory == [e \in Entities |-> <<>>]

----------------------------------------------------------------------------
(* Startup: build_engine(warm_start) *)

AsOf == Max({0} \cup UNION {{History[e][i].t : i \in DOMAIN History[e]} : e \in Entities})

GetOrCreate(s) == IF s = Absent THEN EmptyEntity ELSE s

\* The folds over a warm-start block are numbers and AsOf is its latest time.
ASSUME WarmStartAssumption ==
  /\ AsOf \in Nat
  /\ \A e \in Entities : LET b == History[e] IN
       /\ \A i \in 1..Len(b) : b[i].t <= AsOf
       /\ b # <<>> => /\ BlockSum(b) \in Int /\ BlockSqdev(b) \in Int
                      /\ Min({b[i].a : i \in DOMAIN b}) \in Nat
                      /\ Max({b[i].a : i \in DOMAIN b}) \in Nat

\* bulk_initialize groups the rows by entity: entities without rows stay untouched.
WarmStart(st) ==
  [e \in Entities |-> IF History[e] = <<>> THEN st[e]
                      ELSE BulkInitialize(GetOrCreate(st[e]), History[e], AsOf)]

Init == /\ deployment \in Deployments
        /\ store = IF deployment.warm THEN WarmStart(EmptyStore) ELSE EmptyStore
        /\ history = IF deployment.warm THEN History ELSE NoHistory
        /\ clock = AsOf
        /\ reply = NoResult
        /\ saved = NaN
        /\ savedHistory = NaN

----------------------------------------------------------------------------
(* process_transaction *)

\* A valid request's inputs; arrival order is the caller's business.
Request(e, t, a) == /\ e \in Entities /\ t \in EventTimes /\ a \in AmountSet
                    /\ InOrder => t >= clock
                    /\ MapThenSumSet(LAMBDA x : Len(history[x]), Entities) < MaxTxns[deployment.warm]

\* compute_features: with the memory backend the object it prunes IS the stored one.
AfterRead(e, t) ==
  IF deployment.backend = "memory" /\ store[e] # Absent
  THEN Prune(store[e], t) ELSE store[e]

Advance(t) == clock' = IF t > clock THEN t ELSE clock
Record(e, t, a) == history' = [history EXCEPT ![e] = Append(@, [t |-> t, a |-> a])]

\* Mutant of ProcessTransaction: state is updated before the features are computed.
UpdateThenPredict(e, t, a) ==
  /\ Request(e, t, a)
  /\ LET s == Update(GetOrCreate(AfterRead(e, t)), t, a)
     IN  /\ reply' = Features(s, t, a)
         /\ store' = [store EXCEPT ![e] = s]
  /\ Record(e, t, a)
  /\ Advance(t)
  /\ UNCHANGED <<deployment, saved, savedHistory>>

\* The whole request succeeds: features from the existing state, then update().
ProcessTransaction(e, t, a) ==
  /\ Request(e, t, a)
  /\ reply' = Features(store[e], t, a)
  /\ store' = [store EXCEPT ![e] = Update(GetOrCreate(AfterRead(e, t)), t, a)]
  /\ Record(e, t, a)
  /\ Advance(t)
  /\ UNCHANGED <<deployment, saved, savedHistory>>

\* _validate_transaction raises before anything is read.
RejectTransaction(a) ==
  /\ a \in BadAmounts
  /\ reply' = NoResult
  /\ UNCHANGED <<deployment, store, clock, saved, history, savedHistory>>

\* The pipeline, the model, the policy or the explainer raises after compute_features.
PipelineRaises(e, t, a) ==
  /\ Request(e, t, a)
  /\ reply' = NoResult
  /\ store' = [store EXCEPT ![e] = AfterRead(e, t)]
  /\ Advance(t)
  /\ UNCHANGED <<deployment, saved, history, savedHistory>>

\* Redis fails: on a get (nothing written), between the two puts of a first
\* update (an empty entity is left), or after the final put was applied.
StateBackendUnavailable(e, t, a) ==
  /\ Request(e, t, a)
  /\ deployment.backend = "redis"
  /\ reply' = NoResult
  /\ \/ UNCHANGED <<store, history>>
     \/ /\ store' = [store EXCEPT ![e] = GetOrCreate(@)]
        /\ UNCHANGED history
     \/ /\ store' = [store EXCEPT ![e] = Update(GetOrCreate(@), t, a)]
        /\ Record(e, t, a)
  /\ Advance(t)
  /\ UNCHANGED <<deployment, saved, savedHistory>>

----------------------------------------------------------------------------
(* Operations on the whole store *)

\* RiskDecisionEngine.reset_state -> backend.clear()
ResetState ==
  /\ store' = EmptyStore
  /\ history' = NoHistory
  /\ reply' = NoResult
  /\ UNCHANGED <<deployment, clock, saved, savedHistory>>

\* A new process: the memory dict is gone, Redis keys stay, and build_engine
\* warm-starts whatever it finds.  What a warm start onto surviving keys
\* should stand for is the history they already summarise.
Restart ==
  LET kept == deployment.backend = "redis"
      before == IF kept THEN store ELSE EmptyStore
      stands == IF kept THEN history ELSE NoHistory
  IN  /\ store' = IF deployment.warm THEN WarmStart(before) ELSE before
      /\ history' = IF deployment.warm /\ ~kept THEN History ELSE stands
      /\ reply' = NoResult
  /\ UNCHANGED <<deployment, clock, saved, savedHistory>>

\* serialize() copies every entity (list(recent_times)), so nothing is shared.
Serialize ==
  /\ clock <= SnapshotBy
  /\ saved' = store
  /\ savedHistory' = history
  /\ reply' = NoResult
  /\ UNCHANGED <<deployment, store, clock, history>>

\* load_serialized(): clear, then put each entity.
LoadSerialized ==
  /\ saved # NaN
  /\ store' = saved
  /\ history' = savedHistory
  /\ reply' = NoResult
  /\ UNCHANGED <<deployment, clock, saved, savedHistory>>

Next ==
  \/ \E e \in Entities, t \in EventTimes, a \in AmountSet :
       \/ ProcessTransaction(e, t, a)
       \/ PipelineRaises(e, t, a)
       \/ StateBackendUnavailable(e, t, a)
  \/ \E a \in BadAmounts : RejectTransaction(a)
  \/ ResetState
  \/ Restart
  \/ Serialize
  \/ LoadSerialized

Spec == Init /\ [][Next]_vars
----------------------------------------------------------------------------
(* Properties *)

NoneIffEmpty(s) == /\ s.min = NaN <=> s.count = 0
                   /\ s.max = NaN <=> s.count = 0
                   /\ s.last = NaN <=> s.count = 0

\* Types, and the fields that are None exactly while no transaction is recorded.
TypeOK ==
  /\ deployment \in Deployments
  /\ clock \in Nat
  /\ history \in [Entities -> Seq(Txn)]
  /\ store \in [Entities -> EntityStates \cup {Absent}]
  /\ \A e \in Entities : store[e] # Absent => NoneIffEmpty(store[e])

Sorted(h) == \A i \in 1..Len(h) : \A j \in i..Len(h) : h[i].t <= h[j].t

\* The entity state s is the summary of the transactions h at time `now`: it
\* counts them all, ends at the newest, and its deque is the tail of their
\* times, everything missing from it being older than the 24h window.
Summarises(s, h, now) ==
  IF s = Absent THEN h = <<>>
  ELSE LET cut == Len(h) - Len(s.recent)
       IN  /\ s.count = Len(h)
           /\ h # <<>> => s.last = h[Len(h)].t
           /\ cut >= 0
           /\ \A j \in 1..Len(s.recent) : s.recent[j] = h[cut + j].t
           /\ \A i \in 1..cut : h[i].t < now - Day

\* Whatever the interleaving of requests, failed requests, resets, restarts
\* and reloads, every stored entity is the exact summary of the transactions
\* recorded for it (EntityState's own contract, engine/state.py:92-100).
StoreSummarisesHistory ==
  \A e \in Entities : /\ Sorted(history[e])
                      /\ \A i \in 1..Len(history[e]) : history[e][i].t <= clock
                      /\ Summarises(store[e], history[e], clock)

\* state.py:288-295: count, mean and variance stay consistent
\* "regardless of how many times bulk_initialize()/update() are interleaved".
\* From every state a store reaches, the historical block merged at once leaves
\* the statistics that its transactions recorded one by one would leave.  (Only
\* the deque may differ: the block's expired times are never appended.)
BlocksMergeLikeUpdates ==
  \A e \in Entities :
    LET s == GetOrCreate(store[e])
        atOnce == BulkInitialize(s, History[e], AsOf)
        oneByOne == FoldLeft(LAMBDA acc, x : Incorporate(acc, x.t, x.a), s, History[e])
    IN  [oneByOne EXCEPT !.recent = atOnce.recent] = atOnce

\* risk_engine.py:22-27: an exception before step 10 "prevents state from being
\* touched at all".  Whatever the time and amount of the next transaction, its
\* features are those it would have had without the failed request.
FailedRequestIsInvisible ==
  [][\A e \in Entities, t \in EventTimes, a \in AmountSet :
       PipelineRaises(e, t, a) =>
         \A u \in EventTimes, b \in AmountSet :
           Features(store'[e], u, b) = Features(store[e], u, b)]_vars

\* The online features ARE the offline ones (engine/parity.py's claim): every
\* reply is what behavioral.py computes from the full list of earlier
\* transactions, for either backend and any warm start.
Offline == INSTANCE OfflineFeatures WITH saved <- savedHistory

OnlineMatchesOffline == Offline!Spec

==============================================================================
