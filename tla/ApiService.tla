------------------------------ MODULE ApiService ------------------------------
(***************************************************************************)
(* The HTTP service (src/api/main.py, dependencies.py) with the metrics    *)
(* and the drift monitor it feeds (src/monitoring, src/drift), called by   *)
(* API clients and by the dashboard's Live Scoring page, which scores with *)
(* a local engine whenever it gets no good answer in time.                 *)
(*                                                                         *)
(* A request is received, waits for a thread of the pool that runs the     *)
(* sync routes, runs, is mapped to a status by an exception handler, and   *)
(* is counted by the middleware.  Entities, features and what concurrent   *)
(* updates do to each other are BehavioralState's and ConcurrentEngine's;  *)
(* here the store is only which transactions have been counted in it.      *)
(* The process starts cold (WARM_START_STATE=false, as in the container).  *)
(***************************************************************************)
EXTENDS Integers, FiniteSets, FiniteSetsExt

CONSTANTS
  Forms,        \* transactions submitted in the dashboard, each posted to /predict
  Calls,        \* requests of other API clients
  Uses,         \* Uses[c]: the routes the request c may be sent to
  Shown,        \* the severities a feature of a posted batch may show
  Deployments,  \* [store, explainer, profile]: how the service may be configured
  Threads,      \* bound: size of the thread pool
  MaxCrashes,   \* bound: crashes of the service
  None

Requests == Forms \cup Calls

\* The routes of the API, the read-only ones under one name.
Routes == {"predict", "explain", "analyze", "reset", "read"}
Scoring == {"predict", "explain"}

\* src/drift/detectors.py: SEVERITY_ORDER, weakest to strongest.
Severities == 0..3

ASSUME ApiAssumption ==
  /\ Deployments \subseteq
       [store : {"memory", "redis"}, explainer : BOOLEAN, profile : BOOLEAN]
  /\ Uses \in [Calls -> SUBSET Routes]
  /\ Shown \subseteq Severities
  /\ Threads \in Nat \ {0}
  /\ MaxCrashes \in Nat
  /\ Forms \cap Calls = {}
  /\ None \notin Requests
  /\ IsFiniteSet(Requests)

\* What a request comes to; the first three are answered by their own route,
\* the others are exceptions.
Refusals == {"no_explanation", "no_profile", "no_records"}
Exceptions == {"invalid", "backend", "runtime", "other"}
Outcomes == {"none", "ok", "schema"} \cup Refusals \cup Exceptions

\* The status the client sees: HTTPException's own, or its handler's.
Status(outcome) ==
  CASE outcome = "ok" -> 200
    [] outcome \in {"schema", "invalid", "no_records"} -> 422
    [] outcome \in {"backend", "runtime", "no_profile", "no_explanation"} -> 503
    [] outcome = "other" -> 500

VARIABLES
  conf,      \* the deployment
  up,        \* is the service running?
  crashes,   \* how often it has crashed
  route,     \* the route of each request
  stage,     \* where each request is
  outcome,   \* what it has come to
  metrics,   \* the MetricsRegistry
  drift,     \* the DriftMonitor: analyzed, severity counts, latest report
  level,     \* the severity of each analysed batch
  before,    \* for each analysis, those already published when it began (history)
  published, \* the analyses whose report has been published (history)
  api,       \* the transaction of each request in the API's store: "no", "yes", "gone"
  page,      \* where the dashboard is with each form
  why,       \* why it turned to the local engine: None, "unreachable", "unanswered",
             \*   or "refused" (history)
  local      \* the transaction of each form in the local engine's store

request == <<route, stage, outcome>>
monitor == <<drift, level, before, published>>
dashboard == <<page, why, local>>
vars == <<conf, up, crashes, request, metrics, monitor, api, dashboard>>

\* prediction_attempts ... by_status_class; decision_counts, the risk scores
\* and the latencies move with `successes` and are left out.
NoMetrics == [attempts |-> 0, successes |-> 0, failures |-> 0, schema |-> 0,
              uninitialized |-> 0, internal |-> 0, explained |-> 0, lookups |-> 0,
              total |-> 0, class |-> [c \in {2, 4, 5} |-> 0]]

NoDrift == [analyzed |-> 0, counts |-> [s \in Severities |-> 0], latest |-> None]

Init == /\ conf \in Deployments
        /\ up = TRUE /\ crashes = 0
        /\ route = [r \in Requests |-> IF r \in Forms THEN "predict" ELSE "read"]
        /\ stage = [r \in Requests |-> "idle"]
        /\ outcome = [r \in Requests |-> "none"]
        /\ metrics = NoMetrics
        /\ drift = NoDrift
        /\ level = [c \in Calls |-> 0]
        /\ before = [c \in Calls |-> {}]
        /\ published = {}
        /\ api = [r \in Requests |-> "no"]
        /\ page = [f \in Forms |-> "form"]
        /\ why = [f \in Forms |-> None]
        /\ local = [f \in Forms |-> "no"]

----------------------------------------------------------------------------
(* Receiving a request *)

Running == {r \in Requests : stage[r] \in {"running", "scored", "computed"}}

Goto(r, s) == stage' = [stage EXCEPT ![r] = s]
Becomes(r, o) == outcome' = [outcome EXCEPT ![r] = o]
Bump(field) == metrics' = [metrics EXCEPT ![field] = @ + 1]

\* MetricsRegistry.record_request: one request of this status, under the lock.
Counted(m, status) ==
  [m EXCEPT !.total = @ + 1, !.class[status \div 100] = @ + 1]

\* An API client calls a route.
Call(c) ==
  /\ up /\ stage[c] = "idle"
  /\ \E k \in Uses[c] : route' = [route EXCEPT ![c] = k]
  /\ Goto(c, "queued")
  /\ UNCHANGED <<conf, up, crashes, outcome, metrics, monitor, api, dashboard>>

\* RequestValidationError: the body never reaches the route.  The form only
\* produces valid transactions.
RejectSchema(c) ==
  /\ up /\ stage[c] = "queued" /\ route[c] \in Scoring \cup {"analyze"}
  /\ Becomes(c, "schema")
  /\ Goto(c, "replying")
  /\ Bump("schema")
  /\ UNCHANGED <<conf, up, crashes, route, monitor, api, dashboard>>

\* Mutant of Begin: the schema has been checked, the attempt is not recorded.
BeginUnrecorded(r) ==
  /\ up /\ stage[r] = "queued" /\ Cardinality(Running) < Threads
  /\ Goto(r, "running")
  /\ before' = IF route[r] = "analyze" THEN [before EXCEPT ![r] = published] ELSE before
  /\ UNCHANGED <<conf, up, crashes, route, outcome, metrics, drift, level, published, api,
                 dashboard>>

\* A thread of the pool takes the request; /predict and /predict/explain
\* record the attempt first.
Begin(r) ==
  /\ up /\ stage[r] = "queued" /\ Cardinality(Running) < Threads
  /\ Goto(r, "running")
  /\ metrics' = IF route[r] \in Scoring THEN [metrics EXCEPT !.attempts = @ + 1] ELSE metrics
  /\ before' = IF route[r] = "analyze" THEN [before EXCEPT ![r] = published] ELSE before
  /\ UNCHANGED <<conf, up, crashes, route, outcome, drift, level, published, api, dashboard>>

----------------------------------------------------------------------------
(* The routes *)

\* An exception leaves the route.
Raise(r, e) == /\ Becomes(r, e)
               /\ Goto(r, "raised")

\* Mutant of Score: the state is updated before the model is called.
ScoreAfterUpdate(r) ==
  /\ up /\ stage[r] = "running" /\ route[r] \in Scoring
  /\ \/ /\ api' = [api EXCEPT ![r] = "yes"]
        /\ Goto(r, "scored") /\ UNCHANGED outcome
     \/ /\ \E e \in {"runtime", "other"} : Raise(r, e)
        /\ api' = [api EXCEPT ![r] = "yes"]
     \/ /\ r \in Calls /\ Raise(r, "invalid")
        /\ UNCHANGED api
     \/ /\ conf.store = "redis"
        /\ \E a \in {"no", "yes"} : api' = [api EXCEPT ![r] = a]
        /\ Raise(r, "backend")
  /\ UNCHANGED <<conf, up, crashes, route, metrics, monitor, dashboard>>

\* engine.process_transaction: validate, read the state, predict, explain, and
\* update last.  The pipeline, the model or the explainer may raise; so may
\* Redis, on the read or on a write it applied or not.
Score(r) ==
  /\ up /\ stage[r] = "running" /\ route[r] \in Scoring
  /\ \/ /\ api' = [api EXCEPT ![r] = "yes"]
        /\ Goto(r, "scored") /\ UNCHANGED outcome
     \/ /\ \E e \in {"runtime", "other"} : Raise(r, e)
        /\ UNCHANGED api
     \/ /\ r \in Calls /\ Raise(r, "invalid")
        /\ UNCHANGED api
     \/ /\ conf.store = "redis"
        /\ \E a \in {"no", "yes"} : api' = [api EXCEPT ![r] = a]
        /\ Raise(r, "backend")
  /\ UNCHANGED <<conf, up, crashes, route, metrics, monitor, dashboard>>

\* Mutant of RecordSuccess: the 503 is raised before the success is recorded.
RefuseFirst(r) ==
  /\ up /\ stage[r] = "scored"
  /\ LET explained == route[r] = "explain" /\ conf.explainer IN
     /\ metrics' = IF route[r] = "explain" /\ ~explained THEN metrics
                   ELSE [metrics EXCEPT !.successes = @ + 1,
                                   !.explained = @ + IF explained THEN 1 ELSE 0]
     /\ Becomes(r, IF route[r] = "explain" /\ ~explained THEN "no_explanation" ELSE "ok")
  /\ Goto(r, "replying")
  /\ UNCHANGED <<conf, up, crashes, route, monitor, api, dashboard>>

\* record_prediction_success, record_explanation, and the answer:
\* /predict/explain refuses now when no explainer is configured.
RecordSuccess(r) ==
  /\ up /\ stage[r] = "scored"
  /\ LET explained == route[r] = "explain" /\ conf.explainer IN
     /\ metrics' = [metrics EXCEPT !.successes = @ + 1,
                                   !.explained = @ + IF explained THEN 1 ELSE 0]
     /\ Becomes(r, IF route[r] = "explain" /\ ~explained THEN "no_explanation" ELSE "ok")
  /\ Goto(r, "replying")
  /\ UNCHANGED <<conf, up, crashes, route, monitor, api, dashboard>>

\* aggregate_overall_severity: the worst monitored feature wins, and a batch
\* without any monitored column shows no drift.
WorstOf(severities) == IF severities = {} THEN 0 ELSE Max(severities)

\* POST /drift/analyze up to the report: everything outside the lock.
Analyze(c) ==
  /\ up /\ stage[c] = "running" /\ route[c] = "analyze"
  /\ \/ /\ ~conf.profile
        /\ Becomes(c, "no_profile") /\ Goto(c, "replying")
        /\ UNCHANGED level
     \/ /\ conf.profile
        /\ Becomes(c, "no_records") /\ Goto(c, "replying")
        /\ UNCHANGED level
     \/ /\ conf.profile /\ Raise(c, "other")     \* a column that is not numeric
        /\ UNCHANGED level
     \/ /\ conf.profile
        /\ \E severities \in SUBSET Shown : level' = [level EXCEPT ![c] = WorstOf(severities)]
        /\ Goto(c, "computed")
        /\ UNCHANGED outcome
  /\ UNCHANGED <<conf, up, crashes, route, metrics, drift, before, published, api, dashboard>>

\* The answer with the report, unless rendering it raises: a distance that is
\* infinite or not a number has no JSON.
Answer(c) ==
  \/ Becomes(c, "ok") /\ Goto(c, "replying")
  \/ Raise(c, "other")

\* Mutant of Publish: the monitor keeps the worst report, not the last one.
PublishWorst(c) ==
  /\ up /\ stage[c] = "computed"
  /\ drift' = [analyzed |-> drift.analyzed + 1,
               counts |-> [drift.counts EXCEPT ![level[c]] = @ + 1],
               latest |-> IF drift.latest # None /\ level[drift.latest] > level[c]
                          THEN drift.latest ELSE c]
  /\ published' = published \cup {c}
  /\ Answer(c)
  /\ UNCHANGED <<conf, up, crashes, route, metrics, level, before, api, dashboard>>

\* ... and the publication of the report, under it, before it is answered.
Publish(c) ==
  /\ up /\ stage[c] = "computed"
  /\ drift' = [analyzed |-> drift.analyzed + 1,
               counts |-> [drift.counts EXCEPT ![level[c]] = @ + 1],
               latest |-> c]
  /\ published' = published \cup {c}
  /\ Answer(c)
  /\ UNCHANGED <<conf, up, crashes, route, metrics, level, before, api, dashboard>>

\* Every transaction a store held is gone.
Emptied(store) == [r \in DOMAIN store |-> IF store[r] = "yes" THEN "gone" ELSE store[r]]

\* engine.reset_state -> backend.clear; a Redis that both processes use holds
\* the local engine's transactions too.  Redis may fail before or after it.
ResetState(c) ==
  /\ up /\ stage[c] = "running" /\ route[c] = "reset"
  /\ \/ /\ api' = Emptied(api)
        /\ local' = IF conf.store = "redis" THEN Emptied(local) ELSE local
        /\ \/ Becomes(c, "ok") /\ Goto(c, "replying")
           \/ conf.store = "redis" /\ Raise(c, "backend")
     \/ /\ conf.store = "redis" /\ Raise(c, "backend")
        /\ UNCHANGED <<api, local>>
  /\ UNCHANGED <<conf, up, crashes, route, metrics, monitor, page, why>>

\* /health, /metadata, /metrics, the summaries: nothing but the answer.
Read(c) ==
  /\ up /\ stage[c] = "running" /\ route[c] = "read"
  /\ Becomes(c, "ok") /\ Goto(c, "replying")
  /\ UNCHANGED <<conf, up, crashes, route, metrics, monitor, api, dashboard>>

----------------------------------------------------------------------------
(* Exception handlers and middleware *)

\* Mutant of Handle: a lost backend has no handler of its own, and falls to
\* the handler of RuntimeError, its base class.
HandleAsRuntimeError(r) ==
  /\ up /\ stage[r] = "raised" /\ outcome[r] # "other"
  /\ Bump(IF outcome[r] = "invalid" THEN "failures" ELSE "uninitialized")
  /\ Goto(r, "replying")
  /\ UNCHANGED <<conf, up, crashes, route, outcome, monitor, api, dashboard>>

\* Mutant of Handle: an attempt cut short by a lost backend is taken back; the
\* handler serves every route, and /dev/reset-state has recorded no attempt.
HandleTakingBack(r) ==
  /\ up /\ stage[r] = "raised" /\ outcome[r] # "other"
  /\ metrics' = CASE outcome[r] = "invalid" -> [metrics EXCEPT !.failures = @ + 1]
                  [] outcome[r] = "backend" -> [metrics EXCEPT !.lookups = @ + 1,
                                                               !.attempts = @ - 1]
                  [] outcome[r] = "runtime" -> [metrics EXCEPT !.uninitialized = @ + 1]
  /\ Goto(r, "replying")
  /\ UNCHANGED <<conf, up, crashes, route, outcome, monitor, api, dashboard>>

\* The handlers of TransactionValidationError, StateBackendUnavailableError
\* and RuntimeError answer inside the middleware.
Handle(r) ==
  /\ up /\ stage[r] = "raised" /\ outcome[r] # "other"
  /\ Bump(CASE outcome[r] = "invalid" -> "failures"
            [] outcome[r] = "backend" -> "lookups"
            [] outcome[r] = "runtime" -> "uninitialized")
  /\ Goto(r, "replying")
  /\ UNCHANGED <<conf, up, crashes, route, outcome, monitor, api, dashboard>>

\* Any other exception passes the middleware, which counts a 500 ...
PassUnhandled(r) ==
  /\ up /\ stage[r] = "raised" /\ outcome[r] = "other"
  /\ metrics' = Counted(metrics, 500)
  /\ Goto(r, "unhandled")
  /\ UNCHANGED <<conf, up, crashes, route, outcome, monitor, api, dashboard>>

\* ... and reaches the handler of Exception outside it.
HandleUnexpected(r) ==
  /\ up /\ stage[r] = "unhandled"
  /\ Bump("internal")
  /\ Goto(r, "answered")
  /\ UNCHANGED <<conf, up, crashes, route, outcome, monitor, api, dashboard>>

\* The middleware counts the response and passes it on.
Reply(r) ==
  /\ up /\ stage[r] = "replying"
  /\ metrics' = Counted(metrics, Status(outcome[r]))
  /\ Goto(r, "answered")
  /\ UNCHANGED <<conf, up, crashes, route, outcome, monitor, api, dashboard>>

----------------------------------------------------------------------------
(* The process *)

\* The process dies with its metrics, its reports and the memory store; what
\* was answered stays answered ("old"), the rest is lost.
Crash ==
  /\ up /\ crashes < MaxCrashes
  /\ up' = FALSE /\ crashes' = crashes + 1
  /\ stage' = [r \in Requests |-> CASE stage[r] = "idle"              -> "idle"
                                    [] stage[r] \in {"answered", "old"} -> "old"
                                    [] OTHER                          -> "lost"]
  /\ api' = IF conf.store = "memory" THEN Emptied(api) ELSE api
  /\ UNCHANGED <<conf, route, outcome, metrics, monitor, dashboard>>

\* lifespan: a new engine, a fresh MetricsRegistry, a new DriftMonitor.
Start ==
  /\ ~up /\ up' = TRUE
  /\ metrics' = NoMetrics
  /\ drift' = NoDrift
  /\ UNCHANGED <<conf, crashes, request, level, before, published, api, dashboard>>

----------------------------------------------------------------------------
(* The dashboard's Live Scoring page *)

Show(f, p) == page' = [page EXCEPT ![f] = p] /\ UNCHANGED why

\* `result is None`: the local engine is next.
FallBack(f, reason) == /\ page' = [page EXCEPT ![f] = "local"]
                       /\ why' = [why EXCEPT ![f] = reason]

\* check_api: GET /health is answered in time, and counted, or it is not.
CheckApi(f) ==
  /\ page[f] = "form"
  /\ \/ /\ up /\ Cardinality(Running) < Threads
        /\ metrics' = Counted(metrics, 200)
        /\ Show(f, "post")
     \/ FallBack(f, "unreachable") /\ UNCHANGED metrics
  /\ UNCHANGED <<conf, up, crashes, request, monitor, api, local>>

\* api_client.predict
Post(f) ==
  /\ page[f] = "post"
  /\ IF up THEN Goto(f, "queued") /\ Show(f, "waiting")
           ELSE UNCHANGED stage /\ FallBack(f, "unreachable")
  /\ UNCHANGED <<conf, up, crashes, route, outcome, metrics, monitor, api, local>>

\* The answer arrives: a 200 is shown, anything else goes to the local engine.
ReadAnswer(f) ==
  /\ page[f] = "waiting" /\ stage[f] \in {"answered", "old"}
  /\ IF Status(outcome[f]) = 200 THEN Show(f, "shown_api") ELSE FallBack(f, "refused")
  /\ UNCHANGED <<conf, up, crashes, request, metrics, monitor, api, local>>

\* Mutant of GiveUp: no timeout is passed to requests.post.
GiveUpOnError(f) ==
  /\ page[f] = "waiting" /\ stage[f] = "lost"
  /\ FallBack(f, "unanswered")
  /\ UNCHANGED <<conf, up, crashes, request, metrics, monitor, api, local>>

\* RequestException: the connection broke, or the timeout of 5 s is over while
\* the service goes on with the request.
GiveUp(f) ==
  /\ page[f] = "waiting" /\ stage[f] \notin {"answered", "old"}
  /\ FallBack(f, "unanswered")
  /\ UNCHANGED <<conf, up, crashes, request, metrics, monitor, api, local>>

\* score_transaction_locally: the same engine code on the dashboard's own
\* memory, or on the Redis it shares with the service.  Building the engine
\* or scoring may raise, with Redis also after the write.
ScoreLocally(f) ==
  /\ page[f] = "local"
  /\ \/ /\ local' = [local EXCEPT ![f] = "yes"]
        /\ Show(f, "shown_local")
     \/ /\ Show(f, "failed")
        /\ \E a \in {"no", "yes"} : /\ a = "yes" => conf.store = "redis"
                                    /\ local' = [local EXCEPT ![f] = a]
  /\ UNCHANGED <<conf, up, crashes, request, metrics, monitor, api>>

----------------------------------------------------------------------------

Serve(r) ==
  \/ Begin(r) \/ Score(r) \/ RecordSuccess(r)
  \/ Handle(r) \/ PassUnhandled(r) \/ HandleUnexpected(r) \/ Reply(r)

ServeCall(c) ==
  Call(c) \/ RejectSchema(c) \/ Analyze(c) \/ Publish(c) \/ ResetState(c) \/ Read(c)

Visit(f) == CheckApi(f) \/ Post(f) \/ ReadAnswer(f) \/ GiveUp(f)

Next ==
  \/ \E r \in Requests : Serve(r)
  \/ \E c \in Calls : ServeCall(c)
  \/ \E f \in Forms : Visit(f) \/ ScoreLocally(f)
  \/ Crash \/ Start

\* The page's script runs on once it is submitted; its own engine ends every
\* call when its state is in memory.  The service may stall for ever.
Fairness ==
  \A f \in Forms : /\ WF_vars(Visit(f))
                   /\ WF_vars(conf.store = "memory" /\ ScoreLocally(f))

Spec == Init /\ [][Next]_vars /\ Fairness

----------------------------------------------------------------------------
(* Properties *)

\* The requests the current process has received.
Here(r) == up /\ stage[r] \notin {"idle", "lost", "old"}

Stages == {"idle", "queued", "running", "scored", "computed", "raised", "unhandled",
           "replying", "answered", "old", "lost"}

Metrics == [attempts : Nat, successes : Nat, failures : Nat, schema : Nat,
            uninitialized : Nat, internal : Nat, explained : Nat, lookups : Nat,
            total : Nat, class : [{2, 4, 5} -> Nat]]

TypeOK ==
  /\ conf \in Deployments
  /\ up \in BOOLEAN /\ crashes \in 0..MaxCrashes
  /\ route \in [Requests -> Routes]
  /\ stage \in [Requests -> Stages]
  /\ outcome \in [Requests -> Outcomes]
  /\ metrics \in Metrics
  /\ drift \in [analyzed : Nat, counts : [Severities -> Nat], latest : Calls \cup {None}]
  /\ level \in [Calls -> Severities]
  /\ before \in [Calls -> SUBSET Calls]
  /\ published \subseteq Calls
  /\ api \in [Requests -> {"no", "yes", "gone"}]
  /\ local \in [Forms -> {"no", "yes", "gone"}]
  /\ page \in [Forms -> {"form", "post", "waiting", "local", "shown_api", "shown_local", "failed"}]
  /\ why \in [Forms -> {None, "unreachable", "unanswered", "refused"}]

\* Every recorded attempt is a success, a failure, still in the engine, or one
\* the counters lose: a 503 or a 500 raised by the engine is in neither
\* counter (metrics.py calls failures "validation/processing failures").
AttemptsAccounted ==
  up => metrics.attempts = metrics.successes + metrics.failures + Cardinality(
          {r \in Requests : /\ Here(r) /\ route[r] \in Scoring
                            /\ \/ stage[r] \in {"running", "scored"}
                               \/ outcome[r] \in {"backend", "runtime", "other"}
                               \/ (outcome[r] = "invalid" /\ stage[r] = "raised")})

\* Whenever no response is on its way, the statuses the middleware has seen
\* are explained by the counters of the handlers and the routes' own
\* refusals: no error is counted twice, under another name, or not at all.
StatusesExplained ==
  LET Pending == {r \in Requests : stage[r] \in {"raised", "unhandled", "replying"}}
      Came(O) == Cardinality({r \in Requests : Here(r) /\ outcome[r] \in O})
      Lost == {r \in Requests : Here(r) /\ outcome[r] = "backend"}
  IN up /\ Pending = {} =>
       /\ metrics.class[4] = metrics.schema + metrics.failures + Came({"no_records"})
       /\ metrics.class[5] = metrics.uninitialized + metrics.lookups + metrics.internal
                             + Came({"no_profile", "no_explanation"})
       /\ metrics.lookups = Cardinality(Lost)

\* The answer to a scoring request tells whether its transaction is in the
\* state: always after a 200 and after the 503 of a missing explainer, never
\* after a 422, a 500 or the 503 of a RuntimeError.  Only the 503 of a lost
\* backend leaves it open.
AnswerTellsState ==
  \A r \in Requests :
    stage[r] \in {"replying", "answered", "old"} /\ route[r] \in Scoring =>
      CASE outcome[r] \in {"ok", "no_explanation"} -> api[r] # "no"
        [] outcome[r] = "backend"                  -> TRUE
        [] OTHER                                   -> api[r] = "no"

\* The dashboard can count one submission twice, in the service's engine and
\* in its own; it does so only after it gave up waiting for an answer or read
\* the 503 of a lost backend, never after an unreachable service, a 422, a
\* 500 or an answer it has shown.
CountedTwiceOnlyIfInDoubt ==
  \A f \in Forms :
    api[f] # "no" /\ local[f] # "no" =>
      why[f] = "unanswered" \/ outcome[f] = "backend"

\* The monitor's totals are those of the published reports, and the report
\* the summary calls the latest is never older than one whose analysis began
\* after it was published, although analyses that overlap publish in any order.
DriftSummaryConsistent ==
  LET Published == {c \in published : Here(c)}
  IN up => /\ drift.analyzed = Cardinality(Published)
           /\ \A s \in Severities :
                drift.counts[s] = Cardinality({c \in Published : level[c] = s})
           /\ drift.latest \in IF Published = {} THEN {None} ELSE Published
           /\ \A c \in Published : drift.latest \notin before[c]

\* Every submission ends in a score or an error, even if the service stalls
\* for ever.  With Redis the local engine may stall as well: its client has a
\* timeout for connecting and none for reading.
SubmissionResolved ==
  \A f \in Forms :
    page[f] = "post" ~> \/ page[f] \in {"shown_api", "shown_local", "failed"}
                       \/ (conf.store = "redis" /\ page[f] = "local")
=============================================================================
