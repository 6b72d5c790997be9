--------------------------- MODULE ApiServiceProofs ---------------------------
(***************************************************************************)
(* ApiService, for every set of forms and calls, every deployment, size of *)
(* the thread pool and number of crashes: what an answer tells its client  *)
(* about the state, when the dashboard can count a submission twice, and   *)
(* that the counters account for every attempt, every response and every   *)
(* drift report.                                                           *)
(***************************************************************************)
EXTENDS ApiService, FiniteSetTheorems, TLAPS

----------------------------------------------------------------------------
(* Types *)

RequestTypes ==
  /\ conf \in Deployments
  /\ up \in BOOLEAN /\ crashes \in 0..MaxCrashes
  /\ route \in [Requests -> Routes]
  /\ stage \in [Requests -> Stages]
  /\ outcome \in [Requests -> Outcomes]

MonitorTypes ==
  /\ drift \in [analyzed : Nat, counts : [Severities -> Nat], latest : Calls \cup {None}]
  /\ level \in [Calls -> Severities]
  /\ before \in [Calls -> SUBSET Calls]
  /\ published \subseteq Calls

StoreTypes ==
  /\ api \in [Requests -> {"no", "yes", "gone"}]
  /\ local \in [Forms -> {"no", "yes", "gone"}]
  /\ page \in [Forms -> {"form", "post", "waiting", "local", "shown_api", "shown_local", "failed"}]
  /\ why \in [Forms -> {None, "unreachable", "unanswered", "refused"}]

LEMMA TypeParts ==
  TypeOK <=> RequestTypes /\ metrics \in Metrics /\ MonitorTypes /\ StoreTypes
BY DEF TypeOK, RequestTypes, MonitorTypes, StoreTypes

LEMMA InitTypes ==
  ASSUME Init
  PROVE  TypeOK
<1>1. RequestTypes
  BY ApiAssumption DEF Init, RequestTypes, Routes, Stages, Outcomes
<1>2. metrics \in Metrics
  BY DEF Init, NoMetrics, Metrics
<1>3. MonitorTypes
  BY DEF Init, NoDrift, MonitorTypes, Severities
<1>4. StoreTypes
  BY DEF Init, StoreTypes
<1> QED BY <1>1, <1>2, <1>3, <1>4, TypeParts

(* A request that comes to an outcome at a stage.                          *)
LEMMA RequestSteps ==
  ASSUME RequestTypes, NEW r \in Requests, NEW s \in Stages
  PROVE  /\ Goto(r, s) => stage' \in [Requests -> Stages]
         /\ \A o \in Outcomes : Becomes(r, o) => outcome' \in [Requests -> Outcomes]
BY DEF RequestTypes, Goto, Becomes

LEMMA SomeStages ==
  /\ {"queued", "running", "scored", "computed", "raised", "unhandled", "replying",
      "answered"} \subseteq Stages
  /\ {"ok", "schema", "no_explanation", "no_profile", "no_records", "invalid", "backend",
      "runtime", "other"} \subseteq Outcomes
BY DEF Stages, Outcomes, Refusals, Exceptions

LEMMA NextRequestTypes ==
  ASSUME RequestTypes, [Next]_vars
  PROVE  RequestTypes'
<1>s. Calls \subseteq Requests /\ Forms \subseteq Requests
  BY DEF Requests
<1>a. ASSUME UNCHANGED <<conf, up, crashes, route>>,
             stage' \in [Requests -> Stages], outcome' \in [Requests -> Outcomes]
      PROVE  RequestTypes'
  BY <1>a DEF RequestTypes
<1>b. stage \in [Requests -> Stages] /\ outcome \in [Requests -> Outcomes]
  BY DEF RequestTypes
<1> USE DEF request, monitor, dashboard
<1>1. ASSUME NEW r \in Requests, Begin(r) PROVE RequestTypes'
  BY <1>1, <1>a, <1>b, SomeStages, RequestSteps DEF Begin
<1>2. ASSUME NEW r \in Requests, Score(r) PROVE RequestTypes'
  BY <1>2, <1>a, <1>b, SomeStages, RequestSteps DEF Score, Raise
<1>3. ASSUME NEW r \in Requests, RecordSuccess(r) PROVE RequestTypes'
  BY <1>3, <1>a, <1>b, SomeStages, RequestSteps DEF RecordSuccess
<1>4. ASSUME NEW r \in Requests, Handle(r) PROVE RequestTypes'
  BY <1>4, <1>a, <1>b, SomeStages, RequestSteps DEF Handle
<1>5. ASSUME NEW r \in Requests, PassUnhandled(r) PROVE RequestTypes'
  BY <1>5, <1>a, <1>b, SomeStages, RequestSteps DEF PassUnhandled
<1>6. ASSUME NEW r \in Requests, HandleUnexpected(r) PROVE RequestTypes'
  BY <1>6, <1>a, <1>b, SomeStages, RequestSteps DEF HandleUnexpected
<1>7. ASSUME NEW r \in Requests, Reply(r) PROVE RequestTypes'
  BY <1>7, <1>a, <1>b, SomeStages, RequestSteps DEF Reply
<1>8. ASSUME NEW c \in Calls, Call(c) PROVE RequestTypes'
  BY <1>8, <1>s, <1>b, SomeStages, RequestSteps, ApiAssumption DEF Call, RequestTypes
<1>9. ASSUME NEW c \in Calls, RejectSchema(c) PROVE RequestTypes'
  BY <1>9, <1>s, <1>a, <1>b, SomeStages, RequestSteps DEF RejectSchema
<1>10. ASSUME NEW c \in Calls, Analyze(c) PROVE RequestTypes'
  BY <1>10, <1>s, <1>a, <1>b, SomeStages, RequestSteps DEF Analyze, Raise
<1>11. ASSUME NEW c \in Calls, Publish(c) PROVE RequestTypes'
  BY <1>11, <1>s, <1>a, <1>b, SomeStages, RequestSteps DEF Publish, Answer, Raise
<1>12. ASSUME NEW c \in Calls, ResetState(c) PROVE RequestTypes'
  BY <1>12, <1>s, <1>a, <1>b, SomeStages, RequestSteps DEF ResetState, Raise
<1>13. ASSUME NEW c \in Calls, Read(c) PROVE RequestTypes'
  BY <1>13, <1>s, <1>a, <1>b, SomeStages, RequestSteps DEF Read
<1>14. ASSUME NEW f \in Forms, CheckApi(f) PROVE RequestTypes'
  BY <1>14, <1>a, <1>b, SomeStages, RequestSteps DEF CheckApi
<1>15. ASSUME NEW f \in Forms, Post(f) PROVE RequestTypes'
  BY <1>15, <1>s, <1>a, <1>b, SomeStages, RequestSteps DEF Post
<1>16. ASSUME NEW f \in Forms, ReadAnswer(f) PROVE RequestTypes'
  BY <1>16, <1>a, <1>b, SomeStages, RequestSteps DEF ReadAnswer
<1>17. ASSUME NEW f \in Forms, GiveUp(f) PROVE RequestTypes'
  BY <1>17, <1>a, <1>b, SomeStages, RequestSteps DEF GiveUp
<1>18. ASSUME NEW f \in Forms, ScoreLocally(f) PROVE RequestTypes'
  BY <1>18, <1>a, <1>b, SomeStages, RequestSteps DEF ScoreLocally
<1>19. CASE Crash
  <2>1. \A r \in Requests : stage'[r] \in {"idle", "old", "lost"}
    BY <1>19 DEF Crash
  <2>2. DOMAIN stage' = Requests /\ stage' = [r \in Requests |-> stage'[r]]
    BY <1>19 DEF Crash
  <2>3. stage' \in [Requests -> Stages]
    BY <2>1, <2>2 DEF Stages
  <2>4. crashes' \in 0..MaxCrashes /\ up' \in BOOLEAN
    <3>1. crashes < MaxCrashes /\ crashes' = crashes + 1 /\ up' = FALSE
      BY <1>19 DEF Crash
    <3>2. crashes + 1 \in 0..MaxCrashes
      BY <3>1, ApiAssumption DEF RequestTypes
    <3> QED BY <3>1, <3>2
  <2> QED BY <1>19, <2>3, <2>4 DEF Crash, RequestTypes
<1>20. CASE Start
  BY <1>20 DEF Start, RequestTypes
<1>21. CASE UNCHANGED vars
  BY <1>21 DEF vars, RequestTypes
<1> QED BY <1>1, <1>2, <1>3, <1>4, <1>5, <1>6, <1>7, <1>8, <1>9, <1>10, <1>11, <1>12,
          <1>13, <1>14, <1>15, <1>16, <1>17, <1>18, <1>19, <1>20, <1>21
       DEF Next, Serve, ServeCall, Visit

(* A counter of the registry stays a counter when it is bumped.            *)
MetricFields == {"attempts", "successes", "failures", "schema", "uninitialized", "internal",
                 "explained", "lookups", "total"}

LEMMA BumpTypes ==
  ASSUME metrics \in Metrics, NEW field \in MetricFields, Bump(field)
  PROVE  metrics' \in Metrics
<1>0. metrics' = [metrics EXCEPT ![field] = metrics[field] + 1]
  BY DEF Bump
<1>1. CASE field = "attempts"
  BY <1>0, <1>1 DEF Metrics
<1>2. CASE field = "successes"
  BY <1>0, <1>2 DEF Metrics
<1>3. CASE field = "failures"
  BY <1>0, <1>3 DEF Metrics
<1>4. CASE field = "schema"
  BY <1>0, <1>4 DEF Metrics
<1>5. CASE field = "uninitialized"
  BY <1>0, <1>5 DEF Metrics
<1>6. CASE field = "internal"
  BY <1>0, <1>6 DEF Metrics
<1>7. CASE field = "explained"
  BY <1>0, <1>7 DEF Metrics
<1>8. CASE field = "lookups"
  BY <1>0, <1>8 DEF Metrics
<1>9. CASE field = "total"
  BY <1>0, <1>9 DEF Metrics
<1> QED BY <1>1, <1>2, <1>3, <1>4, <1>5, <1>6, <1>7, <1>8, <1>9 DEF MetricFields

LEMMA CountedTypes ==
  ASSUME NEW m \in Metrics, NEW o \in Outcomes \ {"none"}
  PROVE  Counted(m, Status(o)) \in Metrics
<1>1. Status(o) \in {200, 422, 503, 500}
  <2>1. CASE o = "ok"
    BY <2>1 DEF Status
  <2>2. CASE o \in {"schema", "invalid", "no_records"}
    BY <2>2 DEF Status
  <2>3. CASE o \in {"backend", "runtime", "no_profile", "no_explanation"}
    BY <2>3 DEF Status
  <2>4. CASE o = "other"
    BY <2>4 DEF Status
  <2> QED BY <2>1, <2>2, <2>3, <2>4 DEF Outcomes, Refusals, Exceptions
<1>2. ASSUME NEW k \in {2, 4, 5}
      PROVE  [m EXCEPT !.total = @ + 1, !.class[k] = @ + 1] \in Metrics
  <2>1. m.class \in [{2, 4, 5} -> Nat] /\ m.total \in Nat
    BY DEF Metrics
  <2>2. [m.class EXCEPT ![k] = @ + 1] \in [{2, 4, 5} -> Nat] /\ m.total + 1 \in Nat
    BY <2>1
  <2>3. [m EXCEPT !.total = @ + 1, !.class[k] = @ + 1]
          = [m EXCEPT !.total = m.total + 1, !.class = [m.class EXCEPT ![k] = @ + 1]]
    OBVIOUS
  <2>4. \A t \in Nat, c \in [{2, 4, 5} -> Nat] : [m EXCEPT !.total = t, !.class = c] \in Metrics
    BY DEF Metrics
  <2> QED BY <2>2, <2>3, <2>4
<1>3. 200 \div 100 = 2 /\ 422 \div 100 = 4 /\ 503 \div 100 = 5 /\ 500 \div 100 = 5
  OBVIOUS
<1>4. Status(o) \div 100 \in {2, 4, 5}
  BY <1>1, <1>3
<1> QED BY <1>2, <1>4 DEF Counted

----------------------------------------------------------------------------
(* What the outcome of a request says of the state.  AnswerTellsState is    *)
(* about answers; it is inductive together with what holds before there is  *)
(* one: nothing counted until the engine has been called, and counted from  *)
(* then on.                                                                 *)
Told(r) ==
  CASE outcome[r] \in {"ok", "no_explanation"} -> api[r] # "no"
    [] outcome[r] = "backend"                  -> TRUE
    [] OTHER                                   -> api[r] = "no"

RequestOK(r) ==
  /\ r \in Forms => route[r] = "predict"
  /\ stage[r] \in {"idle", "queued", "running", "scored", "computed"} => outcome[r] = "none"
  /\ stage[r] \in {"idle", "queued", "running"} => api[r] = "no"
  /\ stage[r] = "scored" => route[r] \in Scoring /\ api[r] # "no"
  /\ stage[r] = "computed" => route[r] = "analyze"
  /\ stage[r] \in {"raised", "unhandled", "replying", "answered", "old"} =>
       /\ outcome[r] # "none"
       /\ route[r] \in Scoring => Told(r)
       /\ outcome[r] = "no_explanation" => route[r] = "explain"
       /\ outcome[r] = "invalid" => route[r] \in Scoring
  /\ stage[r] = "raised" => outcome[r] \in Exceptions
  /\ stage[r] = "replying" => outcome[r] # "other"
  /\ stage[r] = "unhandled" => outcome[r] = "other"

(* The page: posted once, and then its own engine's only for a reason.      *)
PageOK(f) ==
  /\ local[f] # "no" => page[f] \in {"shown_local", "failed"}
  /\ page[f] \in {"form", "post"} => stage[f] = "idle"
  /\ page[f] \in {"local", "shown_local", "failed"} =>
       \/ why[f] = "unanswered"
       \/ why[f] = "unreachable" /\ stage[f] = "idle"
       \/ why[f] = "refused" /\ stage[f] \in {"answered", "old"} /\ Status(outcome[f]) # 200

PagesOK == \A f \in Forms : PageOK(f)

RequestsOK == \A r \in Requests : RequestOK(r)

(* A request the step does not touch; a reset may empty the store.          *)
LEMMA Untouched ==
  ASSUME NEW q \in Requests, RequestOK(q),
         stage'[q] = stage[q], outcome'[q] = outcome[q], route'[q] = route[q],
         api'[q] = api[q] \/ (api[q] = "yes" /\ api'[q] = "gone")
  PROVE  RequestOK(q)'
BY DEF RequestOK, Told

LEMMA NextRequests ==
  ASSUME RequestTypes, StoreTypes, RequestsOK, PagesOK, [Next]_vars
  PROVE  RequestsOK'
<1> SUFFICES ASSUME NEW q \in Requests
             PROVE  RequestOK(q)'
  BY DEF RequestsOK
<1>q. RequestOK(q)
  BY DEF RequestsOK
<1>s. Calls \subseteq Requests /\ Forms \subseteq Requests /\ Calls \cap Forms = {}
  BY ApiAssumption DEF Requests
<1>t. /\ route \in [Requests -> Routes] /\ stage \in [Requests -> Stages]
      /\ outcome \in [Requests -> Outcomes] /\ api \in [Requests -> {"no", "yes", "gone"}]
  BY DEF RequestTypes, StoreTypes
<1>u. ASSUME UNCHANGED <<request, api>> PROVE RequestOK(q)'
  BY <1>q, <1>u, Untouched DEF request
<1> USE DEF monitor, dashboard
<1>1. ASSUME NEW r \in Requests, Begin(r) PROVE RequestOK(q)'
  <2>1. CASE q = r
    BY <1>1, <1>s, <1>t, <1>q, <2>1
       DEF Begin, Goto, Becomes, request, RequestOK, Told, Scoring, Exceptions
  <2>2. CASE q # r
    <3>1. /\ stage'[q] = stage[q] /\ outcome'[q] = outcome[q] /\ route'[q] = route[q]
          /\ api'[q] = api[q] \/ (api[q] = "yes" /\ api'[q] = "gone")
      BY <1>1, <1>s, <1>t, <2>2 DEF Begin, Goto, Becomes, request
    <3> QED BY <1>q, <3>1, Untouched
  <2> QED BY <2>1, <2>2
<1>2. ASSUME NEW r \in Requests, Score(r) PROVE RequestOK(q)'
  <2>1. CASE q = r
    BY <1>2, <1>s, <1>t, <1>q, <2>1
       DEF Score, Goto, Becomes, Raise, request, RequestOK, Told, Scoring, Exceptions
  <2>2. CASE q # r
    <3>1. /\ stage'[q] = stage[q] /\ outcome'[q] = outcome[q] /\ route'[q] = route[q]
          /\ api'[q] = api[q] \/ (api[q] = "yes" /\ api'[q] = "gone")
      BY <1>2, <1>s, <1>t, <2>2 DEF Score, Goto, Becomes, Raise, request
    <3> QED BY <1>q, <3>1, Untouched
  <2> QED BY <2>1, <2>2
<1>3. ASSUME NEW r \in Requests, RecordSuccess(r) PROVE RequestOK(q)'
  <2>1. CASE q = r
    BY <1>3, <1>s, <1>t, <1>q, <2>1
       DEF RecordSuccess, Goto, Becomes, request, RequestOK, Told, Scoring, Exceptions
  <2>2. CASE q # r
    <3>1. /\ stage'[q] = stage[q] /\ outcome'[q] = outcome[q] /\ route'[q] = route[q]
          /\ api'[q] = api[q] \/ (api[q] = "yes" /\ api'[q] = "gone")
      BY <1>3, <1>s, <1>t, <2>2 DEF RecordSuccess, Goto, Becomes, request
    <3> QED BY <1>q, <3>1, Untouched
  <2> QED BY <2>1, <2>2
<1>4. ASSUME NEW r \in Requests, Handle(r) PROVE RequestOK(q)'
  <2>1. CASE q = r
    BY <1>4, <1>s, <1>t, <1>q, <2>1
       DEF Handle, Goto, Becomes, request, RequestOK, Told, Scoring, Exceptions
  <2>2. CASE q # r
    <3>1. /\ stage'[q] = stage[q] /\ outcome'[q] = outcome[q] /\ route'[q] = route[q]
          /\ api'[q] = api[q] \/ (api[q] = "yes" /\ api'[q] = "gone")
      BY <1>4, <1>s, <1>t, <2>2 DEF Handle, Goto, Becomes, request
    <3> QED BY <1>q, <3>1, Untouched
  <2> QED BY <2>1, <2>2
<1>5. ASSUME NEW r \in Requests, PassUnhandled(r) PROVE RequestOK(q)'
  <2>1. CASE q = r
    BY <1>5, <1>s, <1>t, <1>q, <2>1
       DEF PassUnhandled, Goto, Becomes, request, RequestOK, Told, Scoring, Exceptions
  <2>2. CASE q # r
    <3>1. /\ stage'[q] = stage[q] /\ outcome'[q] = outcome[q] /\ route'[q] = route[q]
          /\ api'[q] = api[q] \/ (api[q] = "yes" /\ api'[q] = "gone")
      BY <1>5, <1>s, <1>t, <2>2 DEF PassUnhandled, Goto, Becomes, request
    <3> QED BY <1>q, <3>1, Untouched
  <2> QED BY <2>1, <2>2
<1>6. ASSUME NEW r \in Requests, HandleUnexpected(r) PROVE RequestOK(q)'
  <2>1. CASE q = r
    BY <1>6, <1>s, <1>t, <1>q, <2>1
       DEF HandleUnexpected, Goto, Becomes, request, RequestOK, Told, Scoring, Exceptions
  <2>2. CASE q # r
    <3>1. /\ stage'[q] = stage[q] /\ outcome'[q] = outcome[q] /\ route'[q] = route[q]
          /\ api'[q] = api[q] \/ (api[q] = "yes" /\ api'[q] = "gone")
      BY <1>6, <1>s, <1>t, <2>2 DEF HandleUnexpected, Goto, Becomes, request
    <3> QED BY <1>q, <3>1, Untouched
  <2> QED BY <2>1, <2>2
<1>7. ASSUME NEW r \in Requests, Reply(r) PROVE RequestOK(q)'
  <2>1. CASE q = r
    BY <1>7, <1>s, <1>t, <1>q, <2>1
       DEF Reply, Goto, Becomes, request, RequestOK, Told, Scoring, Exceptions
  <2>2. CASE q # r
    <3>1. /\ stage'[q] = stage[q] /\ outcome'[q] = outcome[q] /\ route'[q] = route[q]
          /\ api'[q] = api[q] \/ (api[q] = "yes" /\ api'[q] = "gone")
      BY <1>7, <1>s, <1>t, <2>2 DEF Reply, Goto, Becomes, request
    <3> QED BY <1>q, <3>1, Untouched
  <2> QED BY <2>1, <2>2
<1>8. ASSUME NEW c \in Calls, Call(c) PROVE RequestOK(q)'
  <2>1. CASE q = c
    BY <1>8, <1>s, <1>t, <1>q, <2>1
       DEF Call, Goto, Becomes, request, RequestOK, Told, Scoring, Exceptions
  <2>2. CASE q # c
    <3>1. /\ stage'[q] = stage[q] /\ outcome'[q] = outcome[q] /\ route'[q] = route[q]
          /\ api'[q] = api[q] \/ (api[q] = "yes" /\ api'[q] = "gone")
      BY <1>8, <1>s, <1>t, <2>2 DEF Call, Goto, Becomes, request
    <3> QED BY <1>q, <3>1, Untouched
  <2> QED BY <2>1, <2>2
<1>9. ASSUME NEW c \in Calls, RejectSchema(c) PROVE RequestOK(q)'
  <2>1. CASE q = c
    BY <1>9, <1>s, <1>t, <1>q, <2>1
       DEF RejectSchema, Goto, Becomes, request, RequestOK, Told, Scoring, Exceptions
  <2>2. CASE q # c
    <3>1. /\ stage'[q] = stage[q] /\ outcome'[q] = outcome[q] /\ route'[q] = route[q]
          /\ api'[q] = api[q] \/ (api[q] = "yes" /\ api'[q] = "gone")
      BY <1>9, <1>s, <1>t, <2>2 DEF RejectSchema, Goto, Becomes, request
    <3> QED BY <1>q, <3>1, Untouched
  <2> QED BY <2>1, <2>2
<1>10. ASSUME NEW c \in Calls, Analyze(c) PROVE RequestOK(q)'
  <2>1. CASE q = c
    BY <1>10, <1>s, <1>t, <1>q, <2>1
       DEF Analyze, Goto, Becomes, Raise, request, RequestOK, Told, Scoring, Exceptions
  <2>2. CASE q # c
    <3>1. /\ stage'[q] = stage[q] /\ outcome'[q] = outcome[q] /\ route'[q] = route[q]
          /\ api'[q] = api[q] \/ (api[q] = "yes" /\ api'[q] = "gone")
      BY <1>10, <1>s, <1>t, <2>2 DEF Analyze, Goto, Becomes, Raise, request
    <3> QED BY <1>q, <3>1, Untouched
  <2> QED BY <2>1, <2>2
<1>11. ASSUME NEW c \in Calls, Publish(c) PROVE RequestOK(q)'
  <2>1. CASE q = c
    BY <1>11, <1>s, <1>t, <1>q, <2>1
       DEF Publish, Answer, Raise, Goto, Becomes, request, RequestOK, Told, Scoring, Exceptions
  <2>2. CASE q # c
    <3>1. /\ stage'[q] = stage[q] /\ outcome'[q] = outcome[q] /\ route'[q] = route[q]
          /\ api'[q] = api[q] \/ (api[q] = "yes" /\ api'[q] = "gone")
      BY <1>11, <1>s, <1>t, <2>2 DEF Publish, Answer, Raise, Goto, Becomes, request
    <3> QED BY <1>q, <3>1, Untouched
  <2> QED BY <2>1, <2>2
<1>12. ASSUME NEW c \in Calls, ResetState(c) PROVE RequestOK(q)'
  <2>1. CASE q = c
    BY <1>12, <1>s, <1>t, <1>q, <2>1
       DEF ResetState, Goto, Becomes, Raise, Emptied, request, RequestOK, Told, Scoring, Exceptions
  <2>2. CASE q # c
    <3>1. /\ stage'[q] = stage[q] /\ outcome'[q] = outcome[q] /\ route'[q] = route[q]
          /\ api'[q] = api[q] \/ (api[q] = "yes" /\ api'[q] = "gone")
      BY <1>12, <1>s, <1>t, <2>2 DEF ResetState, Goto, Becomes, Raise, Emptied, request
    <3> QED BY <1>q, <3>1, Untouched
  <2> QED BY <2>1, <2>2
<1>13. ASSUME NEW c \in Calls, Read(c) PROVE RequestOK(q)'
  <2>1. CASE q = c
    BY <1>13, <1>s, <1>t, <1>q, <2>1
       DEF Read, Goto, Becomes, request, RequestOK, Told, Scoring, Exceptions
  <2>2. CASE q # c
    <3>1. /\ stage'[q] = stage[q] /\ outcome'[q] = outcome[q] /\ route'[q] = route[q]
          /\ api'[q] = api[q] \/ (api[q] = "yes" /\ api'[q] = "gone")
      BY <1>13, <1>s, <1>t, <2>2 DEF Read, Goto, Becomes, request
    <3> QED BY <1>q, <3>1, Untouched
  <2> QED BY <2>1, <2>2
<1>14. ASSUME NEW f \in Forms, CheckApi(f) PROVE RequestOK(q)'
  BY <1>14, <1>u DEF CheckApi
<1>15. ASSUME NEW f \in Forms, Post(f) PROVE RequestOK(q)'
  <2>1. CASE q = f
    BY <1>15, <1>s, <1>t, <1>q, <2>1
       DEF PagesOK, PageOK, Post, Goto, Becomes, request, RequestOK, Told, Scoring, Exceptions
  <2>2. CASE q # f
    <3>1. /\ stage'[q] = stage[q] /\ outcome'[q] = outcome[q] /\ route'[q] = route[q]
          /\ api'[q] = api[q] \/ (api[q] = "yes" /\ api'[q] = "gone")
      BY <1>15, <1>s, <1>t, <2>2 DEF Post, Goto, Becomes, request
    <3> QED BY <1>q, <3>1, Untouched
  <2> QED BY <2>1, <2>2
<1>16. ASSUME NEW f \in Forms, ReadAnswer(f) PROVE RequestOK(q)'
  BY <1>16, <1>u DEF ReadAnswer
<1>17. ASSUME NEW f \in Forms, GiveUp(f) PROVE RequestOK(q)'
  BY <1>17, <1>u DEF GiveUp
<1>18. ASSUME NEW f \in Forms, ScoreLocally(f) PROVE RequestOK(q)'
  BY <1>18, <1>u DEF ScoreLocally
<1>19. CASE Crash
  <2>1. /\ outcome'[q] = outcome[q] /\ route'[q] = route[q]
        /\ api'[q] = api[q] \/ (api[q] = "yes" /\ api'[q] = "gone")
    BY <1>19, <1>t DEF Crash, Emptied
  <2>2. \/ stage[q] = "idle" /\ stage'[q] = "idle"
        \/ stage[q] \in {"answered", "old"} /\ stage'[q] = "old"
        \/ stage'[q] = "lost"
    BY <1>19 DEF Crash
  <2> QED BY <1>q, <2>1, <2>2 DEF RequestOK, Told
<1>20. CASE Start
  BY <1>20, <1>u DEF Start
<1>21. CASE UNCHANGED vars
  BY <1>21, <1>u DEF vars
<1> QED BY <1>1, <1>2, <1>3, <1>4, <1>5, <1>6, <1>7, <1>8, <1>9, <1>10, <1>11, <1>12,
          <1>13, <1>14, <1>15, <1>16, <1>17, <1>18, <1>19, <1>20, <1>21
       DEF Next, Serve, ServeCall, Visit

(* A page the step does not touch: its request may go on.                   *)
LEMMA PageUntouched ==
  ASSUME NEW g \in Forms, PageOK(g),
         page'[g] = page[g], why'[g] = why[g],
         local'[g] = local[g] \/ (local[g] = "yes" /\ local'[g] = "gone"),
         stage[g] = "idle" => stage'[g] = "idle",
         stage[g] \in {"answered", "old"} =>
           stage'[g] \in {"answered", "old"} /\ outcome'[g] = outcome[g]
  PROVE  PageOK(g)'
<1>1. stage[g] \in {"answered", "old"} => Status(outcome[g])' = Status(outcome[g])
  BY DEF Status
<1> QED BY <1>1 DEF PageOK

LEMMA NextPages ==
  ASSUME RequestTypes, StoreTypes, RequestsOK, PagesOK, [Next]_vars
  PROVE  PagesOK'
<1> SUFFICES ASSUME NEW g \in Forms
             PROVE  PageOK(g)'
  BY DEF PagesOK
<1>q. PageOK(g)
  BY DEF PagesOK
<1>s. /\ Calls \subseteq Requests /\ Forms \subseteq Requests /\ Calls \cap Forms = {}
      /\ g \in Requests /\ g \notin Calls /\ route[g] = "predict"
  BY ApiAssumption DEF Requests, RequestsOK, RequestOK
<1>t. /\ route \in [Requests -> Routes] /\ stage \in [Requests -> Stages]
      /\ outcome \in [Requests -> Outcomes] /\ api \in [Requests -> {"no", "yes", "gone"}]
      /\ local \in [Forms -> {"no", "yes", "gone"}]
      /\ page \in [Forms -> {"form", "post", "waiting", "local", "shown_api", "shown_local",
                             "failed"}]
      /\ why \in [Forms -> {None, "unreachable", "unanswered", "refused"}]
  BY DEF RequestTypes, StoreTypes
<1>u. ASSUME UNCHANGED <<stage, outcome, dashboard>> PROVE PageOK(g)'
  BY <1>q, <1>u, PageUntouched DEF dashboard
<1>v. ASSUME UNCHANGED dashboard,
             stage[g] = "idle" => stage'[g] = "idle",
             stage[g] \in {"answered", "old"} =>
               stage'[g] \in {"answered", "old"} /\ outcome'[g] = outcome[g]
      PROVE  PageOK(g)'
  BY <1>q, <1>v, PageUntouched DEF dashboard
<1> USE DEF monitor, request
<1>1. ASSUME NEW r \in Requests, Begin(r) PROVE PageOK(g)'
  <2>1. /\ stage[g] = "idle" => stage'[g] = "idle"
        /\ stage[g] \in {"answered", "old"} =>
             stage'[g] \in {"answered", "old"} /\ outcome'[g] = outcome[g]
    BY <1>1, <1>s, <1>t DEF Begin, Goto, Becomes
  <2> QED BY <1>1, <1>v, <2>1 DEF Begin
<1>2. ASSUME NEW r \in Requests, Score(r) PROVE PageOK(g)'
  <2>1. /\ stage[g] = "idle" => stage'[g] = "idle"
        /\ stage[g] \in {"answered", "old"} =>
             stage'[g] \in {"answered", "old"} /\ outcome'[g] = outcome[g]
    BY <1>2, <1>s, <1>t DEF Score, Goto, Becomes, Raise
  <2> QED BY <1>2, <1>v, <2>1 DEF Score
<1>3. ASSUME NEW r \in Requests, RecordSuccess(r) PROVE PageOK(g)'
  <2>1. /\ stage[g] = "idle" => stage'[g] = "idle"
        /\ stage[g] \in {"answered", "old"} =>
             stage'[g] \in {"answered", "old"} /\ outcome'[g] = outcome[g]
    BY <1>3, <1>s, <1>t DEF RecordSuccess, Goto, Becomes
  <2> QED BY <1>3, <1>v, <2>1 DEF RecordSuccess
<1>4. ASSUME NEW r \in Requests, Handle(r) PROVE PageOK(g)'
  <2>1. /\ stage[g] = "idle" => stage'[g] = "idle"
        /\ stage[g] \in {"answered", "old"} =>
             stage'[g] \in {"answered", "old"} /\ outcome'[g] = outcome[g]
    BY <1>4, <1>s, <1>t DEF Handle, Goto, Becomes
  <2> QED BY <1>4, <1>v, <2>1 DEF Handle
<1>5. ASSUME NEW r \in Requests, PassUnhandled(r) PROVE PageOK(g)'
  <2>1. /\ stage[g] = "idle" => stage'[g] = "idle"
        /\ stage[g] \in {"answered", "old"} =>
             stage'[g] \in {"answered", "old"} /\ outcome'[g] = outcome[g]
    BY <1>5, <1>s, <1>t DEF PassUnhandled, Goto, Becomes
  <2> QED BY <1>5, <1>v, <2>1 DEF PassUnhandled
<1>6. ASSUME NEW r \in Requests, HandleUnexpected(r) PROVE PageOK(g)'
  <2>1. /\ stage[g] = "idle" => stage'[g] = "idle"
        /\ stage[g] \in {"answered", "old"} =>
             stage'[g] \in {"answered", "old"} /\ outcome'[g] = outcome[g]
    BY <1>6, <1>s, <1>t DEF HandleUnexpected, Goto, Becomes
  <2> QED BY <1>6, <1>v, <2>1 DEF HandleUnexpected
<1>7. ASSUME NEW r \in Requests, Reply(r) PROVE PageOK(g)'
  <2>1. /\ stage[g] = "idle" => stage'[g] = "idle"
        /\ stage[g] \in {"answered", "old"} =>
             stage'[g] \in {"answered", "old"} /\ outcome'[g] = outcome[g]
    BY <1>7, <1>s, <1>t DEF Reply, Goto, Becomes
  <2> QED BY <1>7, <1>v, <2>1 DEF Reply
<1>8. ASSUME NEW c \in Calls, Call(c) PROVE PageOK(g)'
  <2>1. /\ stage[g] = "idle" => stage'[g] = "idle"
        /\ stage[g] \in {"answered", "old"} =>
             stage'[g] \in {"answered", "old"} /\ outcome'[g] = outcome[g]
    BY <1>8, <1>s, <1>t DEF Call, Goto, Becomes
  <2> QED BY <1>8, <1>v, <2>1 DEF Call
<1>9. ASSUME NEW c \in Calls, RejectSchema(c) PROVE PageOK(g)'
  <2>1. /\ stage[g] = "idle" => stage'[g] = "idle"
        /\ stage[g] \in {"answered", "old"} =>
             stage'[g] \in {"answered", "old"} /\ outcome'[g] = outcome[g]
    BY <1>9, <1>s, <1>t DEF RejectSchema, Goto, Becomes
  <2> QED BY <1>9, <1>v, <2>1 DEF RejectSchema
<1>10. ASSUME NEW c \in Calls, Analyze(c) PROVE PageOK(g)'
  <2>1. /\ stage[g] = "idle" => stage'[g] = "idle"
        /\ stage[g] \in {"answered", "old"} =>
             stage'[g] \in {"answered", "old"} /\ outcome'[g] = outcome[g]
    BY <1>10, <1>s, <1>t DEF Analyze, Goto, Becomes, Raise
  <2> QED BY <1>10, <1>v, <2>1 DEF Analyze
<1>11. ASSUME NEW c \in Calls, Publish(c) PROVE PageOK(g)'
  <2>1. /\ stage[g] = "idle" => stage'[g] = "idle"
        /\ stage[g] \in {"answered", "old"} =>
             stage'[g] \in {"answered", "old"} /\ outcome'[g] = outcome[g]
    BY <1>11, <1>s, <1>t DEF Publish, Answer, Raise, Goto, Becomes
  <2> QED BY <1>11, <1>v, <2>1 DEF Publish, Answer, Raise
<1>12. ASSUME NEW c \in Calls, ResetState(c) PROVE PageOK(g)'
  <2>1. /\ stage'[g] = stage[g] /\ outcome'[g] = outcome[g]
        /\ page' = page /\ why' = why
        /\ local'[g] = local[g] \/ (local[g] = "yes" /\ local'[g] = "gone")
    BY <1>12, <1>s, <1>t DEF ResetState, Goto, Becomes, Raise, Emptied
  <2> QED BY <1>q, <2>1, PageUntouched
<1>13. ASSUME NEW c \in Calls, Read(c) PROVE PageOK(g)'
  <2>1. /\ stage[g] = "idle" => stage'[g] = "idle"
        /\ stage[g] \in {"answered", "old"} =>
             stage'[g] \in {"answered", "old"} /\ outcome'[g] = outcome[g]
    BY <1>13, <1>s, <1>t DEF Read, Goto, Becomes
  <2> QED BY <1>13, <1>v, <2>1 DEF Read
<1>14. ASSUME NEW f \in Forms, CheckApi(f) PROVE PageOK(g)'
  <2>1. CASE g = f
    BY <1>14, <1>s, <1>t, <1>q, <2>1 DEF CheckApi, Show, FallBack, Goto, PageOK, dashboard
  <2>2. CASE g # f
    <3>1. /\ page'[g] = page[g] /\ why'[g] = why[g] /\ local'[g] = local[g]
          /\ stage'[g] = stage[g] /\ outcome'[g] = outcome[g]
      BY <1>14, <1>s, <1>t, <2>2 DEF CheckApi, Show, FallBack, Goto
    <3> QED BY <1>q, <3>1, PageUntouched
  <2> QED BY <2>1, <2>2
<1>15. ASSUME NEW f \in Forms, Post(f) PROVE PageOK(g)'
  <2>1. CASE g = f
    BY <1>15, <1>s, <1>t, <1>q, <2>1 DEF Post, Show, FallBack, Goto, PageOK, dashboard
  <2>2. CASE g # f
    <3>1. /\ page'[g] = page[g] /\ why'[g] = why[g] /\ local'[g] = local[g]
          /\ stage'[g] = stage[g] /\ outcome'[g] = outcome[g]
      BY <1>15, <1>s, <1>t, <2>2 DEF Post, Show, FallBack, Goto
    <3> QED BY <1>q, <3>1, PageUntouched
  <2> QED BY <2>1, <2>2
<1>16. ASSUME NEW f \in Forms, ReadAnswer(f) PROVE PageOK(g)'
  <2>1. CASE g = f
    BY <1>16, <1>s, <1>t, <1>q, <2>1 DEF ReadAnswer, Show, FallBack, Goto, PageOK, dashboard
  <2>2. CASE g # f
    <3>1. /\ page'[g] = page[g] /\ why'[g] = why[g] /\ local'[g] = local[g]
          /\ stage'[g] = stage[g] /\ outcome'[g] = outcome[g]
      BY <1>16, <1>s, <1>t, <2>2 DEF ReadAnswer, Show, FallBack, Goto
    <3> QED BY <1>q, <3>1, PageUntouched
  <2> QED BY <2>1, <2>2
<1>17. ASSUME NEW f \in Forms, GiveUp(f) PROVE PageOK(g)'
  <2>1. CASE g = f
    BY <1>17, <1>s, <1>t, <1>q, <2>1 DEF GiveUp, Show, FallBack, Goto, PageOK, dashboard
  <2>2. CASE g # f
    <3>1. /\ page'[g] = page[g] /\ why'[g] = why[g] /\ local'[g] = local[g]
          /\ stage'[g] = stage[g] /\ outcome'[g] = outcome[g]
      BY <1>17, <1>s, <1>t, <2>2 DEF GiveUp, Show, FallBack, Goto
    <3> QED BY <1>q, <3>1, PageUntouched
  <2> QED BY <2>1, <2>2
<1>18. ASSUME NEW f \in Forms, ScoreLocally(f) PROVE PageOK(g)'
  <2>1. CASE g = f
    BY <1>18, <1>s, <1>t, <1>q, <2>1 DEF ScoreLocally, Show, FallBack, Goto, PageOK, dashboard
  <2>2. CASE g # f
    <3>1. /\ page'[g] = page[g] /\ why'[g] = why[g] /\ local'[g] = local[g]
          /\ stage'[g] = stage[g] /\ outcome'[g] = outcome[g]
      BY <1>18, <1>s, <1>t, <2>2 DEF ScoreLocally, Show, FallBack, Goto
    <3> QED BY <1>q, <3>1, PageUntouched
  <2> QED BY <2>1, <2>2
<1>19. CASE Crash
  <2>1. /\ outcome'[g] = outcome[g] /\ UNCHANGED dashboard
        /\ stage[g] = "idle" => stage'[g] = "idle"
        /\ stage[g] \in {"answered", "old"} => stage'[g] = "old"
    BY <1>19, <1>s DEF Crash
  <2> QED BY <1>v, <2>1
<1>20. CASE Start
  BY <1>20, <1>u DEF Start
<1>21. CASE UNCHANGED vars
  BY <1>21, <1>u DEF vars
<1> QED BY <1>1, <1>2, <1>3, <1>4, <1>5, <1>6, <1>7, <1>8, <1>9, <1>10, <1>11, <1>12,
          <1>13, <1>14, <1>15, <1>16, <1>17, <1>18, <1>19, <1>20, <1>21
       DEF Next, Serve, ServeCall, Visit

----------------------------------------------------------------------------
(* The other types.  A status is only counted of a request with an outcome. *)
LEMMA NextMetricTypes ==
  ASSUME RequestTypes, metrics \in Metrics, RequestsOK, [Next]_vars
  PROVE  metrics' \in Metrics
<1>s. Calls \subseteq Requests /\ Forms \subseteq Requests
  BY DEF Requests
<1>t. \A r \in Requests : stage[r] = "replying" => outcome[r] \in Outcomes \ {"none"}
  BY DEF RequestTypes, RequestsOK, RequestOK
<1>u. ASSUME UNCHANGED metrics PROVE metrics' \in Metrics
  BY <1>u
<1>o. Counted(metrics, 200) \in Metrics /\ Counted(metrics, 500) \in Metrics
  <2>1. "ok" \in Outcomes \ {"none"} /\ "other" \in Outcomes \ {"none"}
    BY DEF Outcomes, Exceptions
  <2>2. Status("ok") = 200 /\ Status("other") = 500
    BY DEF Status
  <2> QED BY <2>1, <2>2, CountedTypes
<1> USE DEF request, monitor, dashboard
<1>1. ASSUME NEW r \in Requests, Begin(r) PROVE metrics' \in Metrics
  <2>1. CASE route[r] \in Scoring
    <3>1. Bump("attempts")
      BY <1>1, <2>1 DEF Begin, Bump
    <3> QED BY <3>1, BumpTypes DEF MetricFields
  <2>2. CASE route[r] \notin Scoring
    BY <1>1, <1>u, <2>2 DEF Begin
  <2> QED BY <2>1, <2>2
<1>2. ASSUME NEW r \in Requests, Score(r) PROVE metrics' \in Metrics
  BY <1>2, <1>u DEF Score
<1>3. ASSUME NEW r \in Requests, RecordSuccess(r) PROVE metrics' \in Metrics
  <2>1. PICK n \in {0, 1} :
          metrics' = [metrics EXCEPT !.successes = metrics.successes + 1,
                                     !.explained = metrics.explained + n]
    BY <1>3 DEF RecordSuccess
  <2>2. metrics.successes + 1 \in Nat /\ metrics.explained + n \in Nat
    BY DEF Metrics
  <2> QED BY <2>1, <2>2 DEF Metrics
<1>4. ASSUME NEW r \in Requests, Handle(r) PROVE metrics' \in Metrics
  <2>1. \E k \in {"failures", "lookups", "uninitialized"} : Bump(k)
    <3>1. outcome[r] \in {"invalid", "backend", "runtime"}
      BY <1>4 DEF Handle, RequestsOK, RequestOK, Exceptions
    <3> QED BY <1>4, <3>1 DEF Handle
  <2> QED BY <2>1, BumpTypes DEF MetricFields
<1>5. ASSUME NEW r \in Requests, PassUnhandled(r) PROVE metrics' \in Metrics
  BY <1>5, <1>o DEF PassUnhandled
<1>6. ASSUME NEW r \in Requests, HandleUnexpected(r) PROVE metrics' \in Metrics
  BY <1>6, BumpTypes DEF HandleUnexpected, MetricFields
<1>7. ASSUME NEW r \in Requests, Reply(r) PROVE metrics' \in Metrics
  BY <1>7, <1>t, CountedTypes DEF Reply
<1>8. ASSUME NEW c \in Calls, Call(c) PROVE metrics' \in Metrics
  BY <1>8, <1>u DEF Call
<1>9. ASSUME NEW c \in Calls, RejectSchema(c) PROVE metrics' \in Metrics
  BY <1>9, BumpTypes DEF RejectSchema, MetricFields
<1>10. ASSUME NEW c \in Calls, Analyze(c) PROVE metrics' \in Metrics
  BY <1>10, <1>u DEF Analyze
<1>11. ASSUME NEW c \in Calls, Publish(c) PROVE metrics' \in Metrics
  BY <1>11, <1>u DEF Publish, Answer, Raise
<1>12. ASSUME NEW c \in Calls, ResetState(c) PROVE metrics' \in Metrics
  BY <1>12, <1>u DEF ResetState
<1>13. ASSUME NEW c \in Calls, Read(c) PROVE metrics' \in Metrics
  BY <1>13, <1>u DEF Read
<1>14. ASSUME NEW f \in Forms, CheckApi(f) PROVE metrics' \in Metrics
  BY <1>14, <1>o DEF CheckApi
<1>15. ASSUME NEW f \in Forms, Post(f) PROVE metrics' \in Metrics
  BY <1>15, <1>u DEF Post
<1>16. ASSUME NEW f \in Forms, ReadAnswer(f) PROVE metrics' \in Metrics
  BY <1>16, <1>u DEF ReadAnswer
<1>17. ASSUME NEW f \in Forms, GiveUp(f) PROVE metrics' \in Metrics
  BY <1>17, <1>u DEF GiveUp
<1>18. ASSUME NEW f \in Forms, ScoreLocally(f) PROVE metrics' \in Metrics
  BY <1>18, <1>u DEF ScoreLocally
<1>19. CASE Crash
  BY <1>19, <1>u DEF Crash
<1>20. CASE Start
  BY <1>20 DEF Start, NoMetrics, Metrics
<1>21. CASE UNCHANGED vars
  BY <1>21, <1>u DEF vars
<1> QED BY <1>1, <1>2, <1>3, <1>4, <1>5, <1>6, <1>7, <1>8, <1>9, <1>10, <1>11, <1>12,
          <1>13, <1>14, <1>15, <1>16, <1>17, <1>18, <1>19, <1>20, <1>21
       DEF Next, Serve, ServeCall, Visit

(* The worst of some severities is one of them.                             *)
LEMMA WorstIsSeverity ==
  ASSUME NEW severities \in SUBSET Shown
  PROVE  WorstOf(severities) \in Severities
<1>1. severities \subseteq 0..3
  BY ApiAssumption DEF Severities
<1>2. CASE severities = {}
  BY <1>2 DEF WorstOf, Severities
<1>3. CASE severities # {}
  <2>1. \E x \in severities : \A y \in severities : x >= y
    <3>1. CASE 3 \in severities
      BY <1>1, <3>1
    <3>2. CASE 3 \notin severities /\ 2 \in severities
      BY <1>1, <3>2
    <3>3. CASE severities \cap {2, 3} = {} /\ 1 \in severities
      BY <1>1, <3>3
    <3>4. CASE severities \cap {1, 2, 3} = {}
      <4>1. \A x \in severities : x = 0
        BY <1>1, <3>4
      <4> QED BY <1>3, <4>1
    <3> QED BY <3>1, <3>2, <3>3, <3>4
  <2>2. Max(severities) \in severities
    BY <2>1 DEF Max
  <2> QED BY <1>1, <1>3, <2>2 DEF WorstOf, Severities
<1> QED BY <1>2, <1>3

LEMMA NextMonitorTypes ==
  ASSUME MonitorTypes, RequestTypes, [Next]_vars
  PROVE  MonitorTypes'
<1>u. ASSUME UNCHANGED monitor PROVE MonitorTypes'
  BY <1>u DEF monitor, MonitorTypes
<1>v. /\ drift \in [analyzed : Nat, counts : [Severities -> Nat], latest : Calls \cup {None}]
      /\ level \in [Calls -> Severities] /\ before \in [Calls -> SUBSET Calls]
      /\ published \subseteq Calls
  BY DEF MonitorTypes
<1> USE DEF request, dashboard
<1>1. ASSUME NEW r \in Requests, Begin(r) PROVE MonitorTypes'
  <2>1. UNCHANGED <<drift, level, published>>
    BY <1>1 DEF Begin
  <2>2. before' = [before EXCEPT ![r] = published] \/ before' = before
    BY <1>1 DEF Begin
  <2>3. before' \in [Calls -> SUBSET Calls]
    BY <1>v, <2>2
  <2> QED BY <1>v, <2>1, <2>3 DEF MonitorTypes
<1>2. ASSUME NEW r \in Requests, Score(r) PROVE MonitorTypes'
  BY <1>2, <1>u DEF Score
<1>3. ASSUME NEW r \in Requests, RecordSuccess(r) PROVE MonitorTypes'
  BY <1>3, <1>u DEF RecordSuccess
<1>4. ASSUME NEW r \in Requests, Handle(r) PROVE MonitorTypes'
  BY <1>4, <1>u DEF Handle
<1>5. ASSUME NEW r \in Requests, PassUnhandled(r) PROVE MonitorTypes'
  BY <1>5, <1>u DEF PassUnhandled
<1>6. ASSUME NEW r \in Requests, HandleUnexpected(r) PROVE MonitorTypes'
  BY <1>6, <1>u DEF HandleUnexpected
<1>7. ASSUME NEW r \in Requests, Reply(r) PROVE MonitorTypes'
  BY <1>7, <1>u DEF Reply
<1>8. ASSUME NEW c \in Calls, Call(c) PROVE MonitorTypes'
  BY <1>8, <1>u DEF Call
<1>9. ASSUME NEW c \in Calls, RejectSchema(c) PROVE MonitorTypes'
  BY <1>9, <1>u DEF RejectSchema
<1>10. ASSUME NEW c \in Calls, Analyze(c) PROVE MonitorTypes'
  <2>1. ASSUME NEW severities \in SUBSET Shown PROVE WorstOf(severities) \in Severities
    BY WorstIsSeverity
  <2>2. level' \in [Calls -> Severities]
    BY <1>10, <1>v, <2>1 DEF Analyze
  <2> QED BY <1>10, <1>v, <2>2 DEF Analyze, MonitorTypes
<1>11. ASSUME NEW c \in Calls, Publish(c) PROVE MonitorTypes'
  <2>1. level[c] \in Severities
    BY <1>v
  <2>2. [drift.counts EXCEPT ![level[c]] = @ + 1] \in [Severities -> Nat]
    <3>1. drift.counts \in [Severities -> Nat]
      BY <1>v
    <3>2. drift.counts[level[c]] + 1 \in Nat
      BY <2>1, <3>1
    <3> QED BY <3>1, <3>2
  <2>3. drift.analyzed + 1 \in Nat
    BY <1>v
  <2>4. drift' \in [analyzed : Nat, counts : [Severities -> Nat], latest : Calls \cup {None}]
    BY <1>11, <2>2, <2>3 DEF Publish, Answer, Raise
  <2> QED BY <1>11, <1>v, <2>4 DEF Publish, Answer, Raise, MonitorTypes
<1>12. ASSUME NEW c \in Calls, ResetState(c) PROVE MonitorTypes'
  BY <1>12, <1>u DEF ResetState
<1>13. ASSUME NEW c \in Calls, Read(c) PROVE MonitorTypes'
  BY <1>13, <1>u DEF Read
<1>14. ASSUME NEW f \in Forms, CheckApi(f) PROVE MonitorTypes'
  BY <1>14, <1>u DEF CheckApi
<1>15. ASSUME NEW f \in Forms, Post(f) PROVE MonitorTypes'
  BY <1>15, <1>u DEF Post
<1>16. ASSUME NEW f \in Forms, ReadAnswer(f) PROVE MonitorTypes'
  BY <1>16, <1>u DEF ReadAnswer
<1>17. ASSUME NEW f \in Forms, GiveUp(f) PROVE MonitorTypes'
  BY <1>17, <1>u DEF GiveUp
<1>18. ASSUME NEW f \in Forms, ScoreLocally(f) PROVE MonitorTypes'
  BY <1>18, <1>u DEF ScoreLocally
<1>19. CASE Crash
  BY <1>19, <1>u DEF Crash
<1>20. CASE Start
  BY <1>20, <1>v DEF Start, NoDrift, MonitorTypes, Severities
<1>21. CASE UNCHANGED vars
  BY <1>21, <1>u DEF vars
<1> QED BY <1>1, <1>2, <1>3, <1>4, <1>5, <1>6, <1>7, <1>8, <1>9, <1>10, <1>11, <1>12,
          <1>13, <1>14, <1>15, <1>16, <1>17, <1>18, <1>19, <1>20, <1>21
       DEF Next, Serve, ServeCall, Visit

LEMMA NextStoreTypes ==
  ASSUME StoreTypes, [Next]_vars
  PROVE  StoreTypes'
<1>u. ASSUME UNCHANGED <<api, dashboard>> PROVE StoreTypes'
  BY <1>u DEF dashboard, StoreTypes
<1>v. /\ api \in [Requests -> {"no", "yes", "gone"}]
      /\ local \in [Forms -> {"no", "yes", "gone"}]
      /\ page \in [Forms -> {"form", "post", "waiting", "local", "shown_api", "shown_local",
                             "failed"}]
      /\ why \in [Forms -> {None, "unreachable", "unanswered", "refused"}]
  BY DEF StoreTypes
<1>w. /\ Emptied(api) \in [Requests -> {"no", "yes", "gone"}]
      /\ Emptied(local) \in [Forms -> {"no", "yes", "gone"}]
  BY <1>v DEF Emptied
<1>x. ASSUME api' \in [Requests -> {"no", "yes", "gone"}],
             local' \in [Forms -> {"no", "yes", "gone"}], UNCHANGED <<page, why>>
      PROVE  StoreTypes'
  BY <1>v, <1>x DEF StoreTypes
<1> USE DEF request, monitor
<1>1. ASSUME NEW r \in Requests, Begin(r) PROVE StoreTypes'
  BY <1>1, <1>u DEF Begin
<1>2. ASSUME NEW r \in Requests, Score(r) PROVE StoreTypes'
  BY <1>2, <1>v, <1>x DEF Score, dashboard
<1>3. ASSUME NEW r \in Requests, RecordSuccess(r) PROVE StoreTypes'
  BY <1>3, <1>u DEF RecordSuccess
<1>4. ASSUME NEW r \in Requests, Handle(r) PROVE StoreTypes'
  BY <1>4, <1>u DEF Handle
<1>5. ASSUME NEW r \in Requests, PassUnhandled(r) PROVE StoreTypes'
  BY <1>5, <1>u DEF PassUnhandled
<1>6. ASSUME NEW r \in Requests, HandleUnexpected(r) PROVE StoreTypes'
  BY <1>6, <1>u DEF HandleUnexpected
<1>7. ASSUME NEW r \in Requests, Reply(r) PROVE StoreTypes'
  BY <1>7, <1>u DEF Reply
<1>8. ASSUME NEW c \in Calls, Call(c) PROVE StoreTypes'
  BY <1>8, <1>u DEF Call
<1>9. ASSUME NEW c \in Calls, RejectSchema(c) PROVE StoreTypes'
  BY <1>9, <1>u DEF RejectSchema
<1>10. ASSUME NEW c \in Calls, Analyze(c) PROVE StoreTypes'
  BY <1>10, <1>u DEF Analyze
<1>11. ASSUME NEW c \in Calls, Publish(c) PROVE StoreTypes'
  BY <1>11, <1>u DEF Publish, Answer, Raise
<1>12. ASSUME NEW c \in Calls, ResetState(c) PROVE StoreTypes'
  BY <1>12, <1>v, <1>w, <1>x DEF ResetState
<1>13. ASSUME NEW c \in Calls, Read(c) PROVE StoreTypes'
  BY <1>13, <1>u DEF Read
<1>14. ASSUME NEW f \in Forms, CheckApi(f) PROVE StoreTypes'
  BY <1>14, <1>v DEF CheckApi, Show, FallBack, StoreTypes
<1>15. ASSUME NEW f \in Forms, Post(f) PROVE StoreTypes'
  BY <1>15, <1>v DEF Post, Show, FallBack, StoreTypes
<1>16. ASSUME NEW f \in Forms, ReadAnswer(f) PROVE StoreTypes'
  BY <1>16, <1>v DEF ReadAnswer, Show, FallBack, StoreTypes
<1>17. ASSUME NEW f \in Forms, GiveUp(f) PROVE StoreTypes'
  BY <1>17, <1>v DEF GiveUp, Show, FallBack, StoreTypes
<1>18. ASSUME NEW f \in Forms, ScoreLocally(f) PROVE StoreTypes'
  BY <1>18, <1>v DEF ScoreLocally, Show, FallBack, StoreTypes
<1>19. CASE Crash
  BY <1>19, <1>v, <1>w, <1>x DEF Crash, dashboard
<1>20. CASE Start
  BY <1>20, <1>u DEF Start
<1>21. CASE UNCHANGED vars
  BY <1>21, <1>u DEF vars
<1> QED BY <1>1, <1>2, <1>3, <1>4, <1>5, <1>6, <1>7, <1>8, <1>9, <1>10, <1>11, <1>12,
          <1>13, <1>14, <1>15, <1>16, <1>17, <1>18, <1>19, <1>20, <1>21
       DEF Next, Serve, ServeCall, Visit

----------------------------------------------------------------------------
(* The books.  Both accounts are balances between counters and numbers of   *)
(* requests; they are inductive once the responses on their way are entered *)
(* too, each until the middleware has counted it.                           *)
Uncounted == {r \in Requests : /\ Here(r) /\ route[r] \in Scoring
                                 /\ \/ stage[r] \in {"running", "scored"}
                                    \/ outcome[r] \in {"backend", "runtime", "other"}
                                    \/ (outcome[r] = "invalid" /\ stage[r] = "raised")}
Waiting4  == {r \in Requests : /\ stage[r] = "replying"
                                /\ outcome[r] \in {"schema", "invalid", "no_records"}}
Refused4  == {r \in Requests : Here(r) /\ outcome[r] \in {"no_records"}}
Waiting5  == {r \in Requests : /\ stage[r] = "replying"
                                /\ outcome[r] \in {"backend", "runtime", "no_profile",
                                                   "no_explanation"}}
Refused5  == {r \in Requests : Here(r) /\ outcome[r] \in {"no_profile", "no_explanation"}}
Passing   == {r \in Requests : stage[r] = "unhandled"}
Lost      == {r \in Requests : Here(r) /\ outcome[r] = "backend"}
Losing    == {r \in Requests : stage[r] = "raised" /\ outcome[r] = "backend"}

Balanced ==
  /\ metrics.attempts = metrics.successes + metrics.failures + Cardinality(Uncounted)
  /\ metrics.class[4] + Cardinality(Waiting4)
       = metrics.schema + metrics.failures + Cardinality(Refused4)
  /\ metrics.class[5] + Cardinality(Waiting5)
       = metrics.uninitialized + metrics.lookups + metrics.internal
         + Cardinality(Refused5) + Cardinality(Passing)
  /\ metrics.lookups + Cardinality(Losing) = Cardinality(Lost)

Down == \A r \in Requests : stage[r] \in {"idle", "old", "lost"}

BooksInv == /\ up => Balanced
            /\ ~up => Down

(* What a step that takes P to Q by moving at most r does to the number.    *)
Follows(P, Q, r) ==
  /\ Cardinality(P) \in Nat /\ Cardinality(Q) \in Nat
  /\ (r \in P <=> r \in Q) => Cardinality(Q) = Cardinality(P)
  /\ r \notin P /\ r \in Q => Cardinality(Q) = Cardinality(P) + 1
  /\ r \in P /\ r \notin Q => Cardinality(P) = Cardinality(Q) + 1

LEMMA OneElement ==
  ASSUME NEW P \in SUBSET Requests, NEW Q \in SUBSET Requests, NEW r \in Requests,
         P \ {r} = Q \ {r}
  PROVE  Follows(P, Q, r)
<1>1. IsFiniteSet(P) /\ IsFiniteSet(Q)
  BY FS_Subset, ApiAssumption
<1>2. Cardinality(P) \in Nat /\ Cardinality(Q) \in Nat
  BY <1>1, FS_CardinalityType
<1>3. CASE r \in P <=> r \in Q
  <2>1. P = Q
    BY <1>3
  <2> QED BY <1>2, <1>3, <2>1 DEF Follows
<1>4. CASE r \notin P /\ r \in Q
  <2>1. Q = P \cup {r}
    BY <1>4
  <2>2. Cardinality(P \cup {r}) = Cardinality(P) + 1
    BY <1>1, <1>4, FS_AddElement, Zenon
  <2>3. Cardinality(Q) = Cardinality(P) + 1
    BY <2>1, <2>2, Zenon
  <2> QED BY <1>2, <1>4, <2>3 DEF Follows
<1>5. CASE r \in P /\ r \notin Q
  <2>1. P = Q \cup {r}
    BY <1>5
  <2>2. Cardinality(Q \cup {r}) = Cardinality(Q) + 1
    BY <1>1, <1>5, FS_AddElement, Zenon
  <2>3. Cardinality(P) = Cardinality(Q) + 1
    BY <2>1, <2>2, Zenon
  <2> QED BY <1>2, <1>5, <2>3 DEF Follows
<1> QED BY <1>3, <1>4, <1>5

(* A step of one request leaves the others where they are in the books.     *)
Moves(r) ==
  /\ Follows(Uncounted, Uncounted', r)
  /\ Follows(Waiting4, Waiting4', r)
  /\ Follows(Refused4, Refused4', r)
  /\ Follows(Waiting5, Waiting5', r)
  /\ Follows(Refused5, Refused5', r)
  /\ Follows(Passing, Passing', r)
  /\ Follows(Lost, Lost', r)
  /\ Follows(Losing, Losing', r)

LEMMA OneRequest ==
  ASSUME NEW r \in Requests, up, up',
         \A q \in Requests \ {r} :
           stage'[q] = stage[q] /\ outcome'[q] = outcome[q] /\ route'[q] = route[q]
  PROVE  Moves(r)
<1>1. /\ Uncounted \in SUBSET Requests /\ Uncounted' \in SUBSET Requests
      /\ Uncounted \ {r} = Uncounted' \ {r}
  BY DEF Uncounted, Here
<1>2. /\ Waiting4 \in SUBSET Requests /\ Waiting4' \in SUBSET Requests
      /\ Waiting4 \ {r} = Waiting4' \ {r}
  BY DEF Waiting4, Here
<1>3. /\ Refused4 \in SUBSET Requests /\ Refused4' \in SUBSET Requests
      /\ Refused4 \ {r} = Refused4' \ {r}
  BY DEF Refused4, Here
<1>4. /\ Waiting5 \in SUBSET Requests /\ Waiting5' \in SUBSET Requests
      /\ Waiting5 \ {r} = Waiting5' \ {r}
  BY DEF Waiting5, Here
<1>5. /\ Refused5 \in SUBSET Requests /\ Refused5' \in SUBSET Requests
      /\ Refused5 \ {r} = Refused5' \ {r}
  BY DEF Refused5, Here
<1>6. /\ Passing \in SUBSET Requests /\ Passing' \in SUBSET Requests
      /\ Passing \ {r} = Passing' \ {r}
  BY DEF Passing, Here
<1>7. Lost \in SUBSET Requests /\ Lost' \in SUBSET Requests /\ Lost \ {r} = Lost' \ {r}
  BY DEF Lost, Here
<1>8. Losing \in SUBSET Requests /\ Losing' \in SUBSET Requests /\ Losing \ {r} = Losing' \ {r}
  BY DEF Losing, Here
<1>11. Follows(Uncounted, Uncounted', r)
  BY <1>1, OneElement
<1>12. Follows(Waiting4, Waiting4', r)
  BY <1>2, OneElement
<1>13. Follows(Refused4, Refused4', r)
  BY <1>3, OneElement
<1>14. Follows(Waiting5, Waiting5', r)
  BY <1>4, OneElement
<1>15. Follows(Refused5, Refused5', r)
  BY <1>5, OneElement
<1>16. Follows(Passing, Passing', r)
  BY <1>6, OneElement
<1>17. Follows(Lost, Lost', r)
  BY <1>7, OneElement
<1>18. Follows(Losing, Losing', r)
  BY <1>8, OneElement
<1> QED BY <1>11, <1>12, <1>13, <1>14, <1>15, <1>16, <1>17, <1>18 DEF Moves

(* The accounts count in natural numbers.                                   *)
LEMMA Numbers ==
  /\ Cardinality(Uncounted) \in Nat
  /\ Cardinality(Waiting4) \in Nat
  /\ Cardinality(Refused4) \in Nat
  /\ Cardinality(Waiting5) \in Nat
  /\ Cardinality(Refused5) \in Nat
  /\ Cardinality(Passing) \in Nat
  /\ Cardinality(Lost) \in Nat
  /\ Cardinality(Losing) \in Nat
<1>1. Uncounted \subseteq Requests /\ IsFiniteSet(Requests)
  BY ApiAssumption DEF Uncounted
<1>2. Waiting4 \subseteq Requests /\ IsFiniteSet(Requests)
  BY ApiAssumption DEF Waiting4
<1>3. Refused4 \subseteq Requests /\ IsFiniteSet(Requests)
  BY ApiAssumption DEF Refused4
<1>4. Waiting5 \subseteq Requests /\ IsFiniteSet(Requests)
  BY ApiAssumption DEF Waiting5
<1>5. Refused5 \subseteq Requests /\ IsFiniteSet(Requests)
  BY ApiAssumption DEF Refused5
<1>6. Passing \subseteq Requests /\ IsFiniteSet(Requests)
  BY ApiAssumption DEF Passing
<1>7. Lost \subseteq Requests /\ IsFiniteSet(Requests)
  BY ApiAssumption DEF Lost
<1>8. Losing \subseteq Requests /\ IsFiniteSet(Requests)
  BY ApiAssumption DEF Losing
<1> QED BY <1>1, <1>2, <1>3, <1>4, <1>5, <1>6, <1>7, <1>8, FS_Subset, FS_CardinalityType


(* Every step keeps the books: what it adds to a counter it also adds to,   *)
(* or takes from, the requests on the other side of the balance.            *)
LEMMA NextBooks ==
  ASSUME RequestTypes, metrics \in Metrics, RequestsOK, PagesOK, BooksInv, [Next]_vars
  PROVE  BooksInv'
<1>s. Calls \subseteq Requests /\ Forms \subseteq Requests /\ Calls \cap Forms = {}
  BY ApiAssumption DEF Requests
<1>t. /\ route \in [Requests -> Routes] /\ stage \in [Requests -> Stages]
      /\ outcome \in [Requests -> Outcomes]
  BY DEF RequestTypes
<1>m. metrics \in [attempts : Nat, successes : Nat, failures : Nat, schema : Nat,
                   uninitialized : Nat, internal : Nat, explained : Nat, lookups : Nat,
                   total : Nat, class : [{2, 4, 5} -> Nat]]
  BY DEF Metrics
<1>n. /\ metrics.attempts \in Nat /\ metrics.successes \in Nat /\ metrics.failures \in Nat
      /\ metrics.schema \in Nat /\ metrics.uninitialized \in Nat /\ metrics.internal \in Nat
      /\ metrics.lookups \in Nat /\ metrics.class[4] \in Nat /\ metrics.class[5] \in Nat
  BY <1>m
<1>b. up => Balanced
  BY DEF BooksInv
<1>u. ASSUME UNCHANGED <<up, request, metrics>> PROVE BooksInv'
  <2>1. Balanced' = Balanced /\ Down' = Down
    BY <1>u DEF request, Balanced, Down, Uncounted, Waiting4, Refused4, Waiting5, Refused5,
                Passing, Lost, Losing, Here
  <2> QED BY <1>u, <2>1 DEF BooksInv
<1>a. ASSUME NEW r \in Requests,
             \A q \in Requests \ {r} :
               stage'[q] = stage[q] /\ outcome'[q] = outcome[q] /\ route'[q] = route[q],
             up, up', metrics' = metrics,
             r \in Uncounted <=> r \in Uncounted',
             r \in Waiting4 <=> r \in Waiting4',
             r \in Refused4 <=> r \in Refused4',
             r \in Waiting5 <=> r \in Waiting5',
             r \in Refused5 <=> r \in Refused5',
             r \in Passing <=> r \in Passing',
             r \in Lost <=> r \in Lost',
             r \in Losing <=> r \in Losing'
      PROVE  BooksInv'
  <2>1. Moves(r)
    BY <1>a, OneRequest
  <2>2. /\ Cardinality(Uncounted') = Cardinality(Uncounted)
        /\ Cardinality(Waiting4') = Cardinality(Waiting4)
        /\ Cardinality(Refused4') = Cardinality(Refused4)
        /\ Cardinality(Waiting5') = Cardinality(Waiting5)
        /\ Cardinality(Refused5') = Cardinality(Refused5)
        /\ Cardinality(Passing') = Cardinality(Passing)
        /\ Cardinality(Lost') = Cardinality(Lost)
        /\ Cardinality(Losing') = Cardinality(Losing)
    BY <1>a, <2>1 DEF Moves, Follows
  <2>3. Balanced'
    BY <1>a, <1>b, <2>2 DEF Balanced
  <2> QED BY <1>a, <2>3 DEF BooksInv
<1>p. PICK at \in Nat, su \in Nat, fa \in Nat, sc \in Nat, un \in Nat, it \in
      Nat, lo \in Nat, c4 \in Nat, c5 \in Nat, uc \in Nat, w4 \in Nat, r4 \in Nat,
      w5 \in Nat, r5 \in Nat, ps \in Nat, ls \in Nat, lg \in Nat :
        /\ metrics.attempts = at /\ metrics.successes = su
        /\ metrics.failures = fa /\ metrics.schema = sc
        /\ metrics.uninitialized = un /\ metrics.internal = it
        /\ metrics.lookups = lo /\ metrics.class[4] = c4
        /\ metrics.class[5] = c5
        /\ Cardinality(Uncounted) = uc /\ Cardinality(Waiting4) = w4
        /\ Cardinality(Refused4) = r4 /\ Cardinality(Waiting5) = w5
        /\ Cardinality(Refused5) = r5 /\ Cardinality(Passing) = ps
        /\ Cardinality(Lost) = ls /\ Cardinality(Losing) = lg
  BY <1>n, Numbers
<1>q. up => /\ at = su + fa + uc
            /\ c4 + w4 = sc + fa + r4
            /\ c5 + w5 = un + lo + it + r5 + ps
            /\ lo + lg = ls
  BY <1>b, <1>p DEF Balanced
<1> USE DEF monitor, dashboard
<1>1. ASSUME NEW r \in Requests, Begin(r) PROVE BooksInv'
  <2>1. CASE route[r] \in Scoring
    <3>1. \A q \in Requests \ {r} :
            stage'[q] = stage[q] /\ outcome'[q] = outcome[q] /\ route'[q] = route[q]
      BY <1>1, <2>1, <1>s, <1>t DEF Begin, Goto, Becomes, request
    <3>2. /\ r \notin Uncounted /\ r \in Uncounted' /\ (r \in Waiting4 <=> r \in Waiting4')
          /\ (r \in Refused4 <=> r \in Refused4') /\ (r \in Waiting5 <=> r \in Waiting5')
          /\ (r \in Refused5 <=> r \in Refused5') /\ (r \in Passing <=> r \in Passing')
          /\ (r \in Lost <=> r \in Lost') /\ (r \in Losing <=> r \in Losing')
      BY <1>1, <2>1, <1>s, <1>t DEF Begin, Goto, Becomes, request, RequestsOK, RequestOK,
         PagesOK, PageOK, Uncounted, Waiting4, Refused4, Waiting5, Refused5, Passing,
         Lost, Losing, Here, Scoring
    <3>3. r \in Requests /\ up /\ up'
      BY <1>1, <2>1, <1>s DEF Begin
    <3>4. /\ metrics'.attempts = at + 1 /\ metrics'.successes = su
          /\ metrics'.failures = fa /\ metrics'.schema = sc
          /\ metrics'.uninitialized = un /\ metrics'.internal = it
          /\ metrics'.lookups = lo /\ metrics'.class[4] = c4
          /\ metrics'.class[5] = c5
      BY <1>1, <2>1, <1>m, <1>p DEF Begin, Bump, Counted, Status
    <3>5. Moves(r)
      BY <3>1, <3>3, OneRequest
    <3>6. /\ Cardinality(Uncounted') = uc + 1 /\ Cardinality(Waiting4') = w4
          /\ Cardinality(Refused4') = r4 /\ Cardinality(Waiting5') = w5
          /\ Cardinality(Refused5') = r5 /\ Cardinality(Passing') = ps
          /\ Cardinality(Lost') = ls /\ Cardinality(Losing') = lg
      BY <1>p, <3>2, <3>5 DEF Moves, Follows
    <3>7. /\ (at + 1) = su + fa + (uc + 1)
          /\ c4 + w4 = sc + fa + r4
          /\ c5 + w5 = un + lo + it + r5 + ps
          /\ lo + lg = ls
      BY <1>q, <3>3
    <3>8. Balanced'
      BY <3>4, <3>6, <3>7 DEF Balanced
    <3> QED BY <3>3, <3>8 DEF BooksInv
  <2>2. CASE route[r] \notin Scoring
    <3>1. \A q \in Requests \ {r} :
            stage'[q] = stage[q] /\ outcome'[q] = outcome[q] /\ route'[q] = route[q]
      BY <1>1, <2>2, <1>s, <1>t DEF Begin, Goto, Becomes, request
    <3>2. /\ (r \in Uncounted <=> r \in Uncounted') /\ (r \in Waiting4 <=> r \in Waiting4')
          /\ (r \in Refused4 <=> r \in Refused4') /\ (r \in Waiting5 <=> r \in Waiting5')
          /\ (r \in Refused5 <=> r \in Refused5') /\ (r \in Passing <=> r \in Passing')
          /\ (r \in Lost <=> r \in Lost') /\ (r \in Losing <=> r \in Losing')
      BY <1>1, <2>2, <1>s, <1>t DEF Begin, Goto, Becomes, request, RequestsOK, RequestOK,
         PagesOK, PageOK, Uncounted, Waiting4, Refused4, Waiting5, Refused5, Passing,
         Lost, Losing, Here, Scoring
    <3>3. r \in Requests /\ up /\ up'
      BY <1>1, <2>2, <1>s DEF Begin
    <3>4. metrics' = metrics
      BY <1>1, <2>2 DEF Begin
    <3> QED BY <1>a, <3>1, <3>2, <3>3, <3>4
  <2> QED BY <2>1, <2>2
<1>2. ASSUME NEW r \in Requests, Score(r) PROVE BooksInv'
  <2>1. CASE stage' = [stage EXCEPT ![r] = "scored"] /\ outcome' = outcome
    <3>1. \A q \in Requests \ {r} :
            stage'[q] = stage[q] /\ outcome'[q] = outcome[q] /\ route'[q] = route[q]
      BY <1>2, <2>1, <1>s, <1>t DEF Score, Goto, Becomes, Raise, request
    <3>2. /\ (r \in Uncounted <=> r \in Uncounted') /\ (r \in Waiting4 <=> r \in Waiting4')
          /\ (r \in Refused4 <=> r \in Refused4') /\ (r \in Waiting5 <=> r \in Waiting5')
          /\ (r \in Refused5 <=> r \in Refused5') /\ (r \in Passing <=> r \in Passing')
          /\ (r \in Lost <=> r \in Lost') /\ (r \in Losing <=> r \in Losing')
      BY <1>2, <2>1, <1>s, <1>t DEF Score, Goto, Becomes, Raise, request, RequestsOK, RequestOK,
         PagesOK, PageOK, Uncounted, Waiting4, Refused4, Waiting5, Refused5, Passing,
         Lost, Losing, Here, Scoring
    <3>3. r \in Requests /\ up /\ up'
      BY <1>2, <2>1, <1>s DEF Score
    <3>4. metrics' = metrics
      BY <1>2, <2>1 DEF Score
    <3> QED BY <1>a, <3>1, <3>2, <3>3, <3>4
  <2>2. CASE \E e \in {"runtime", "other", "invalid"} : Raise(r, e)
    <3>1. \A q \in Requests \ {r} :
            stage'[q] = stage[q] /\ outcome'[q] = outcome[q] /\ route'[q] = route[q]
      BY <1>2, <2>2, <1>s, <1>t DEF Score, Goto, Becomes, Raise, request
    <3>2. /\ (r \in Uncounted <=> r \in Uncounted') /\ (r \in Waiting4 <=> r \in Waiting4')
          /\ (r \in Refused4 <=> r \in Refused4') /\ (r \in Waiting5 <=> r \in Waiting5')
          /\ (r \in Refused5 <=> r \in Refused5') /\ (r \in Passing <=> r \in Passing')
          /\ (r \in Lost <=> r \in Lost') /\ (r \in Losing <=> r \in Losing')
      BY <1>2, <2>2, <1>s, <1>t DEF Score, Goto, Becomes, Raise, request, RequestsOK, RequestOK,
         PagesOK, PageOK, Uncounted, Waiting4, Refused4, Waiting5, Refused5, Passing,
         Lost, Losing, Here, Scoring
    <3>3. r \in Requests /\ up /\ up'
      BY <1>2, <2>2, <1>s DEF Score
    <3>4. metrics' = metrics
      BY <1>2, <2>2 DEF Score
    <3> QED BY <1>a, <3>1, <3>2, <3>3, <3>4
  <2>3. CASE Raise(r, "backend")
    <3>1. \A q \in Requests \ {r} :
            stage'[q] = stage[q] /\ outcome'[q] = outcome[q] /\ route'[q] = route[q]
      BY <1>2, <2>3, <1>s, <1>t DEF Score, Goto, Becomes, Raise, request
    <3>2. /\ (r \in Uncounted <=> r \in Uncounted') /\ (r \in Waiting4 <=> r \in Waiting4')
          /\ (r \in Refused4 <=> r \in Refused4') /\ (r \in Waiting5 <=> r \in Waiting5')
          /\ (r \in Refused5 <=> r \in Refused5') /\ (r \in Passing <=> r \in Passing')
          /\ r \notin Lost /\ r \in Lost' /\ r \notin Losing /\ r \in Losing'
      BY <1>2, <2>3, <1>s, <1>t DEF Score, Goto, Becomes, Raise, request, RequestsOK, RequestOK,
         PagesOK, PageOK, Uncounted, Waiting4, Refused4, Waiting5, Refused5, Passing,
         Lost, Losing, Here, Scoring
    <3>3. r \in Requests /\ up /\ up'
      BY <1>2, <2>3, <1>s DEF Score
    <3>4. /\ metrics'.attempts = at /\ metrics'.successes = su
          /\ metrics'.failures = fa /\ metrics'.schema = sc
          /\ metrics'.uninitialized = un /\ metrics'.internal = it
          /\ metrics'.lookups = lo /\ metrics'.class[4] = c4
          /\ metrics'.class[5] = c5
      BY <1>2, <2>3, <1>m, <1>p DEF Score, Bump, Counted, Status, Raise
    <3>5. Moves(r)
      BY <3>1, <3>3, OneRequest
    <3>6. /\ Cardinality(Uncounted') = uc /\ Cardinality(Waiting4') = w4
          /\ Cardinality(Refused4') = r4 /\ Cardinality(Waiting5') = w5
          /\ Cardinality(Refused5') = r5 /\ Cardinality(Passing') = ps
          /\ Cardinality(Lost') = ls + 1 /\ Cardinality(Losing') = lg + 1
      BY <1>p, <3>2, <3>5 DEF Moves, Follows
    <3>7. /\ at = su + fa + uc
          /\ c4 + w4 = sc + fa + r4
          /\ c5 + w5 = un + lo + it + r5 + ps
          /\ lo + (lg + 1) = (ls + 1)
      BY <1>q, <3>3
    <3>8. Balanced'
      BY <3>4, <3>6, <3>7 DEF Balanced
    <3> QED BY <3>3, <3>8 DEF BooksInv
  <2> QED BY <1>2, <2>1, <2>2, <2>3 DEF Score, Goto
<1>3. ASSUME NEW r \in Requests, RecordSuccess(r) PROVE BooksInv'
  <2>1. CASE Becomes(r, "ok")
    <3>1. \A q \in Requests \ {r} :
            stage'[q] = stage[q] /\ outcome'[q] = outcome[q] /\ route'[q] = route[q]
      BY <1>3, <2>1, <1>s, <1>t DEF RecordSuccess, Goto, Becomes, request
    <3>2. /\ r \in Uncounted /\ r \notin Uncounted' /\ (r \in Waiting4 <=> r \in Waiting4')
          /\ (r \in Refused4 <=> r \in Refused4') /\ (r \in Waiting5 <=> r \in Waiting5')
          /\ (r \in Refused5 <=> r \in Refused5') /\ (r \in Passing <=> r \in Passing')
          /\ (r \in Lost <=> r \in Lost') /\ (r \in Losing <=> r \in Losing')
      BY <1>3, <2>1, <1>s, <1>t
         DEF RecordSuccess, Goto, Becomes, request, RequestsOK, RequestOK,
         PagesOK, PageOK, Uncounted, Waiting4, Refused4, Waiting5, Refused5, Passing,
         Lost, Losing, Here, Scoring
    <3>3. r \in Requests /\ up /\ up'
      BY <1>3, <2>1, <1>s DEF RecordSuccess
    <3>4. /\ metrics'.attempts = at /\ metrics'.successes = su + 1
          /\ metrics'.failures = fa /\ metrics'.schema = sc
          /\ metrics'.uninitialized = un /\ metrics'.internal = it
          /\ metrics'.lookups = lo /\ metrics'.class[4] = c4
          /\ metrics'.class[5] = c5
      BY <1>3, <2>1, <1>m, <1>p DEF RecordSuccess, Bump, Counted, Status
    <3>5. Moves(r)
      BY <3>1, <3>3, OneRequest
    <3>6. /\ Cardinality(Uncounted') = uc - 1 /\ Cardinality(Waiting4') = w4
          /\ Cardinality(Refused4') = r4 /\ Cardinality(Waiting5') = w5
          /\ Cardinality(Refused5') = r5 /\ Cardinality(Passing') = ps
          /\ Cardinality(Lost') = ls /\ Cardinality(Losing') = lg
      BY <1>p, <3>2, <3>5 DEF Moves, Follows
    <3>7. /\ at = (su + 1) + fa + (uc - 1)
          /\ c4 + w4 = sc + fa + r4
          /\ c5 + w5 = un + lo + it + r5 + ps
          /\ lo + lg = ls
      BY <1>q, <3>3
    <3>8. Balanced'
      BY <3>4, <3>6, <3>7 DEF Balanced
    <3> QED BY <3>3, <3>8 DEF BooksInv
  <2>2. CASE Becomes(r, "no_explanation")
    <3>1. \A q \in Requests \ {r} :
            stage'[q] = stage[q] /\ outcome'[q] = outcome[q] /\ route'[q] = route[q]
      BY <1>3, <2>2, <1>s, <1>t DEF RecordSuccess, Goto, Becomes, request
    <3>2. /\ r \in Uncounted /\ r \notin Uncounted' /\ (r \in Waiting4 <=> r \in Waiting4')
          /\ (r \in Refused4 <=> r \in Refused4') /\ r \notin Waiting5 /\ r \in Waiting5'
          /\ r \notin Refused5 /\ r \in Refused5' /\ (r \in Passing <=> r \in Passing')
          /\ (r \in Lost <=> r \in Lost') /\ (r \in Losing <=> r \in Losing')
      BY <1>3, <2>2, <1>s, <1>t
         DEF RecordSuccess, Goto, Becomes, request, RequestsOK, RequestOK,
         PagesOK, PageOK, Uncounted, Waiting4, Refused4, Waiting5, Refused5, Passing,
         Lost, Losing, Here, Scoring
    <3>3. r \in Requests /\ up /\ up'
      BY <1>3, <2>2, <1>s DEF RecordSuccess
    <3>4. /\ metrics'.attempts = at /\ metrics'.successes = su + 1
          /\ metrics'.failures = fa /\ metrics'.schema = sc
          /\ metrics'.uninitialized = un /\ metrics'.internal = it
          /\ metrics'.lookups = lo /\ metrics'.class[4] = c4
          /\ metrics'.class[5] = c5
      BY <1>3, <2>2, <1>m, <1>p DEF RecordSuccess, Bump, Counted, Status
    <3>5. Moves(r)
      BY <3>1, <3>3, OneRequest
    <3>6. /\ Cardinality(Uncounted') = uc - 1 /\ Cardinality(Waiting4') = w4
          /\ Cardinality(Refused4') = r4 /\ Cardinality(Waiting5') = w5 + 1
          /\ Cardinality(Refused5') = r5 + 1 /\ Cardinality(Passing') = ps
          /\ Cardinality(Lost') = ls /\ Cardinality(Losing') = lg
      BY <1>p, <3>2, <3>5 DEF Moves, Follows
    <3>7. /\ at = (su + 1) + fa + (uc - 1)
          /\ c4 + w4 = sc + fa + r4
          /\ c5 + (w5 + 1) = un + lo + it + (r5 + 1) + ps
          /\ lo + lg = ls
      BY <1>q, <3>3
    <3>8. Balanced'
      BY <3>4, <3>6, <3>7 DEF Balanced
    <3> QED BY <3>3, <3>8 DEF BooksInv
  <2> QED BY <1>3, <2>1, <2>2 DEF RecordSuccess
<1>4. ASSUME NEW r \in Requests, Handle(r) PROVE BooksInv'
  <2>1. CASE outcome[r] = "invalid"
    <3>1. \A q \in Requests \ {r} :
            stage'[q] = stage[q] /\ outcome'[q] = outcome[q] /\ route'[q] = route[q]
      BY <1>4, <2>1, <1>s, <1>t DEF Handle, Goto, Becomes, request
    <3>2. /\ r \in Uncounted /\ r \notin Uncounted' /\ r \notin Waiting4 /\ r \in Waiting4'
          /\ (r \in Refused4 <=> r \in Refused4') /\ (r \in Waiting5 <=> r \in Waiting5')
          /\ (r \in Refused5 <=> r \in Refused5') /\ (r \in Passing <=> r \in Passing')
          /\ (r \in Lost <=> r \in Lost') /\ (r \in Losing <=> r \in Losing')
      BY <1>4, <2>1, <1>s, <1>t DEF Handle, Goto, Becomes, request, RequestsOK, RequestOK,
         PagesOK, PageOK, Uncounted, Waiting4, Refused4, Waiting5, Refused5, Passing,
         Lost, Losing, Here, Scoring
    <3>3. r \in Requests /\ up /\ up'
      BY <1>4, <2>1, <1>s DEF Handle
    <3>4. /\ metrics'.attempts = at /\ metrics'.successes = su
          /\ metrics'.failures = fa + 1 /\ metrics'.schema = sc
          /\ metrics'.uninitialized = un /\ metrics'.internal = it
          /\ metrics'.lookups = lo /\ metrics'.class[4] = c4
          /\ metrics'.class[5] = c5
      BY <1>4, <2>1, <1>m, <1>p DEF Handle, Bump, Counted, Status
    <3>5. Moves(r)
      BY <3>1, <3>3, OneRequest
    <3>6. /\ Cardinality(Uncounted') = uc - 1 /\ Cardinality(Waiting4') = w4 + 1
          /\ Cardinality(Refused4') = r4 /\ Cardinality(Waiting5') = w5
          /\ Cardinality(Refused5') = r5 /\ Cardinality(Passing') = ps
          /\ Cardinality(Lost') = ls /\ Cardinality(Losing') = lg
      BY <1>p, <3>2, <3>5 DEF Moves, Follows
    <3>7. /\ at = su + (fa + 1) + (uc - 1)
          /\ c4 + (w4 + 1) = sc + (fa + 1) + r4
          /\ c5 + w5 = un + lo + it + r5 + ps
          /\ lo + lg = ls
      BY <1>q, <3>3
    <3>8. Balanced'
      BY <3>4, <3>6, <3>7 DEF Balanced
    <3> QED BY <3>3, <3>8 DEF BooksInv
  <2>2. CASE outcome[r] = "backend"
    <3>1. \A q \in Requests \ {r} :
            stage'[q] = stage[q] /\ outcome'[q] = outcome[q] /\ route'[q] = route[q]
      BY <1>4, <2>2, <1>s, <1>t DEF Handle, Goto, Becomes, request
    <3>2. /\ (r \in Uncounted <=> r \in Uncounted') /\ (r \in Waiting4 <=> r \in Waiting4')
          /\ (r \in Refused4 <=> r \in Refused4') /\ r \notin Waiting5 /\ r \in Waiting5'
          /\ (r \in Refused5 <=> r \in Refused5') /\ (r \in Passing <=> r \in Passing')
          /\ (r \in Lost <=> r \in Lost') /\ r \in Losing /\ r \notin Losing'
      BY <1>4, <2>2, <1>s, <1>t DEF Handle, Goto, Becomes, request, RequestsOK, RequestOK,
         PagesOK, PageOK, Uncounted, Waiting4, Refused4, Waiting5, Refused5, Passing,
         Lost, Losing, Here, Scoring
    <3>3. r \in Requests /\ up /\ up'
      BY <1>4, <2>2, <1>s DEF Handle
    <3>4. /\ metrics'.attempts = at /\ metrics'.successes = su
          /\ metrics'.failures = fa /\ metrics'.schema = sc
          /\ metrics'.uninitialized = un /\ metrics'.internal = it
          /\ metrics'.lookups = lo + 1 /\ metrics'.class[4] = c4
          /\ metrics'.class[5] = c5
      BY <1>4, <2>2, <1>m, <1>p DEF Handle, Bump, Counted, Status
    <3>5. Moves(r)
      BY <3>1, <3>3, OneRequest
    <3>6. /\ Cardinality(Uncounted') = uc /\ Cardinality(Waiting4') = w4
          /\ Cardinality(Refused4') = r4 /\ Cardinality(Waiting5') = w5 + 1
          /\ Cardinality(Refused5') = r5 /\ Cardinality(Passing') = ps
          /\ Cardinality(Lost') = ls /\ Cardinality(Losing') = lg - 1
      BY <1>p, <3>2, <3>5 DEF Moves, Follows
    <3>7. /\ at = su + fa + uc
          /\ c4 + w4 = sc + fa + r4
          /\ c5 + (w5 + 1) = un + (lo + 1) + it + r5 + ps
          /\ (lo + 1) + (lg - 1) = ls
      BY <1>q, <3>3
    <3>8. Balanced'
      BY <3>4, <3>6, <3>7 DEF Balanced
    <3> QED BY <3>3, <3>8 DEF BooksInv
  <2>3. CASE outcome[r] = "runtime"
    <3>1. \A q \in Requests \ {r} :
            stage'[q] = stage[q] /\ outcome'[q] = outcome[q] /\ route'[q] = route[q]
      BY <1>4, <2>3, <1>s, <1>t DEF Handle, Goto, Becomes, request
    <3>2. /\ (r \in Uncounted <=> r \in Uncounted') /\ (r \in Waiting4 <=> r \in Waiting4')
          /\ (r \in Refused4 <=> r \in Refused4') /\ r \notin Waiting5 /\ r \in Waiting5'
          /\ (r \in Refused5 <=> r \in Refused5') /\ (r \in Passing <=> r \in Passing')
          /\ (r \in Lost <=> r \in Lost') /\ (r \in Losing <=> r \in Losing')
      BY <1>4, <2>3, <1>s, <1>t DEF Handle, Goto, Becomes, request, RequestsOK, RequestOK,
         PagesOK, PageOK, Uncounted, Waiting4, Refused4, Waiting5, Refused5, Passing,
         Lost, Losing, Here, Scoring
    <3>3. r \in Requests /\ up /\ up'
      BY <1>4, <2>3, <1>s DEF Handle
    <3>4. /\ metrics'.attempts = at /\ metrics'.successes = su
          /\ metrics'.failures = fa /\ metrics'.schema = sc
          /\ metrics'.uninitialized = un + 1 /\ metrics'.internal = it
          /\ metrics'.lookups = lo /\ metrics'.class[4] = c4
          /\ metrics'.class[5] = c5
      BY <1>4, <2>3, <1>m, <1>p DEF Handle, Bump, Counted, Status
    <3>5. Moves(r)
      BY <3>1, <3>3, OneRequest
    <3>6. /\ Cardinality(Uncounted') = uc /\ Cardinality(Waiting4') = w4
          /\ Cardinality(Refused4') = r4 /\ Cardinality(Waiting5') = w5 + 1
          /\ Cardinality(Refused5') = r5 /\ Cardinality(Passing') = ps
          /\ Cardinality(Lost') = ls /\ Cardinality(Losing') = lg
      BY <1>p, <3>2, <3>5 DEF Moves, Follows
    <3>7. /\ at = su + fa + uc
          /\ c4 + w4 = sc + fa + r4
          /\ c5 + (w5 + 1) = (un + 1) + lo + it + r5 + ps
          /\ lo + lg = ls
      BY <1>q, <3>3
    <3>8. Balanced'
      BY <3>4, <3>6, <3>7 DEF Balanced
    <3> QED BY <3>3, <3>8 DEF BooksInv
  <2> QED BY <1>4, <2>1, <2>2, <2>3 DEF Handle, RequestsOK, RequestOK, Exceptions
<1>5. ASSUME NEW r \in Requests, PassUnhandled(r) PROVE BooksInv'
  <2>1. \A q \in Requests \ {r} :
          stage'[q] = stage[q] /\ outcome'[q] = outcome[q] /\ route'[q] = route[q]
    BY <1>5, <1>s, <1>t DEF PassUnhandled, Goto, Becomes, request
  <2>2. /\ (r \in Uncounted <=> r \in Uncounted') /\ (r \in Waiting4 <=> r \in Waiting4')
        /\ (r \in Refused4 <=> r \in Refused4') /\ (r \in Waiting5 <=> r \in Waiting5')
        /\ (r \in Refused5 <=> r \in Refused5') /\ r \notin Passing /\ r \in Passing'
        /\ (r \in Lost <=> r \in Lost') /\ (r \in Losing <=> r \in Losing')
    BY <1>5, <1>s, <1>t
       DEF PassUnhandled, Goto, Becomes, request, RequestsOK, RequestOK, PagesOK, PageOK,
       Uncounted, Waiting4, Refused4, Waiting5, Refused5, Passing, Lost, Losing, Here, Scoring
  <2>3. r \in Requests /\ up /\ up'
    BY <1>5, <1>s DEF PassUnhandled
  <2>4. /\ metrics'.attempts = at /\ metrics'.successes = su
        /\ metrics'.failures = fa /\ metrics'.schema = sc
        /\ metrics'.uninitialized = un /\ metrics'.internal = it
        /\ metrics'.lookups = lo /\ metrics'.class[4] = c4
        /\ metrics'.class[5] = c5 + 1
    BY <1>5, <1>m, <1>p DEF PassUnhandled, Bump, Counted, Status
  <2>5. Moves(r)
    BY <2>1, <2>3, OneRequest
  <2>6. /\ Cardinality(Uncounted') = uc /\ Cardinality(Waiting4') = w4
        /\ Cardinality(Refused4') = r4 /\ Cardinality(Waiting5') = w5
        /\ Cardinality(Refused5') = r5 /\ Cardinality(Passing') = ps + 1
        /\ Cardinality(Lost') = ls /\ Cardinality(Losing') = lg
    BY <1>p, <2>2, <2>5 DEF Moves, Follows
  <2>7. /\ at = su + fa + uc
        /\ c4 + w4 = sc + fa + r4
        /\ (c5 + 1) + w5 = un + lo + it + r5 + (ps + 1)
        /\ lo + lg = ls
    BY <1>q, <2>3
  <2>8. Balanced'
    BY <2>4, <2>6, <2>7 DEF Balanced
  <2> QED BY <2>3, <2>8 DEF BooksInv
<1>6. ASSUME NEW r \in Requests, HandleUnexpected(r) PROVE BooksInv'
  <2>1. \A q \in Requests \ {r} :
          stage'[q] = stage[q] /\ outcome'[q] = outcome[q] /\ route'[q] = route[q]
    BY <1>6, <1>s, <1>t DEF HandleUnexpected, Goto, Becomes, request
  <2>2. /\ (r \in Uncounted <=> r \in Uncounted') /\ (r \in Waiting4 <=> r \in Waiting4')
        /\ (r \in Refused4 <=> r \in Refused4') /\ (r \in Waiting5 <=> r \in Waiting5')
        /\ (r \in Refused5 <=> r \in Refused5') /\ r \in Passing /\ r \notin Passing'
        /\ (r \in Lost <=> r \in Lost') /\ (r \in Losing <=> r \in Losing')
    BY <1>6, <1>s, <1>t
       DEF HandleUnexpected, Goto, Becomes, request, RequestsOK, RequestOK, PagesOK, PageOK,
       Uncounted, Waiting4, Refused4, Waiting5, Refused5, Passing, Lost, Losing, Here, Scoring
  <2>3. r \in Requests /\ up /\ up'
    BY <1>6, <1>s DEF HandleUnexpected
  <2>4. /\ metrics'.attempts = at /\ metrics'.successes = su
        /\ metrics'.failures = fa /\ metrics'.schema = sc
        /\ metrics'.uninitialized = un /\ metrics'.internal = it + 1
        /\ metrics'.lookups = lo /\ metrics'.class[4] = c4
        /\ metrics'.class[5] = c5
    BY <1>6, <1>m, <1>p DEF HandleUnexpected, Bump, Counted, Status
  <2>5. Moves(r)
    BY <2>1, <2>3, OneRequest
  <2>6. /\ Cardinality(Uncounted') = uc /\ Cardinality(Waiting4') = w4
        /\ Cardinality(Refused4') = r4 /\ Cardinality(Waiting5') = w5
        /\ Cardinality(Refused5') = r5 /\ Cardinality(Passing') = ps - 1
        /\ Cardinality(Lost') = ls /\ Cardinality(Losing') = lg
    BY <1>p, <2>2, <2>5 DEF Moves, Follows
  <2>7. /\ at = su + fa + uc
        /\ c4 + w4 = sc + fa + r4
        /\ c5 + w5 = un + lo + (it + 1) + r5 + (ps - 1)
        /\ lo + lg = ls
    BY <1>q, <2>3
  <2>8. Balanced'
    BY <2>4, <2>6, <2>7 DEF Balanced
  <2> QED BY <2>3, <2>8 DEF BooksInv
<1>7. ASSUME NEW r \in Requests, Reply(r) PROVE BooksInv'
  <2>1. CASE outcome[r] = "ok"
    <3>1. \A q \in Requests \ {r} :
            stage'[q] = stage[q] /\ outcome'[q] = outcome[q] /\ route'[q] = route[q]
      BY <1>7, <2>1, <1>s, <1>t DEF Reply, Goto, Becomes, request
    <3>2. /\ (r \in Uncounted <=> r \in Uncounted') /\ (r \in Waiting4 <=> r \in Waiting4')
          /\ (r \in Refused4 <=> r \in Refused4') /\ (r \in Waiting5 <=> r \in Waiting5')
          /\ (r \in Refused5 <=> r \in Refused5') /\ (r \in Passing <=> r \in Passing')
          /\ (r \in Lost <=> r \in Lost') /\ (r \in Losing <=> r \in Losing')
      BY <1>7, <2>1, <1>s, <1>t DEF Reply, Goto, Becomes, request, RequestsOK, RequestOK,
         PagesOK, PageOK, Uncounted, Waiting4, Refused4, Waiting5, Refused5, Passing,
         Lost, Losing, Here, Scoring
    <3>3. r \in Requests /\ up /\ up'
      BY <1>7, <2>1, <1>s DEF Reply
    <3>4. /\ metrics'.attempts = at /\ metrics'.successes = su
          /\ metrics'.failures = fa /\ metrics'.schema = sc
          /\ metrics'.uninitialized = un /\ metrics'.internal = it
          /\ metrics'.lookups = lo /\ metrics'.class[4] = c4
          /\ metrics'.class[5] = c5
      BY <1>7, <2>1, <1>m, <1>p DEF Reply, Bump, Counted, Status
    <3>5. Moves(r)
      BY <3>1, <3>3, OneRequest
    <3>6. /\ Cardinality(Uncounted') = uc /\ Cardinality(Waiting4') = w4
          /\ Cardinality(Refused4') = r4 /\ Cardinality(Waiting5') = w5
          /\ Cardinality(Refused5') = r5 /\ Cardinality(Passing') = ps
          /\ Cardinality(Lost') = ls /\ Cardinality(Losing') = lg
      BY <1>p, <3>2, <3>5 DEF Moves, Follows
    <3>7. /\ at = su + fa + uc
          /\ c4 + w4 = sc + fa + r4
          /\ c5 + w5 = un + lo + it + r5 + ps
          /\ lo + lg = ls
      BY <1>q, <3>3
    <3>8. Balanced'
      BY <3>4, <3>6, <3>7 DEF Balanced
    <3> QED BY <3>3, <3>8 DEF BooksInv
  <2>2. CASE outcome[r] \in {"schema", "invalid", "no_records"}
    <3>1. \A q \in Requests \ {r} :
            stage'[q] = stage[q] /\ outcome'[q] = outcome[q] /\ route'[q] = route[q]
      BY <1>7, <2>2, <1>s, <1>t DEF Reply, Goto, Becomes, request
    <3>2. /\ (r \in Uncounted <=> r \in Uncounted') /\ r \in Waiting4 /\ r \notin Waiting4'
          /\ (r \in Refused4 <=> r \in Refused4') /\ (r \in Waiting5 <=> r \in Waiting5')
          /\ (r \in Refused5 <=> r \in Refused5') /\ (r \in Passing <=> r \in Passing')
          /\ (r \in Lost <=> r \in Lost') /\ (r \in Losing <=> r \in Losing')
      BY <1>7, <2>2, <1>s, <1>t DEF Reply, Goto, Becomes, request, RequestsOK, RequestOK,
         PagesOK, PageOK, Uncounted, Waiting4, Refused4, Waiting5, Refused5, Passing,
         Lost, Losing, Here, Scoring
    <3>3. r \in Requests /\ up /\ up'
      BY <1>7, <2>2, <1>s DEF Reply
    <3>4. /\ metrics'.attempts = at /\ metrics'.successes = su
          /\ metrics'.failures = fa /\ metrics'.schema = sc
          /\ metrics'.uninitialized = un /\ metrics'.internal = it
          /\ metrics'.lookups = lo /\ metrics'.class[4] = c4 + 1
          /\ metrics'.class[5] = c5
      BY <1>7, <2>2, <1>m, <1>p DEF Reply, Bump, Counted, Status
    <3>5. Moves(r)
      BY <3>1, <3>3, OneRequest
    <3>6. /\ Cardinality(Uncounted') = uc /\ Cardinality(Waiting4') = w4 - 1
          /\ Cardinality(Refused4') = r4 /\ Cardinality(Waiting5') = w5
          /\ Cardinality(Refused5') = r5 /\ Cardinality(Passing') = ps
          /\ Cardinality(Lost') = ls /\ Cardinality(Losing') = lg
      BY <1>p, <3>2, <3>5 DEF Moves, Follows
    <3>7. /\ at = su + fa + uc
          /\ (c4 + 1) + (w4 - 1) = sc + fa + r4
          /\ c5 + w5 = un + lo + it + r5 + ps
          /\ lo + lg = ls
      BY <1>q, <3>3
    <3>8. Balanced'
      BY <3>4, <3>6, <3>7 DEF Balanced
    <3> QED BY <3>3, <3>8 DEF BooksInv
  <2>3. CASE outcome[r] \in {"backend", "runtime", "no_profile", "no_explanation"}
    <3>1. \A q \in Requests \ {r} :
            stage'[q] = stage[q] /\ outcome'[q] = outcome[q] /\ route'[q] = route[q]
      BY <1>7, <2>3, <1>s, <1>t DEF Reply, Goto, Becomes, request
    <3>2. /\ (r \in Uncounted <=> r \in Uncounted') /\ (r \in Waiting4 <=> r \in Waiting4')
          /\ (r \in Refused4 <=> r \in Refused4') /\ r \in Waiting5 /\ r \notin Waiting5'
          /\ (r \in Refused5 <=> r \in Refused5') /\ (r \in Passing <=> r \in Passing')
          /\ (r \in Lost <=> r \in Lost') /\ (r \in Losing <=> r \in Losing')
      BY <1>7, <2>3, <1>s, <1>t DEF Reply, Goto, Becomes, request, RequestsOK, RequestOK,
         PagesOK, PageOK, Uncounted, Waiting4, Refused4, Waiting5, Refused5, Passing,
         Lost, Losing, Here, Scoring
    <3>3. r \in Requests /\ up /\ up'
      BY <1>7, <2>3, <1>s DEF Reply
    <3>4. /\ metrics'.attempts = at /\ metrics'.successes = su
          /\ metrics'.failures = fa /\ metrics'.schema = sc
          /\ metrics'.uninitialized = un /\ metrics'.internal = it
          /\ metrics'.lookups = lo /\ metrics'.class[4] = c4
          /\ metrics'.class[5] = c5 + 1
      BY <1>7, <2>3, <1>m, <1>p DEF Reply, Bump, Counted, Status
    <3>5. Moves(r)
      BY <3>1, <3>3, OneRequest
    <3>6. /\ Cardinality(Uncounted') = uc /\ Cardinality(Waiting4') = w4
          /\ Cardinality(Refused4') = r4 /\ Cardinality(Waiting5') = w5 - 1
          /\ Cardinality(Refused5') = r5 /\ Cardinality(Passing') = ps
          /\ Cardinality(Lost') = ls /\ Cardinality(Losing') = lg
      BY <1>p, <3>2, <3>5 DEF Moves, Follows
    <3>7. /\ at = su + fa + uc
          /\ c4 + w4 = sc + fa + r4
          /\ (c5 + 1) + (w5 - 1) = un + lo + it + r5 + ps
          /\ lo + lg = ls
      BY <1>q, <3>3
    <3>8. Balanced'
      BY <3>4, <3>6, <3>7 DEF Balanced
    <3> QED BY <3>3, <3>8 DEF BooksInv
  <2> QED BY <1>7, <1>t, <2>1, <2>2, <2>3
     DEF Reply, RequestsOK, RequestOK, Outcomes, Refusals, Exceptions
<1>8. ASSUME NEW c \in Calls, Call(c) PROVE BooksInv'
  <2>1. \A q \in Requests \ {c} :
          stage'[q] = stage[q] /\ outcome'[q] = outcome[q] /\ route'[q] = route[q]
    BY <1>8, <1>s, <1>t DEF Call, Goto, Becomes, request
  <2>2. /\ (c \in Uncounted <=> c \in Uncounted') /\ (c \in Waiting4 <=> c \in Waiting4')
        /\ (c \in Refused4 <=> c \in Refused4') /\ (c \in Waiting5 <=> c \in Waiting5')
        /\ (c \in Refused5 <=> c \in Refused5') /\ (c \in Passing <=> c \in Passing')
        /\ (c \in Lost <=> c \in Lost') /\ (c \in Losing <=> c \in Losing')
    BY <1>8, <1>s, <1>t
       DEF Call, Goto, Becomes, request, RequestsOK, RequestOK, PagesOK, PageOK,
       Uncounted, Waiting4, Refused4, Waiting5, Refused5, Passing, Lost, Losing, Here, Scoring
  <2>3. c \in Requests /\ up /\ up'
    BY <1>8, <1>s DEF Call
  <2>4. metrics' = metrics
    BY <1>8 DEF Call
  <2> QED BY <1>a, <2>1, <2>2, <2>3, <2>4
<1>9. ASSUME NEW c \in Calls, RejectSchema(c) PROVE BooksInv'
  <2>1. \A q \in Requests \ {c} :
          stage'[q] = stage[q] /\ outcome'[q] = outcome[q] /\ route'[q] = route[q]
    BY <1>9, <1>s, <1>t DEF RejectSchema, Goto, Becomes, request
  <2>2. /\ (c \in Uncounted <=> c \in Uncounted') /\ c \notin Waiting4 /\ c \in Waiting4'
        /\ (c \in Refused4 <=> c \in Refused4') /\ (c \in Waiting5 <=> c \in Waiting5')
        /\ (c \in Refused5 <=> c \in Refused5') /\ (c \in Passing <=> c \in Passing')
        /\ (c \in Lost <=> c \in Lost') /\ (c \in Losing <=> c \in Losing')
    BY <1>9, <1>s, <1>t
       DEF RejectSchema, Goto, Becomes, request, RequestsOK, RequestOK, PagesOK, PageOK,
       Uncounted, Waiting4, Refused4, Waiting5, Refused5, Passing, Lost, Losing, Here, Scoring
  <2>3. c \in Requests /\ up /\ up'
    BY <1>9, <1>s DEF RejectSchema
  <2>4. /\ metrics'.attempts = at /\ metrics'.successes = su
        /\ metrics'.failures = fa /\ metrics'.schema = sc + 1
        /\ metrics'.uninitialized = un /\ metrics'.internal = it
        /\ metrics'.lookups = lo /\ metrics'.class[4] = c4
        /\ metrics'.class[5] = c5
    BY <1>9, <1>m, <1>p DEF RejectSchema, Bump, Counted, Status
  <2>5. Moves(c)
    BY <2>1, <2>3, OneRequest
  <2>6. /\ Cardinality(Uncounted') = uc /\ Cardinality(Waiting4') = w4 + 1
        /\ Cardinality(Refused4') = r4 /\ Cardinality(Waiting5') = w5
        /\ Cardinality(Refused5') = r5 /\ Cardinality(Passing') = ps
        /\ Cardinality(Lost') = ls /\ Cardinality(Losing') = lg
    BY <1>p, <2>2, <2>5 DEF Moves, Follows
  <2>7. /\ at = su + fa + uc
        /\ c4 + (w4 + 1) = (sc + 1) + fa + r4
        /\ c5 + w5 = un + lo + it + r5 + ps
        /\ lo + lg = ls
    BY <1>q, <2>3
  <2>8. Balanced'
    BY <2>4, <2>6, <2>7 DEF Balanced
  <2> QED BY <2>3, <2>8 DEF BooksInv
<1>10. ASSUME NEW c \in Calls, Analyze(c) PROVE BooksInv'
  <2>1. CASE Becomes(c, "no_profile") /\ Goto(c, "replying")
    <3>1. \A q \in Requests \ {c} :
            stage'[q] = stage[q] /\ outcome'[q] = outcome[q] /\ route'[q] = route[q]
      BY <1>10, <2>1, <1>s, <1>t DEF Analyze, Goto, Becomes, Raise, request
    <3>2. /\ (c \in Uncounted <=> c \in Uncounted') /\ (c \in Waiting4 <=> c \in Waiting4')
          /\ (c \in Refused4 <=> c \in Refused4') /\ c \notin Waiting5 /\ c \in Waiting5'
          /\ c \notin Refused5 /\ c \in Refused5' /\ (c \in Passing <=> c \in Passing')
          /\ (c \in Lost <=> c \in Lost') /\ (c \in Losing <=> c \in Losing')
      BY <1>10, <2>1, <1>s, <1>t
         DEF Analyze, Goto, Becomes, Raise, request, RequestsOK, RequestOK,
         PagesOK, PageOK, Uncounted, Waiting4, Refused4, Waiting5, Refused5, Passing,
         Lost, Losing, Here, Scoring
    <3>3. c \in Requests /\ up /\ up'
      BY <1>10, <2>1, <1>s DEF Analyze
    <3>4. /\ metrics'.attempts = at /\ metrics'.successes = su
          /\ metrics'.failures = fa /\ metrics'.schema = sc
          /\ metrics'.uninitialized = un /\ metrics'.internal = it
          /\ metrics'.lookups = lo /\ metrics'.class[4] = c4
          /\ metrics'.class[5] = c5
      BY <1>10, <2>1, <1>m, <1>p DEF Analyze, Bump, Counted, Status, Raise
    <3>5. Moves(c)
      BY <3>1, <3>3, OneRequest
    <3>6. /\ Cardinality(Uncounted') = uc /\ Cardinality(Waiting4') = w4
          /\ Cardinality(Refused4') = r4 /\ Cardinality(Waiting5') = w5 + 1
          /\ Cardinality(Refused5') = r5 + 1 /\ Cardinality(Passing') = ps
          /\ Cardinality(Lost') = ls /\ Cardinality(Losing') = lg
      BY <1>p, <3>2, <3>5 DEF Moves, Follows
    <3>7. /\ at = su + fa + uc
          /\ c4 + w4 = sc + fa + r4
          /\ c5 + (w5 + 1) = un + lo + it + (r5 + 1) + ps
          /\ lo + lg = ls
      BY <1>q, <3>3
    <3>8. Balanced'
      BY <3>4, <3>6, <3>7 DEF Balanced
    <3> QED BY <3>3, <3>8 DEF BooksInv
  <2>2. CASE Becomes(c, "no_records") /\ Goto(c, "replying")
    <3>1. \A q \in Requests \ {c} :
            stage'[q] = stage[q] /\ outcome'[q] = outcome[q] /\ route'[q] = route[q]
      BY <1>10, <2>2, <1>s, <1>t DEF Analyze, Goto, Becomes, Raise, request
    <3>2. /\ (c \in Uncounted <=> c \in Uncounted') /\ c \notin Waiting4 /\ c \in Waiting4'
          /\ c \notin Refused4 /\ c \in Refused4' /\ (c \in Waiting5 <=> c \in Waiting5')
          /\ (c \in Refused5 <=> c \in Refused5') /\ (c \in Passing <=> c \in Passing')
          /\ (c \in Lost <=> c \in Lost') /\ (c \in Losing <=> c \in Losing')
      BY <1>10, <2>2, <1>s, <1>t
         DEF Analyze, Goto, Becomes, Raise, request, RequestsOK, RequestOK,
         PagesOK, PageOK, Uncounted, Waiting4, Refused4, Waiting5, Refused5, Passing,
         Lost, Losing, Here, Scoring
    <3>3. c \in Requests /\ up /\ up'
      BY <1>10, <2>2, <1>s DEF Analyze
    <3>4. /\ metrics'.attempts = at /\ metrics'.successes = su
          /\ metrics'.failures = fa /\ metrics'.schema = sc
          /\ metrics'.uninitialized = un /\ metrics'.internal = it
          /\ metrics'.lookups = lo /\ metrics'.class[4] = c4
          /\ metrics'.class[5] = c5
      BY <1>10, <2>2, <1>m, <1>p DEF Analyze, Bump, Counted, Status, Raise
    <3>5. Moves(c)
      BY <3>1, <3>3, OneRequest
    <3>6. /\ Cardinality(Uncounted') = uc /\ Cardinality(Waiting4') = w4 + 1
          /\ Cardinality(Refused4') = r4 + 1 /\ Cardinality(Waiting5') = w5
          /\ Cardinality(Refused5') = r5 /\ Cardinality(Passing') = ps
          /\ Cardinality(Lost') = ls /\ Cardinality(Losing') = lg
      BY <1>p, <3>2, <3>5 DEF Moves, Follows
    <3>7. /\ at = su + fa + uc
          /\ c4 + (w4 + 1) = sc + fa + (r4 + 1)
          /\ c5 + w5 = un + lo + it + r5 + ps
          /\ lo + lg = ls
      BY <1>q, <3>3
    <3>8. Balanced'
      BY <3>4, <3>6, <3>7 DEF Balanced
    <3> QED BY <3>3, <3>8 DEF BooksInv
  <2>3. CASE Raise(c, "other")
    <3>1. \A q \in Requests \ {c} :
            stage'[q] = stage[q] /\ outcome'[q] = outcome[q] /\ route'[q] = route[q]
      BY <1>10, <2>3, <1>s, <1>t DEF Analyze, Goto, Becomes, Raise, request
    <3>2. /\ (c \in Uncounted <=> c \in Uncounted') /\ (c \in Waiting4 <=> c \in Waiting4')
          /\ (c \in Refused4 <=> c \in Refused4') /\ (c \in Waiting5 <=> c \in Waiting5')
          /\ (c \in Refused5 <=> c \in Refused5') /\ (c \in Passing <=> c \in Passing')
          /\ (c \in Lost <=> c \in Lost') /\ (c \in Losing <=> c \in Losing')
      BY <1>10, <2>3, <1>s, <1>t
         DEF Analyze, Goto, Becomes, Raise, request, RequestsOK, RequestOK,
         PagesOK, PageOK, Uncounted, Waiting4, Refused4, Waiting5, Refused5, Passing,
         Lost, Losing, Here, Scoring
    <3>3. c \in Requests /\ up /\ up'
      BY <1>10, <2>3, <1>s DEF Analyze
    <3>4. metrics' = metrics
      BY <1>10, <2>3 DEF Analyze
    <3> QED BY <1>a, <3>1, <3>2, <3>3, <3>4
  <2>4. CASE Goto(c, "computed") /\ outcome' = outcome
    <3>1. \A q \in Requests \ {c} :
            stage'[q] = stage[q] /\ outcome'[q] = outcome[q] /\ route'[q] = route[q]
      BY <1>10, <2>4, <1>s, <1>t DEF Analyze, Goto, Becomes, Raise, request
    <3>2. /\ (c \in Uncounted <=> c \in Uncounted') /\ (c \in Waiting4 <=> c \in Waiting4')
          /\ (c \in Refused4 <=> c \in Refused4') /\ (c \in Waiting5 <=> c \in Waiting5')
          /\ (c \in Refused5 <=> c \in Refused5') /\ (c \in Passing <=> c \in Passing')
          /\ (c \in Lost <=> c \in Lost') /\ (c \in Losing <=> c \in Losing')
      BY <1>10, <2>4, <1>s, <1>t
         DEF Analyze, Goto, Becomes, Raise, request, RequestsOK, RequestOK,
         PagesOK, PageOK, Uncounted, Waiting4, Refused4, Waiting5, Refused5, Passing,
         Lost, Losing, Here, Scoring
    <3>3. c \in Requests /\ up /\ up'
      BY <1>10, <2>4, <1>s DEF Analyze
    <3>4. metrics' = metrics
      BY <1>10, <2>4 DEF Analyze
    <3> QED BY <1>a, <3>1, <3>2, <3>3, <3>4
  <2> QED BY <1>10, <2>1, <2>2, <2>3, <2>4 DEF Analyze
<1>11. ASSUME NEW c \in Calls, Publish(c) PROVE BooksInv'
  <2>1. \A q \in Requests \ {c} :
          stage'[q] = stage[q] /\ outcome'[q] = outcome[q] /\ route'[q] = route[q]
    BY <1>11, <1>s, <1>t DEF Publish, Answer, Raise, Goto, Becomes, request
  <2>2. /\ (c \in Uncounted <=> c \in Uncounted') /\ (c \in Waiting4 <=> c \in Waiting4')
        /\ (c \in Refused4 <=> c \in Refused4') /\ (c \in Waiting5 <=> c \in Waiting5')
        /\ (c \in Refused5 <=> c \in Refused5') /\ (c \in Passing <=> c \in Passing')
        /\ (c \in Lost <=> c \in Lost') /\ (c \in Losing <=> c \in Losing')
    BY <1>11, <1>s, <1>t
       DEF Publish, Answer, Raise, Goto, Becomes, request, RequestsOK, RequestOK, PagesOK, PageOK,
       Uncounted, Waiting4, Refused4, Waiting5, Refused5, Passing, Lost, Losing, Here, Scoring
  <2>3. c \in Requests /\ up /\ up'
    BY <1>11, <1>s DEF Publish, Answer, Raise
  <2>4. metrics' = metrics
    BY <1>11 DEF Publish, Answer, Raise
  <2> QED BY <1>a, <2>1, <2>2, <2>3, <2>4
<1>12. ASSUME NEW c \in Calls, ResetState(c) PROVE BooksInv'
  <2>1. CASE Becomes(c, "ok") /\ Goto(c, "replying")
    <3>1. \A q \in Requests \ {c} :
            stage'[q] = stage[q] /\ outcome'[q] = outcome[q] /\ route'[q] = route[q]
      BY <1>12, <2>1, <1>s, <1>t DEF ResetState, Goto, Becomes, Raise, request
    <3>2. /\ (c \in Uncounted <=> c \in Uncounted') /\ (c \in Waiting4 <=> c \in Waiting4')
          /\ (c \in Refused4 <=> c \in Refused4') /\ (c \in Waiting5 <=> c \in Waiting5')
          /\ (c \in Refused5 <=> c \in Refused5') /\ (c \in Passing <=> c \in Passing')
          /\ (c \in Lost <=> c \in Lost') /\ (c \in Losing <=> c \in Losing')
      BY <1>12, <2>1, <1>s, <1>t
         DEF ResetState, Goto, Becomes, Raise, request, RequestsOK, RequestOK,
         PagesOK, PageOK, Uncounted, Waiting4, Refused4, Waiting5, Refused5, Passing,
         Lost, Losing, Here, Scoring
    <3>3. c \in Requests /\ up /\ up'
      BY <1>12, <2>1, <1>s DEF ResetState
    <3>4. metrics' = metrics
      BY <1>12, <2>1 DEF ResetState
    <3> QED BY <1>a, <3>1, <3>2, <3>3, <3>4
  <2>2. CASE Raise(c, "backend")
    <3>1. \A q \in Requests \ {c} :
            stage'[q] = stage[q] /\ outcome'[q] = outcome[q] /\ route'[q] = route[q]
      BY <1>12, <2>2, <1>s, <1>t DEF ResetState, Goto, Becomes, Raise, request
    <3>2. /\ (c \in Uncounted <=> c \in Uncounted') /\ (c \in Waiting4 <=> c \in Waiting4')
          /\ (c \in Refused4 <=> c \in Refused4') /\ (c \in Waiting5 <=> c \in Waiting5')
          /\ (c \in Refused5 <=> c \in Refused5') /\ (c \in Passing <=> c \in Passing')
          /\ c \notin Lost /\ c \in Lost' /\ c \notin Losing /\ c \in Losing'
      BY <1>12, <2>2, <1>s, <1>t
         DEF ResetState, Goto, Becomes, Raise, request, RequestsOK, RequestOK,
         PagesOK, PageOK, Uncounted, Waiting4, Refused4, Waiting5, Refused5, Passing,
         Lost, Losing, Here, Scoring
    <3>3. c \in Requests /\ up /\ up'
      BY <1>12, <2>2, <1>s DEF ResetState
    <3>4. /\ metrics'.attempts = at /\ metrics'.successes = su
          /\ metrics'.failures = fa /\ metrics'.schema = sc
          /\ metrics'.uninitialized = un /\ metrics'.internal = it
          /\ metrics'.lookups = lo /\ metrics'.class[4] = c4
          /\ metrics'.class[5] = c5
      BY <1>12, <2>2, <1>m, <1>p DEF ResetState, Bump, Counted, Status, Raise
    <3>5. Moves(c)
      BY <3>1, <3>3, OneRequest
    <3>6. /\ Cardinality(Uncounted') = uc /\ Cardinality(Waiting4') = w4
          /\ Cardinality(Refused4') = r4 /\ Cardinality(Waiting5') = w5
          /\ Cardinality(Refused5') = r5 /\ Cardinality(Passing') = ps
          /\ Cardinality(Lost') = ls + 1 /\ Cardinality(Losing') = lg + 1
      BY <1>p, <3>2, <3>5 DEF Moves, Follows
    <3>7. /\ at = su + fa + uc
          /\ c4 + w4 = sc + fa + r4
          /\ c5 + w5 = un + lo + it + r5 + ps
          /\ lo + (lg + 1) = (ls + 1)
      BY <1>q, <3>3
    <3>8. Balanced'
      BY <3>4, <3>6, <3>7 DEF Balanced
    <3> QED BY <3>3, <3>8 DEF BooksInv
  <2> QED BY <1>12, <2>1, <2>2 DEF ResetState
<1>13. ASSUME NEW c \in Calls, Read(c) PROVE BooksInv'
  <2>1. \A q \in Requests \ {c} :
          stage'[q] = stage[q] /\ outcome'[q] = outcome[q] /\ route'[q] = route[q]
    BY <1>13, <1>s, <1>t DEF Read, Goto, Becomes, request
  <2>2. /\ (c \in Uncounted <=> c \in Uncounted') /\ (c \in Waiting4 <=> c \in Waiting4')
        /\ (c \in Refused4 <=> c \in Refused4') /\ (c \in Waiting5 <=> c \in Waiting5')
        /\ (c \in Refused5 <=> c \in Refused5') /\ (c \in Passing <=> c \in Passing')
        /\ (c \in Lost <=> c \in Lost') /\ (c \in Losing <=> c \in Losing')
    BY <1>13, <1>s, <1>t
       DEF Read, Goto, Becomes, request, RequestsOK, RequestOK, PagesOK, PageOK,
       Uncounted, Waiting4, Refused4, Waiting5, Refused5, Passing, Lost, Losing, Here, Scoring
  <2>3. c \in Requests /\ up /\ up'
    BY <1>13, <1>s DEF Read
  <2>4. metrics' = metrics
    BY <1>13 DEF Read
  <2> QED BY <1>a, <2>1, <2>2, <2>3, <2>4
<1>14. ASSUME NEW f \in Forms, CheckApi(f) PROVE BooksInv'
  <2>1. CASE UNCHANGED metrics
    BY <1>14, <1>u, <2>1 DEF CheckApi
  <2>2. CASE up /\ metrics' = Counted(metrics, 200)
    <3>1. /\ metrics'.attempts = metrics.attempts /\ metrics'.successes = metrics.successes
          /\ metrics'.failures = metrics.failures /\ metrics'.schema = metrics.schema
          /\ metrics'.uninitialized = metrics.uninitialized
          /\ metrics'.internal = metrics.internal /\ metrics'.lookups = metrics.lookups
          /\ metrics'.class[4] = metrics.class[4] /\ metrics'.class[5] = metrics.class[5]
      BY <1>m, <2>2 DEF Counted
    <3>2. up' = up /\ UNCHANGED <<stage, outcome, route>>
      BY <1>14 DEF CheckApi, request
    <3>3. /\ Uncounted' = Uncounted /\ Waiting4' = Waiting4 /\ Refused4' = Refused4
          /\ Waiting5' = Waiting5 /\ Refused5' = Refused5 /\ Passing' = Passing
          /\ Lost' = Lost /\ Losing' = Losing
      BY <3>2 DEF Uncounted, Waiting4, Refused4, Waiting5, Refused5, Passing, Lost, Losing, Here
    <3> QED BY <1>b, <2>2, <3>1, <3>2, <3>3 DEF BooksInv, Balanced
  <2> QED BY <1>14, <2>1, <2>2 DEF CheckApi
<1>15. ASSUME NEW f \in Forms, Post(f) PROVE BooksInv'
  <2>1. CASE up
    <3>1. \A q \in Requests \ {f} :
            stage'[q] = stage[q] /\ outcome'[q] = outcome[q] /\ route'[q] = route[q]
      BY <1>15, <2>1, <1>s, <1>t DEF Post, Goto, Becomes, Show, FallBack, request
    <3>2. /\ (f \in Uncounted <=> f \in Uncounted') /\ (f \in Waiting4 <=> f \in Waiting4')
          /\ (f \in Refused4 <=> f \in Refused4') /\ (f \in Waiting5 <=> f \in Waiting5')
          /\ (f \in Refused5 <=> f \in Refused5') /\ (f \in Passing <=> f \in Passing')
          /\ (f \in Lost <=> f \in Lost') /\ (f \in Losing <=> f \in Losing')
      BY <1>15, <2>1, <1>s, <1>t
         DEF Post, Goto, Becomes, Show, FallBack, request, RequestsOK, RequestOK,
         PagesOK, PageOK, Uncounted, Waiting4, Refused4, Waiting5, Refused5, Passing,
         Lost, Losing, Here, Scoring
    <3>3. f \in Requests /\ up /\ up'
      BY <1>15, <2>1, <1>s DEF Post
    <3>4. metrics' = metrics
      BY <1>15, <2>1 DEF Post
    <3> QED BY <1>a, <3>1, <3>2, <3>3, <3>4
  <2>2. CASE ~up
    BY <1>15, <1>u, <2>2 DEF Post, request
  <2> QED BY <2>1, <2>2
<1>16. ASSUME NEW f \in Forms, ReadAnswer(f) PROVE BooksInv'
  BY <1>16, <1>u DEF ReadAnswer
<1>17. ASSUME NEW f \in Forms, GiveUp(f) PROVE BooksInv'
  BY <1>17, <1>u DEF GiveUp
<1>18. ASSUME NEW f \in Forms, ScoreLocally(f) PROVE BooksInv'
  BY <1>18, <1>u DEF ScoreLocally
<1>19. CASE Crash
  <2>1. up' = FALSE /\ \A r \in Requests : stage'[r] \in {"idle", "old", "lost"}
    BY <1>19 DEF Crash
  <2> QED BY <2>1 DEF BooksInv, Down
<1>20. CASE Start
  <2>1. ~up /\ up' /\ metrics' = NoMetrics /\ UNCHANGED <<stage, outcome, route>>
    BY <1>20 DEF Start, request
  <2>2. \A r \in Requests : stage'[r] \in {"idle", "old", "lost"}
    BY <2>1 DEF BooksInv, Down
  <2>3. /\ Uncounted' = {} /\ Waiting4' = {} /\ Refused4' = {} /\ Waiting5' = {}
        /\ Refused5' = {} /\ Passing' = {} /\ Lost' = {} /\ Losing' = {}
    BY <2>2 DEF Uncounted, Waiting4, Refused4, Waiting5, Refused5, Passing, Lost, Losing, Here
  <2>4. Balanced'
    BY <2>1, <2>3, FS_EmptySet DEF Balanced, NoMetrics
  <2> QED BY <2>1, <2>4 DEF BooksInv
<1>21. CASE UNCHANGED vars
  BY <1>21, <1>u DEF vars
<1> QED BY <1>1, <1>2, <1>3, <1>4, <1>5, <1>6, <1>7, <1>8, <1>9, <1>10, <1>11, <1>12,
          <1>13, <1>14, <1>15, <1>16, <1>17, <1>18, <1>19, <1>20, <1>21
       DEF Next, Serve, ServeCall, Visit

----------------------------------------------------------------------------
(* The monitor's reports.  A report the summary calls the latest was        *)
(* published by an analysis that was not over when any other published one  *)
(* began: each analysis has seen only what had been published.              *)
Published == {c \in published : Here(c)}
At(s)     == {c \in Published : level[c] = s}

SeenOK == \A c \in Calls : before[c] \subseteq published

(* What has been published is answered, or an exception of its rendering.   *)
OverOK == \A c \in published : stage[c] \in {"raised", "unhandled", "replying", "answered",
                                             "old", "lost"}

ReportsOK == /\ drift.analyzed = Cardinality(Published)
             /\ \A s \in Severities : drift.counts[s] = Cardinality(At(s))
             /\ drift.latest \in IF Published = {} THEN {None} ELSE Published
             /\ \A c \in Published : drift.latest \notin before[c]

ReportsInv == SeenOK /\ OverOK /\ (up => ReportsOK)

LEMMA InitReports ==
  ASSUME Init
  PROVE  ReportsInv
<1>1. Published = {} /\ \A s \in Severities : At(s) = {}
  BY DEF Init, Published, At
<1>2. drift.analyzed = 0 /\ drift.latest = None /\ \A s \in Severities : drift.counts[s] = 0
  BY DEF Init, NoDrift
<1>3. SeenOK /\ OverOK
  BY DEF Init, SeenOK, OverOK
<1> QED BY <1>1, <1>2, <1>3, FS_EmptySet DEF ReportsInv, ReportsOK

LEMMA NextReports ==
  ASSUME RequestTypes, MonitorTypes, RequestsOK, BooksInv, ReportsInv, [Next]_vars
  PROVE  ReportsInv'
<1>s. Calls \subseteq Requests /\ Forms \subseteq Requests /\ Calls \cap Forms = {}
  BY ApiAssumption DEF Requests
<1>t. /\ route \in [Requests -> Routes] /\ stage \in [Requests -> Stages]
      /\ outcome \in [Requests -> Outcomes] /\ published \subseteq Calls
      /\ level \in [Calls -> Severities] /\ before \in [Calls -> SUBSET Calls]
  BY DEF RequestTypes, MonitorTypes
<1>d. drift \in [analyzed : Nat, counts : [Severities -> Nat], latest : Calls \cup {None}]
  BY DEF MonitorTypes
<1>u. ASSUME UNCHANGED <<up, stage, monitor>> PROVE ReportsInv'
  <2>1. /\ Published' = Published /\ \A s \in Severities : At(s)' = At(s)
    BY <1>u DEF monitor, Published, At, Here
  <2> QED BY <1>u, <2>1 DEF monitor, ReportsInv, ReportsOK, SeenOK, OverOK
(* A step before the publication ...                                        *)
<1>a. ASSUME NEW r \in Requests, up, up', UNCHANGED <<drift, published>>,
             \A q \in Requests \ {r} : stage'[q] = stage[q],
             \A c \in Calls \ {r} : level'[c] = level[c] /\ before'[c] = before[c],
             r \notin published, r \in Calls => before'[r] \subseteq published
      PROVE  ReportsInv'
  <2>1. SeenOK /\ OverOK /\ ReportsOK
    BY <1>a DEF ReportsInv
  <2>2. Published' = Published
    BY <1>s, <1>t, <1>a DEF Published, Here
  <2>3. \A s \in Severities : At(s)' = At(s)
    BY <1>t, <1>a, <2>2 DEF At, Published
  <2>4. SeenOK' /\ OverOK'
    BY <1>s, <1>t, <1>a, <2>1 DEF SeenOK, OverOK
  <2>5. \A c \in Published' : drift'.latest \notin before'[c]
    BY <1>t, <1>a, <2>1, <2>2 DEF ReportsOK, Published
  <2>6. ReportsOK'
    BY <1>a, <2>1, <2>2, <2>3, <2>5 DEF ReportsOK
  <2> QED BY <2>4, <2>6 DEF ReportsInv
(* ... and one after it.                                                    *)
<1>k. ASSUME NEW r \in Requests, up, up', UNCHANGED monitor,
             \A q \in Requests \ {r} : stage'[q] = stage[q],
             stage[r] \in {"raised", "unhandled", "replying"},
             stage'[r] \in {"unhandled", "replying", "answered"}
      PROVE  ReportsInv'
  <2>1. Published' = Published
    BY <1>s, <1>t, <1>k DEF Published, Here, monitor
  <2>2. \A s \in Severities : At(s)' = At(s)
    BY <1>k, <2>1 DEF At, monitor
  <2>3. OverOK'
    BY <1>s, <1>t, <1>k DEF ReportsInv, OverOK, monitor
  <2> QED BY <1>k, <2>1, <2>2, <2>3 DEF ReportsInv, ReportsOK, SeenOK, monitor
<1>e. ASSUME NEW r \in Requests, stage[r] \in {"idle", "queued", "running", "scored", "computed"}
      PROVE  r \notin published
  BY <1>e DEF ReportsInv, OverOK
<1> USE DEF monitor, dashboard
<1>1. ASSUME NEW r \in Requests, Begin(r) PROVE ReportsInv'
  <2>1. /\ up /\ up' /\ UNCHANGED <<drift, published>>
        /\ \A q \in Requests \ {r} : stage'[q] = stage[q]
        /\ \A d \in Calls \ {r} : level'[d] = level[d] /\ before'[d] = before[d]
    BY <1>1, <1>s, <1>t DEF Begin, Goto
  <2>2. r \notin published
    BY <1>1, <1>e DEF Begin
  <2>3. r \in Calls => before'[r] \subseteq published
    BY <1>1, <1>t DEF Begin, ReportsInv, SeenOK
  <2> QED BY <1>a, <2>1, <2>2, <2>3
<1>2. ASSUME NEW r \in Requests, Score(r) PROVE ReportsInv'
  <2>1. /\ r \in Requests /\ up /\ up' /\ UNCHANGED <<drift, published, before>>
        /\ \A q \in Requests \ {r} : stage'[q] = stage[q]
        /\ \A d \in Calls \ {r} : level'[d] = level[d]
    BY <1>2, <1>s, <1>t DEF Score, Goto, Raise
  <2>2. r \notin published
    BY <1>2, <1>e, <2>1 DEF Score
  <2>3. r \in Calls => before'[r] \subseteq published
    BY <2>1 DEF ReportsInv, SeenOK
  <2> QED BY <1>a, <2>1, <2>2, <2>3
<1>3. ASSUME NEW r \in Requests, RecordSuccess(r) PROVE ReportsInv'
  <2>1. /\ r \in Requests /\ up /\ up' /\ UNCHANGED <<drift, published, before>>
        /\ \A q \in Requests \ {r} : stage'[q] = stage[q]
        /\ \A d \in Calls \ {r} : level'[d] = level[d]
    BY <1>3, <1>s, <1>t DEF RecordSuccess, Goto
  <2>2. r \notin published
    BY <1>3, <1>e, <2>1 DEF RecordSuccess
  <2>3. r \in Calls => before'[r] \subseteq published
    BY <2>1 DEF ReportsInv, SeenOK
  <2> QED BY <1>a, <2>1, <2>2, <2>3
<1>4. ASSUME NEW r \in Requests, Handle(r) PROVE ReportsInv'
  BY <1>4, <1>k, <1>t DEF Handle, Goto
<1>5. ASSUME NEW r \in Requests, PassUnhandled(r) PROVE ReportsInv'
  BY <1>5, <1>k, <1>t DEF PassUnhandled, Goto
<1>6. ASSUME NEW r \in Requests, HandleUnexpected(r) PROVE ReportsInv'
  BY <1>6, <1>k, <1>t DEF HandleUnexpected, Goto
<1>7. ASSUME NEW r \in Requests, Reply(r) PROVE ReportsInv'
  BY <1>7, <1>k, <1>t DEF Reply, Goto
<1>8. ASSUME NEW c \in Calls, Call(c) PROVE ReportsInv'
  <2>1. /\ c \in Requests /\ up /\ up' /\ UNCHANGED <<drift, published, before>>
        /\ \A q \in Requests \ {c} : stage'[q] = stage[q]
        /\ \A d \in Calls \ {c} : level'[d] = level[d]
    BY <1>8, <1>s, <1>t DEF Call, Goto
  <2>2. c \notin published
    BY <1>8, <1>e, <2>1 DEF Call
  <2>3. c \in Calls => before'[c] \subseteq published
    BY <2>1 DEF ReportsInv, SeenOK
  <2> QED BY <1>a, <2>1, <2>2, <2>3
<1>9. ASSUME NEW c \in Calls, RejectSchema(c) PROVE ReportsInv'
  <2>1. /\ c \in Requests /\ up /\ up' /\ UNCHANGED <<drift, published, before>>
        /\ \A q \in Requests \ {c} : stage'[q] = stage[q]
        /\ \A d \in Calls \ {c} : level'[d] = level[d]
    BY <1>9, <1>s, <1>t DEF RejectSchema, Goto
  <2>2. c \notin published
    BY <1>9, <1>e, <2>1 DEF RejectSchema
  <2>3. c \in Calls => before'[c] \subseteq published
    BY <2>1 DEF ReportsInv, SeenOK
  <2> QED BY <1>a, <2>1, <2>2, <2>3
<1>10. ASSUME NEW c \in Calls, Analyze(c) PROVE ReportsInv'
  <2>1. /\ c \in Requests /\ up /\ up' /\ UNCHANGED <<drift, published, before>>
        /\ \A q \in Requests \ {c} : stage'[q] = stage[q]
        /\ \A d \in Calls \ {c} : level'[d] = level[d]
    BY <1>10, <1>s, <1>t DEF Analyze, Goto, Raise
  <2>2. c \notin published
    BY <1>10, <1>e, <2>1 DEF Analyze
  <2>3. c \in Calls => before'[c] \subseteq published
    BY <2>1 DEF ReportsInv, SeenOK
  <2> QED BY <1>a, <2>1, <2>2, <2>3
<1>11. ASSUME NEW c \in Calls, Publish(c) PROVE ReportsInv'
  <2>1. /\ up /\ up' /\ c \notin published /\ published' = published \cup {c}
        /\ stage'[c] \in {"replying", "raised"} /\ level' = level /\ before' = before
        /\ \A q \in Requests \ {c} : stage'[q] = stage[q]
    BY <1>11, <1>s, <1>t, <1>e DEF Publish, Answer, Raise, Goto
  <2>2. Published' = Published \cup {c} /\ c \notin Published
    BY <1>s, <1>t, <2>1 DEF Published, Here
  <2>3. PICK l \in Severities : l = level[c]
    BY <1>t
  <2>4. At(l)' = At(l) \cup {c} /\ c \notin At(l)
    BY <2>1, <2>2, <2>3 DEF At
  <2>5. \A s \in Severities \ {l} : At(s)' = At(s)
    BY <2>1, <2>2, <2>3 DEF At
  <2>6. IsFiniteSet(Published) /\ IsFiniteSet(At(l))
    <3>1. Published \subseteq Requests /\ At(l) \subseteq Requests
      BY <1>s, <1>t DEF Published, At
    <3> QED BY <3>1, ApiAssumption, FS_Subset
  <2>7. /\ Cardinality(Published \cup {c}) = Cardinality(Published) + 1
        /\ Cardinality(At(l) \cup {c}) = Cardinality(At(l)) + 1
    BY <2>2, <2>4, <2>6, FS_AddElement, Zenon
  <2>8. /\ drift'.analyzed = drift.analyzed + 1 /\ drift'.latest = c
        /\ drift'.counts[l] = drift.counts[l] + 1
        /\ \A s \in Severities \ {l} : drift'.counts[s] = drift.counts[s]
    BY <1>11, <1>d, <2>3 DEF Publish
  <2>9. ReportsOK /\ SeenOK /\ OverOK
    BY <2>1 DEF ReportsInv
  <2>10. drift'.analyzed = Cardinality(Published')
    BY <2>2, <2>7, <2>8, <2>9 DEF ReportsOK
  <2>11. ASSUME NEW s \in Severities PROVE drift'.counts[s] = Cardinality(At(s)')
    <3>1. CASE s = l
      <4>1. drift'.counts[l] = Cardinality(At(l)')
        BY <2>4, <2>7, <2>8, <2>9 DEF ReportsOK
      <4> QED BY <3>1, <4>1
    <3>2. CASE s # l
      BY <2>5, <2>8, <2>9, <3>2 DEF ReportsOK
    <3> QED BY <3>1, <3>2
  <2>12. \A b \in Calls : c \notin before'[b]
    BY <2>1, <2>9 DEF SeenOK
  <2>13. ReportsOK'
    <3>1. \A b \in Published' : b \in Calls
      BY <1>t, <2>1 DEF Published
    <3> QED BY <2>2, <2>8, <2>10, <2>11, <2>12, <3>1 DEF ReportsOK
  <2>14. SeenOK' /\ OverOK'
    BY <1>s, <1>t, <2>1, <2>9 DEF SeenOK, OverOK
  <2> QED BY <2>13, <2>14 DEF ReportsInv
<1>12. ASSUME NEW c \in Calls, ResetState(c) PROVE ReportsInv'
  <2>1. /\ c \in Requests /\ up /\ up' /\ UNCHANGED <<drift, published, before>>
        /\ \A q \in Requests \ {c} : stage'[q] = stage[q]
        /\ \A d \in Calls \ {c} : level'[d] = level[d]
    BY <1>12, <1>s, <1>t DEF ResetState, Goto, Raise
  <2>2. c \notin published
    BY <1>12, <1>e, <2>1 DEF ResetState
  <2>3. c \in Calls => before'[c] \subseteq published
    BY <2>1 DEF ReportsInv, SeenOK
  <2> QED BY <1>a, <2>1, <2>2, <2>3
<1>13. ASSUME NEW c \in Calls, Read(c) PROVE ReportsInv'
  <2>1. /\ c \in Requests /\ up /\ up' /\ UNCHANGED <<drift, published, before>>
        /\ \A q \in Requests \ {c} : stage'[q] = stage[q]
        /\ \A d \in Calls \ {c} : level'[d] = level[d]
    BY <1>13, <1>s, <1>t DEF Read, Goto
  <2>2. c \notin published
    BY <1>13, <1>e, <2>1 DEF Read
  <2>3. c \in Calls => before'[c] \subseteq published
    BY <2>1 DEF ReportsInv, SeenOK
  <2> QED BY <1>a, <2>1, <2>2, <2>3
<1>14. ASSUME NEW f \in Forms, CheckApi(f) PROVE ReportsInv'
  BY <1>14, <1>u DEF CheckApi, request
<1>15. ASSUME NEW f \in Forms, Post(f) PROVE ReportsInv'
  <2>1. CASE ~up
    BY <1>15, <1>u, <2>1 DEF Post
  <2> SUFFICES ASSUME up PROVE ReportsInv'
    BY <2>1
  <2>2. /\ f \in Requests /\ up' /\ UNCHANGED <<drift, published, level, before>>
        /\ \A q \in Requests \ {f} : stage'[q] = stage[q]
    BY <1>15, <1>s, <1>t DEF Post, Goto
  <2>3. f \notin published /\ f \notin Calls
    BY <1>s, <1>t
  <2> QED BY <1>a, <2>2, <2>3
<1>16. ASSUME NEW f \in Forms, ReadAnswer(f) PROVE ReportsInv'
  BY <1>16, <1>u DEF ReadAnswer, request
<1>17. ASSUME NEW f \in Forms, GiveUp(f) PROVE ReportsInv'
  BY <1>17, <1>u DEF GiveUp, request
<1>18. ASSUME NEW f \in Forms, ScoreLocally(f) PROVE ReportsInv'
  BY <1>18, <1>u DEF ScoreLocally, request
<1>19. CASE Crash
  <2>1. ~up' /\ UNCHANGED <<published, before>>
    BY <1>19 DEF Crash
  <2>2. \A c \in published : stage'[c] \in {"old", "lost"}
    <3> SUFFICES ASSUME NEW c \in published PROVE stage'[c] \in {"old", "lost"}
      OBVIOUS
    <3>1. c \in Requests /\ stage[c] # "idle"
      BY <1>s, <1>t DEF ReportsInv, OverOK
    <3>2. stage'[c] = CASE stage[c] = "idle" -> "idle"
                        [] stage[c] \in {"answered", "old"} -> "old"
                        [] OTHER -> "lost"
      BY <1>19, <3>1 DEF Crash
    <3> QED BY <3>1, <3>2
  <2> QED BY <2>1, <2>2 DEF ReportsInv, SeenOK, OverOK
<1>20. CASE Start
  <2>1. ~up /\ drift' = NoDrift /\ UNCHANGED <<stage, published, before>>
    BY <1>20 DEF Start, request
  <2>2. \A c \in published : stage'[c] \in {"idle", "old", "lost"}
    BY <1>s, <1>t, <2>1 DEF BooksInv, Down
  <2>3. Published' = {} /\ \A s \in Severities : At(s)' = {}
    BY <2>1, <2>2 DEF Published, At, Here
  <2>4. ReportsOK'
    BY <2>1, <2>3, FS_EmptySet DEF ReportsOK, NoDrift
  <2>5. SeenOK' /\ OverOK'
    BY <2>1 DEF ReportsInv, SeenOK, OverOK
  <2> QED BY <2>4, <2>5 DEF ReportsInv
<1>21. CASE UNCHANGED vars
  BY <1>21, <1>u DEF vars, request
<1> QED BY <1>1, <1>2, <1>3, <1>4, <1>5, <1>6, <1>7, <1>8, <1>9, <1>10, <1>11, <1>12,
          <1>13, <1>14, <1>15, <1>16, <1>17, <1>18, <1>19, <1>20, <1>21
       DEF Next, Serve, ServeCall, Visit

----------------------------------------------------------------------------
(* The theorems *)

IInv == TypeOK /\ RequestsOK /\ PagesOK /\ BooksInv /\ ReportsInv

LEMMA InvariantHolds == Spec => []IInv
<1>1. Init => IInv
  <2> SUFFICES ASSUME Init PROVE IInv
    OBVIOUS
  <2>1. RequestsOK
    BY DEF Init, RequestsOK, RequestOK, Requests
  <2>2. PagesOK
    BY DEF Init, PagesOK, PageOK, Requests
  <2>3. up /\ stage = [r \in Requests |-> "idle"] /\ metrics = NoMetrics
    BY DEF Init
  <2>4. /\ Uncounted = {} /\ Waiting4 = {} /\ Refused4 = {} /\ Waiting5 = {}
        /\ Refused5 = {} /\ Passing = {} /\ Lost = {} /\ Losing = {}
    BY <2>3 DEF Uncounted, Waiting4, Refused4, Waiting5, Refused5, Passing, Lost, Losing, Here
  <2>5. BooksInv
    BY <2>3, <2>4, FS_EmptySet DEF BooksInv, Balanced, NoMetrics
  <2> QED BY <2>1, <2>2, <2>5, InitTypes, InitReports DEF IInv
<1>2. IInv /\ [Next]_vars => IInv'
  <2> SUFFICES ASSUME IInv, [Next]_vars PROVE IInv'
    OBVIOUS
  <2>1. /\ RequestTypes /\ metrics \in Metrics /\ MonitorTypes /\ StoreTypes
        /\ RequestsOK /\ PagesOK
        /\ BooksInv /\ ReportsInv
    BY TypeParts DEF IInv
  <2>2. RequestTypes' /\ RequestsOK' /\ PagesOK' /\ BooksInv' /\ ReportsInv'
    BY <2>1, NextRequestTypes, NextRequests, NextPages, NextBooks, NextReports
  <2>3. (metrics \in Metrics)' /\ MonitorTypes' /\ StoreTypes'
    BY <2>1, NextMetricTypes, NextMonitorTypes, NextStoreTypes
  <2>4. TypeOK'
    BY <2>2, <2>3 DEF TypeOK, RequestTypes, MonitorTypes, StoreTypes
  <2> QED BY <2>2, <2>4 DEF IInv
<1> QED BY <1>1, <1>2, PTL DEF Spec

(* Every reachable state of the service and the dashboard is well typed.    *)
THEOREM TypeCorrect == Spec => []TypeOK
<1>1. IInv => TypeOK
  BY DEF IInv
<1> QED BY <1>1, InvariantHolds, PTL

(* A client can tell from the status of every answer but one whether its    *)
(* transaction is in the state, whatever fails, resets or restarts          *)
(* (main.py, process_transaction's order, the exception handlers).          *)
THEOREM AnswersTell == Spec => []AnswerTellsState
<1>1. IInv => AnswerTellsState
  BY DEF IInv, RequestsOK, RequestOK, Told, AnswerTellsState
<1> QED BY <1>1, InvariantHolds, PTL

(* A submission is in both engines only when the page could not know: it    *)
(* gave up waiting, or was told that the backend had been lost              *)
(* (1_Live_Scoring.py, engine_fallback.py).                                 *)
THEOREM CountedTwiceOnlyInDoubt == Spec => []CountedTwiceOnlyIfInDoubt
<1>1. IInv => CountedTwiceOnlyIfInDoubt
  <2> SUFFICES ASSUME IInv, NEW f \in Forms, api[f] # "no", local[f] # "no",
                      why[f] # "unanswered"
               PROVE  outcome[f] = "backend"
    BY DEF CountedTwiceOnlyIfInDoubt
  <2>1. f \in Requests /\ PageOK(f) /\ RequestOK(f)
    BY DEF IInv, PagesOK, RequestsOK, Requests
  <2>2. route[f] = "predict" /\ stage[f] # "idle"
    BY <2>1 DEF RequestOK
  <2>3. stage[f] \in {"answered", "old"} /\ Status(outcome[f]) # 200
    BY <2>1, <2>2 DEF PageOK
  <2>4. Told(f) /\ outcome[f] # "no_explanation"
    BY <2>1, <2>2, <2>3 DEF RequestOK, Scoring
  <2>5. outcome[f] # "ok"
    BY <2>3 DEF Status
  <2> QED BY <2>4, <2>5 DEF Told
<1> QED BY <1>1, InvariantHolds, PTL

(* No recorded attempt is lost from the counters but for the 503s and 500s  *)
(* of the engine, whatever overlaps, fails or restarts (main.py's predict   *)
(* routes, the exception handlers, metrics.py).                             *)
THEOREM NoAttemptIsLost == Spec => []AttemptsAccounted
<1>1. IInv => AttemptsAccounted
  BY DEF IInv, BooksInv, Balanced, Uncounted, AttemptsAccounted
<1> QED BY <1>1, InvariantHolds, PTL

(* When no response is on its way, every status the middleware has counted  *)
(* has one explanation, in a handler's counter or a route's own refusal.    *)
THEOREM StatusesAddUp == Spec => []StatusesExplained
<1>1. IInv => StatusesExplained
  <2> SUFFICES ASSUME IInv, up,
                      {r \in Requests : stage[r] \in {"raised", "unhandled", "replying"}} = {}
               PROVE  /\ metrics.class[4] = metrics.schema + metrics.failures
                                            + Cardinality(Refused4)
                      /\ metrics.class[5] = metrics.uninitialized + metrics.lookups
                                            + metrics.internal + Cardinality(Refused5)
                      /\ metrics.lookups = Cardinality(Lost)
    BY DEF StatusesExplained, Refused4, Refused5, Lost
  <2>1. Waiting4 = {} /\ Waiting5 = {} /\ Passing = {} /\ Losing = {}
    BY DEF Waiting4, Waiting5, Passing, Losing
  <2>2. /\ Cardinality(Waiting4) = 0 /\ Cardinality(Waiting5) = 0
        /\ Cardinality(Passing) = 0 /\ Cardinality(Losing) = 0
    BY <2>1, FS_EmptySet
  <2>3. PICK c4 \in Nat, c5 \in Nat, sc \in Nat, fa \in Nat, un \in Nat, it \in Nat,
             lo \in Nat, r4 \in Nat, r5 \in Nat, ls \in Nat :
          /\ metrics.class[4] = c4 /\ metrics.class[5] = c5 /\ metrics.schema = sc
          /\ metrics.failures = fa /\ metrics.uninitialized = un /\ metrics.internal = it
          /\ metrics.lookups = lo /\ Cardinality(Refused4) = r4
          /\ Cardinality(Refused5) = r5 /\ Cardinality(Lost) = ls
    BY Numbers DEF IInv, TypeOK, Metrics
  <2>4. /\ c4 + 0 = sc + fa + r4
        /\ c5 + 0 = un + lo + it + r5 + 0
        /\ lo + 0 = ls
    BY <2>2, <2>3 DEF IInv, BooksInv, Balanced
  <2>5. c4 = sc + fa + r4 /\ c5 = un + lo + it + r5 /\ lo = ls
    BY <2>4
  <2> QED BY <2>3, <2>5
<1> QED BY <1>1, InvariantHolds, PTL

(* The drift summary agrees with the published reports, and its latest one  *)
(* is never older than a report whose analysis began after it was           *)
(* published, in whatever order overlapping analyses publish (monitor.py).  *)
THEOREM SummaryIsConsistent == Spec => []DriftSummaryConsistent
<1>1. IInv => DriftSummaryConsistent
  BY DEF IInv, ReportsInv, ReportsOK, Published, At, DriftSummaryConsistent
<1> QED BY <1>1, InvariantHolds, PTL
=============================================================================
