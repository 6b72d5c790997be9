--------------------------- MODULE ConcurrentEngine ---------------------------
(***************************************************************************)
(* Requests for ONE entity that run at the same time: FastAPI executes the *)
(* sync routes in a thread pool, every thread calls the same               *)
(* RiskDecisionEngine, and nothing locks an entity's state between the     *)
(* backend's get and put (src/engine/state.py, state_backend.py).          *)
(*                                                                         *)
(* Entities share nothing but clear(), so one entity is enough.  Its state *)
(* is abstracted to `count` and to `seen`, the requests whose time is in   *)
(* recent_times.  A step is what one thread does between two points where  *)
(* CPython 3.12 may switch threads (a call or a loop) or Redis may serve   *)
(* another client; `count += 1` up to the first call is one step.          *)
(*                                                                         *)
(* An EntityState object is named by the request that created it: with the *)
(* memory backend the dict holds that reference, with Redis every get      *)
(* makes a private copy.  overlapped, owed, gone and quiet are history     *)
(* variables.                                                              *)
(***************************************************************************)
EXTENDS Integers, FiniteSets

CONSTANTS
  Requests,   \* the transactions of the entity, one thread each
  Backends,   \* the backends explored, a subset of {"memory", "redis"}
  Absent,     \* get() found nothing
  Resets      \* the calls of reset_state, one thread each

ASSUME ConcurrentAssumption ==
  /\ Backends \subseteq {"memory", "redis"}
  /\ Absent \notin Requests
  /\ IsFiniteSet(Requests)

States == [count : Nat, seen : SUBSET Requests]
Empty == [count |-> 0, seen |-> {}]
ASSUME AbsentAssumption == Absent \notin States

VARIABLES
  backend,     \* which backend build_state_backend chose
  stored,      \* what it holds: a reference (memory), a value (redis), or Absent
  object,      \* [Requests -> States]: the object each request created or copied
  pc,          \* where each request is
  held,        \* the object each request works on, or Absent
  reply,       \* the count and velocity each request has computed
  reset,       \* clear(): "new", "listed" or "none" after KEYS, "over"
  overlapped,  \* updates that ran while another update or a reset did
  owed,        \* updates that overlapped nothing and completed since the last reset
  gone,        \* requests that finished before the last quiet reset
  quiet        \* resets since whose beginning no update has run

history == <<overlapped, owed, gone, quiet>>
vars == <<backend, stored, object, pc, held, reply, reset, history>>

Updating == {r \in Requests : pc[r] \in {"create", "add", "append", "put"}}
Resetting == {x \in Resets : reset[x] \in {"listed", "none"}}
Finished == {r \in Requests : pc[r] \in {"done", "failed"}}

Stored == IF stored = Absent THEN Empty
          ELSE IF backend = "memory" THEN object[stored] ELSE stored

Init == /\ backend \in Backends
        /\ stored = Absent
        /\ object = [r \in Requests |-> Empty]
        /\ pc = [r \in Requests |-> "start"]
        /\ held = [r \in Requests |-> Absent]
        /\ reply = [r \in Requests |-> [count |-> 0, velocity |-> 0]]
        /\ reset = [x \in Resets |-> "new"]
        /\ overlapped = {} /\ owed = {} /\ gone = {}
        /\ quiet = {}

Goto(r, label) == pc' = [pc EXCEPT ![r] = label]

\* backend.get(): the stored object itself, or a fresh copy of the stored value.
Get(r) ==
  IF backend = "memory" \/ stored = Absent
  THEN held' = [held EXCEPT ![r] = stored] /\ UNCHANGED object
  ELSE held' = [held EXCEPT ![r] = r] /\ object' = [object EXCEPT ![r] = stored]

\* backend.put() of the object r works on.
Put(r) == stored' = IF backend = "memory" THEN held'[r] ELSE object'[held'[r]]

----------------------------------------------------------------------------
(* compute_features: one get, then the fields, one after the other *)

ReadState(r) ==
  /\ pc[r] = "start"
  /\ Get(r)
  /\ Goto(r, "count")
  /\ UNCHANGED <<backend, stored, reply, reset, history>>

ReadCount(r) ==
  /\ pc[r] = "count"
  /\ reply' = [reply EXCEPT ![r].count = IF held[r] = Absent THEN 0 ELSE object[held[r]].count]
  /\ Goto(r, "velocity")
  /\ UNCHANGED <<backend, stored, object, held, reset, history>>

\* Mutant of ReadVelocity: the velocity comes from a second get().
ReadVelocityAgain(r) ==
  /\ pc[r] = "velocity"
  /\ reply' = [reply EXCEPT ![r].velocity = Cardinality(Stored.seen)]
  /\ Goto(r, "predict")
  /\ UNCHANGED <<backend, stored, object, held, reset, history>>

ReadVelocity(r) ==
  /\ pc[r] = "velocity"
  /\ reply' = [reply EXCEPT ![r].velocity =
                 IF held[r] = Absent THEN 0 ELSE Cardinality(object[held[r]].seen)]
  /\ Goto(r, "predict")
  /\ UNCHANGED <<backend, stored, object, held, reset, history>>

\* The pipeline, the model or the explainer raises: no update.
PredictRaises(r) ==
  /\ pc[r] = "predict"
  /\ Goto(r, "failed")
  /\ UNCHANGED <<backend, stored, object, held, reply, reset, history>>

----------------------------------------------------------------------------
(* update *)

\* The history of an update that starts now.
Overlap(r) ==
  /\ overlapped' = overlapped \cup (IF Updating # {} \/ Resetting # {}
                                    THEN {r} \cup Updating ELSE {})
  /\ quiet' = {}
  /\ UNCHANGED <<owed, gone>>

\* Mutant of FindState: update() works on the state compute_features has read.
FindStale(r) ==
  /\ pc[r] = "predict"
  /\ Goto(r, IF held[r] = Absent THEN "create" ELSE "add")
  /\ Overlap(r)
  /\ UNCHANGED <<backend, stored, object, held, reply, reset>>

\* _get_or_create: get ...
FindState(r) ==
  /\ pc[r] = "predict"
  /\ Get(r)
  /\ Goto(r, IF stored = Absent THEN "create" ELSE "add")
  /\ Overlap(r)
  /\ UNCHANGED <<backend, stored, reply, reset>>

\* Mutant of CreateState: a new EntityState already counts its first transaction.
CreateCounted(r) ==
  /\ pc[r] = "create"
  /\ object' = [object EXCEPT ![r] = [Empty EXCEPT !.count = 1]]
  /\ held' = [held EXCEPT ![r] = r]
  /\ Put(r)
  /\ Goto(r, "add")
  /\ UNCHANGED <<backend, reply, reset, history>>

\* ... and, when there was nothing, put an empty one, whatever is there by now.
CreateState(r) ==
  /\ pc[r] = "create"
  /\ object' = [object EXCEPT ![r] = Empty]
  /\ held' = [held EXCEPT ![r] = r]
  /\ Put(r)
  /\ Goto(r, "add")
  /\ UNCHANGED <<backend, reply, reset, history>>

AddCount(r) ==
  /\ pc[r] = "add"
  /\ object' = [object EXCEPT ![held[r]].count = @ + 1]
  /\ Goto(r, "append")
  /\ UNCHANGED <<backend, stored, held, reply, reset, history>>

AppendTime(r) ==
  /\ pc[r] = "append"
  /\ object' = [object EXCEPT ![held[r]].seen = @ \cup {r}]
  /\ Goto(r, "put")
  /\ UNCHANGED <<backend, stored, held, reply, reset, history>>

\* Mutant of WriteBack: the write-back is forgotten.
WriteBackForgotten(r) ==
  /\ pc[r] = "put"
  /\ Goto(r, "done")
  /\ owed' = IF r \in overlapped THEN owed ELSE owed \cup {r}
  /\ UNCHANGED <<backend, stored, object, held, reply, reset, overlapped, gone, quiet>>

WriteBack(r) ==
  /\ pc[r] = "put"
  /\ UNCHANGED <<object, held>>
  /\ Put(r)
  /\ Goto(r, "done")
  /\ owed' = IF r \in overlapped THEN owed ELSE owed \cup {r}
  /\ UNCHANGED <<backend, reply, reset, overlapped, gone, quiet>>

\* Redis raises StateBackendUnavailableError: on a get, or on a put that it
\* applied or not; the route answers 503.
RedisFails(r) ==
  /\ backend = "redis"
  /\ pc[r] \in {"start", "predict", "create", "put"}
  /\ UNCHANGED held
  /\ \/ UNCHANGED <<stored, object>>
     \/ /\ pc[r] = "create"
        /\ stored' = Empty /\ UNCHANGED object
     \/ /\ pc[r] = "put"
        /\ UNCHANGED object /\ Put(r)
  /\ Goto(r, "failed")
  /\ UNCHANGED <<backend, reply, reset, history>>

----------------------------------------------------------------------------
(* reset_state -> backend.clear() *)

ResetTo(x, state) == reset' = [reset EXCEPT ![x] = state]

StartReset(x) == /\ reset[x] = "new"
                 /\ overlapped' = overlapped \cup Updating
                 /\ owed' = {}

\* The history of a reset that ends now, during which updates ran or not.
EndReset(nothingRan) ==
  gone' = IF nothingRan THEN Finished ELSE gone

\* Mutant of ClearMemory: an empty entity is left behind.
ClearToEmpty(x) ==
  /\ backend = "memory"
  /\ StartReset(x) /\ ResetTo(x, "over")
  /\ stored' = Empty
  /\ EndReset(Updating = {})
  /\ UNCHANGED <<backend, object, pc, held, reply, quiet>>

\* Memory: the dict is replaced.
ClearMemory(x) ==
  /\ backend = "memory"
  /\ StartReset(x) /\ ResetTo(x, "over")
  /\ stored' = Absent
  /\ EndReset(Updating = {})
  /\ UNCHANGED <<backend, object, pc, held, reply, quiet>>

\* Redis: KEYS, and later DELETE of the keys it listed.
ListKeys(x) ==
  /\ backend = "redis"
  /\ StartReset(x) /\ ResetTo(x, IF stored = Absent THEN "none" ELSE "listed")
  /\ quiet' = IF Updating = {} THEN quiet \cup {x} ELSE quiet
  /\ UNCHANGED <<backend, stored, object, pc, held, reply, gone>>

DeleteKeys(x) ==
  /\ x \in Resetting
  /\ stored' = IF reset[x] = "listed" THEN Absent ELSE stored
  /\ ResetTo(x, "over")
  /\ EndReset(x \in quiet)
  /\ UNCHANGED <<backend, object, pc, held, reply, overlapped, owed, quiet>>

\* A reset loses its connection between the two, or after an applied DELETE.
ResetFails(x) ==
  /\ x \in Resetting
  /\ stored' \in {stored, IF reset[x] = "listed" THEN Absent ELSE stored}
  /\ ResetTo(x, "over")
  /\ UNCHANGED <<backend, object, pc, held, reply, history>>

Next ==
  \/ \E r \in Requests :
       \/ ReadState(r) \/ ReadCount(r) \/ ReadVelocity(r) \/ PredictRaises(r)
       \/ FindState(r) \/ CreateState(r) \/ AddCount(r) \/ AppendTime(r) \/ WriteBack(r)
       \/ RedisFails(r)
  \/ \E x \in Resets : ClearMemory(x) \/ ListKeys(x) \/ DeleteKeys(x) \/ ResetFails(x)

Spec == Init /\ [][Next]_vars

----------------------------------------------------------------------------
(* Properties *)

Labels == {"start", "count", "velocity", "predict", "create", "add", "append", "put",
           "done", "failed"}

TypeOK ==
  /\ backend \in Backends
  /\ stored \in IF backend = "memory" THEN Requests \cup {Absent} ELSE States \cup {Absent}
  /\ object \in [Requests -> States]
  /\ pc \in [Requests -> Labels]
  /\ held \in [Requests -> Requests \cup {Absent}]
  /\ reply \in [Requests -> [count : Nat, velocity : Nat]]
  /\ reset \in [Resets -> {"new", "listed", "none", "over"}]

\* However the threads interleave, the stored state is never a mixture of two
\* updates: its count is the number of times in its deque, plus, when the
\* object is shared, the threads that have counted but not appended yet.
NotTorn ==
  Stored.count = Cardinality(Stored.seen)
                 + Cardinality({r \in Requests : /\ backend = "memory" /\ stored # Absent
                                                 /\ pc[r] = "append" /\ held[r] = stored})

\* An update that overlapped no other update and no reset of its entity is
\* never lost afterwards, whatever the later ones do (the docs leave
\* concurrent requests open; this is what does hold).
IsolatedUpdateIsKept == owed \subseteq Stored.seen

\* Only an update that overlaps another one, or a reset, can take a transaction
\* out of the stored state: an update that runs alone destroys nobody's work,
\* however old the features are that its request has read (state.py, update).
OnlyOverlapsDropUpdates ==
  [][ \/ Stored.seen \subseteq Stored'.seen
      \/ stored' = Absent
      \/ \E r \in Updating \cap overlapped : pc'[r] # pc[r] ]_vars

\* A reset during which no update ran is final: no request that was over by
\* then reappears in the state, although requests that had read it live on.
ResetIsFinal == Stored.seen \cap gone = {}

\* With Redis the features of one reply always describe one state, however
\* many updates run meanwhile: compute_features gets the entity only once.
RedisRepliesAreSnapshots ==
  backend = "redis" =>
    \A r \in Requests : pc[r] \in {"predict", "create", "add", "append", "put", "done"} =>
      reply[r].count = reply[r].velocity
=============================================================================
