------------------------ MODULE ConcurrentEngineProofs ------------------------
(***************************************************************************)
(* ConcurrentEngine, for any number of threads, both backends and any      *)
(* number of resets: what holds of an entity's state and of the replies    *)
(* although nothing locks the state between get and put.                   *)
(***************************************************************************)
EXTENDS ConcurrentEngine, FiniteSetTheorems, TLAPS

----------------------------------------------------------------------------
(* Who works on which object.                                               *)

(* A thread in the middle of an update has an object.                       *)
Equipped == \A r \in Requests : pc[r] \in {"add", "append", "put"} => held[r] # Absent

(* With Redis nobody else works on a request's copy; with the memory        *)
(* backend nobody has a request's object before the request creates it.     *)
Owned ==
  /\ backend = "redis" => \A r \in Requests : held[r] \in {r, Absent}
  /\ backend = "memory" =>
       \A r \in Requests : pc[r] \in {"start", "count", "velocity", "predict", "create"} =>
         stored # r /\ \A q \in Requests : held[q] # r
  /\ Resetting # {} => backend = "redis"

(* A time is in no deque before its own thread has appended it.             *)
Appended == {r \in Requests : pc[r] \in {"put", "done", "failed"}}
SeenOnce ==
  /\ \A x \in Requests : object[x].seen \subseteq Appended
  /\ backend = "redis" /\ stored # Absent => stored.seen \subseteq Appended
  /\ \A r \in Requests : pc[r] = "put" => r \in object[held[r]].seen

----------------------------------------------------------------------------
(* No object is torn: it has counted what it has seen and what is about to  *)
(* be appended to it.                                                       *)
Appending(x) == {r \in Requests : pc[r] = "append" /\ held[r] = x}
Exact ==
  /\ \A x \in Requests :
       object[x].count = Cardinality(object[x].seen) + Cardinality(Appending(x))
  /\ backend = "redis" /\ stored # Absent => stored.count = Cardinality(stored.seen)

----------------------------------------------------------------------------
(* An update outside `overlapped` is alone; what it wrote is in whatever a  *)
(* later update works on.                                                   *)
Working == {r \in Requests : pc[r] \in {"add", "append", "put"}}
Alone ==
  /\ \A q, r \in Updating : q # r => q \in overlapped
  /\ Resetting # {} => Updating \subseteq overlapped
Kept ==
  /\ owed \subseteq Stored.seen
  /\ \A q \in Requests : pc[q] = "create" => owed = {}
  /\ \A q \in Working : owed \subseteq object[held[q]].seen
  /\ Resetting # {} => owed = {}

(* An update that is alone works on an object that has all that is stored.  *)
UpToDate ==
  \A r \in Updating \ overlapped :
    IF pc[r] = "create" THEN stored = Absent ELSE Stored.seen \subseteq object[held[r]].seen

(* What a quiet reset removed is in nothing that can be stored again.       *)
Cleared ==
  /\ gone \subseteq Finished
  /\ Stored.seen \cap gone = {}
  /\ \A q \in Working : object[held[q]].seen \cap gone = {}
  /\ \A z \in Resetting \cap quiet : /\ Updating = {}
                                     /\ reset[z] = "none" => stored = Absent
  /\ \A z \in Resets : reset[z] = "new" => z \notin quiet

(* With Redis a thread reads both features from its own copy.               *)
Answered ==
  backend = "redis" => \A r \in Requests :
    /\ pc[r] = "velocity" =>
         reply[r].count = IF held[r] = Absent THEN 0 ELSE object[held[r]].count
    /\ pc[r] \in {"predict", "create", "add", "append", "put", "done"} =>
         reply[r].count = reply[r].velocity

----------------------------------------------------------------------------
(* What the steps do to the objects.                                        *)

LEMMA StoredType ==
  ASSUME TypeOK
  PROVE  /\ Stored \in States /\ Empty \in States
         /\ stored = Absent => Stored = Empty
         /\ stored # Absent => Stored = IF backend = "memory" THEN object[stored] ELSE stored
<1>1. Empty \in States
  BY DEF Empty, States
<1>2. backend \in {"memory", "redis"}
  BY ConcurrentAssumption DEF TypeOK, ConcurrentAssumption
<1> QED BY <1>1, <1>2 DEF Stored, TypeOK

LEMMA GetEffect ==
  ASSUME TypeOK, NEW r \in Requests, Get(r)
  PROVE  /\ object' \in [Requests -> States]
         /\ held' \in [Requests -> Requests \cup {Absent}]
         /\ backend = "memory" \/ stored = Absent => object' = object /\ held'[r] = stored
         /\ backend = "redis" /\ stored # Absent => object'[r] = stored /\ held'[r] = r
         /\ \A q \in Requests \ {r} : held'[q] = held[q] /\ object'[q] = object[q]
         /\ stored # Absent => held'[r] \in Requests /\ object'[held'[r]] = Stored
<1>1. /\ backend \in {"memory", "redis"} /\ Absent \notin Requests
      /\ object \in [Requests -> States] /\ held \in [Requests -> Requests \cup {Absent}]
      /\ stored # Absent => IF backend = "memory" THEN stored \in Requests ELSE stored \in States
  BY ConcurrentAssumption DEF TypeOK, ConcurrentAssumption
<1>2. CASE backend = "memory" \/ stored = Absent
  <2>1. held' = [held EXCEPT ![r] = stored] /\ object' = object
    BY <1>2 DEF Get
  <2> QED BY <1>1, <1>2, <2>1, StoredType
<1>3. CASE backend = "redis" /\ stored # Absent
  <2>1. held' = [held EXCEPT ![r] = r] /\ object' = [object EXCEPT ![r] = stored]
    BY <1>3 DEF Get
  <2> QED BY <1>1, <1>3, <2>1, StoredType
<1> QED BY <1>1, <1>2, <1>3

LEMMA PutEffect ==
  ASSUME TypeOK, NEW r \in Requests, held[r] \in Requests, Put(r),
         UNCHANGED <<backend, object, held>>
  PROVE  stored' # Absent /\ Stored' = object[held[r]]
<1>1. /\ backend \in {"memory", "redis"} /\ Absent \notin Requests /\ Absent \notin States
      /\ object[held[r]] \in States
  BY ConcurrentAssumption, AbsentAssumption
     DEF TypeOK, ConcurrentAssumption, AbsentAssumption
<1>2. CASE backend = "memory"
  BY <1>1, <1>2 DEF Put, Stored
<1>3. CASE backend = "redis"
  BY <1>1, <1>3 DEF Put, Stored
<1> QED BY <1>1, <1>2, <1>3

LEMMA AddEffect ==
  ASSUME TypeOK, Equipped, NEW r \in Requests, AddCount(r)
  PROVE  /\ held[r] \in Requests /\ object' \in [Requests -> States]
         /\ object'[held[r]].count = object[held[r]].count + 1
         /\ object'[held[r]].seen = object[held[r]].seen
         /\ \A x \in Requests \ {held[r]} : object'[x] = object[x]
<1>1. held[r] \in Requests /\ object \in [Requests -> States]
  BY DEF TypeOK, Equipped, AddCount
<1>2. PICK s \in States : s = object[held[r]]
  BY <1>1
<1>3. [s EXCEPT !.count = @ + 1] \in States
  BY DEF States
<1>4. object' = [object EXCEPT ![held[r]] = [s EXCEPT !.count = @ + 1]]
  BY <1>2 DEF AddCount
<1>5. [s EXCEPT !.count = @ + 1].count = s.count + 1 /\ [s EXCEPT !.count = @ + 1].seen = s.seen
  BY DEF States
<1> QED BY <1>1, <1>2, <1>3, <1>4, <1>5

LEMMA AppendEffect ==
  ASSUME TypeOK, Equipped, NEW r \in Requests, AppendTime(r)
  PROVE  /\ held[r] \in Requests /\ object' \in [Requests -> States]
         /\ object'[held[r]].count = object[held[r]].count
         /\ object'[held[r]].seen = object[held[r]].seen \cup {r}
         /\ \A x \in Requests \ {held[r]} : object'[x] = object[x]
<1>1. held[r] \in Requests /\ object \in [Requests -> States]
  BY DEF TypeOK, Equipped, AppendTime
<1>2. PICK s \in States : s = object[held[r]]
  BY <1>1
<1>3. [s EXCEPT !.seen = @ \cup {r}] \in States
  BY DEF States
<1>4. object' = [object EXCEPT ![held[r]] = [s EXCEPT !.seen = @ \cup {r}]]
  BY <1>2 DEF AppendTime
<1>5. /\ [s EXCEPT !.seen = @ \cup {r}].count = s.count
      /\ [s EXCEPT !.seen = @ \cup {r}].seen = s.seen \cup {r}
  BY DEF States
<1> QED BY <1>1, <1>2, <1>3, <1>4, <1>5

(* The numbers of times and of threads are numbers.                         *)
LEMMA Finite ==
  ASSUME TypeOK
  PROVE  /\ \A x \in Requests : /\ IsFiniteSet(object[x].seen) /\ IsFiniteSet(Appending(x))
                                /\ Cardinality(object[x].seen) \in Nat
                                /\ Cardinality(Appending(x)) \in Nat
                                /\ object[x].count \in Nat /\ object[x].seen \subseteq Requests
<1> SUFFICES ASSUME NEW x \in Requests
             PROVE  /\ IsFiniteSet(object[x].seen) /\ IsFiniteSet(Appending(x))
                    /\ Cardinality(object[x].seen) \in Nat
                    /\ Cardinality(Appending(x)) \in Nat
                    /\ object[x].count \in Nat /\ object[x].seen \subseteq Requests
  OBVIOUS
<1>1. object[x] \in States
  BY DEF TypeOK
<1>2. /\ object[x].seen \subseteq Requests
      /\ Appending(x) \subseteq Requests
      /\ object[x].count \in Nat
  BY <1>1 DEF States, Appending
<1>3. IsFiniteSet(Requests)
  BY ConcurrentAssumption DEF ConcurrentAssumption
<1> QED BY <1>2, <1>3, FS_Subset, FS_CardinalityType

(* A request's private copy is exact while it is not being appended to.     *)
LEMMA CopyIsExact ==
  ASSUME TypeOK, Owned, Exact, backend = "redis", NEW r \in Requests, pc[r] # "append"
  PROVE  object[r].count = Cardinality(object[r].seen)
<1>1. Appending(r) = {}
  BY ConcurrentAssumption DEF Owned, Appending, ConcurrentAssumption
<1>2. Cardinality(Appending(r)) = 0
  BY <1>1, FS_EmptySet
<1>3. object[r].count = Cardinality(object[r].seen) + Cardinality(Appending(r))
  BY DEF Exact
<1> QED BY <1>2, <1>3, Finite

----------------------------------------------------------------------------
(* Each part of the invariant, step by step.                                *)

LEMMA NextTypes ==
  ASSUME TypeOK, Equipped, Owned, [Next]_vars
  PROVE  TypeOK'
<1>t. /\ pc \in [Requests -> Labels] /\ object \in [Requests -> States]
      /\ held \in [Requests -> Requests \cup {Absent}]
      /\ reply \in [Requests -> [count : Nat, velocity : Nat]]
      /\ stored # Absent => IF backend = "memory" THEN stored \in Requests ELSE stored \in States
      /\ backend \in {"memory", "redis"} /\ Absent \notin Requests
  BY ConcurrentAssumption DEF TypeOK
<1> USE DEF Goto, ResetTo, Resetting, history
<1>c. ConcurrentAssumption /\ AbsentAssumption
  BY ConcurrentAssumption, AbsentAssumption DEF ConcurrentAssumption, AbsentAssumption
<1>e. Empty \in States
  BY DEF Empty, States
<1>1. ASSUME NEW r \in Requests, ReadState(r) PROVE TypeOK'
  BY <1>1, <1>t, GetEffect DEF ReadState, TypeOK, Labels
<1>2. ASSUME NEW r \in Requests, ReadCount(r) PROVE TypeOK'
  <2>1. PICK n \in Nat : reply' = [reply EXCEPT ![r] = [reply[r] EXCEPT !.count = n]]
    <3>1. held[r] # Absent => held[r] \in Requests
      BY <1>t
    <3> QED BY <1>2, <1>t, <3>1, Finite DEF ReadCount
  <2>2. [reply[r] EXCEPT !.count = n] \in [count : Nat, velocity : Nat]
    BY <1>t
  <2>3. reply' \in [Requests -> [count : Nat, velocity : Nat]]
    BY <1>t, <2>1, <2>2
  <2> QED BY <1>2, <1>t, <2>3 DEF ReadCount, TypeOK, Labels
<1>3. ASSUME NEW r \in Requests, ReadVelocity(r) PROVE TypeOK'
  <2>1. PICK n \in Nat : reply' = [reply EXCEPT ![r] = [reply[r] EXCEPT !.velocity = n]]
    <3>1. held[r] # Absent => held[r] \in Requests
      BY <1>t
    <3> QED BY <1>3, <1>t, <3>1, Finite DEF ReadVelocity
  <2>2. [reply[r] EXCEPT !.velocity = n] \in [count : Nat, velocity : Nat]
    BY <1>t
  <2>3. reply' \in [Requests -> [count : Nat, velocity : Nat]]
    BY <1>t, <2>1, <2>2
  <2> QED BY <1>3, <1>t, <2>3 DEF ReadVelocity, TypeOK, Labels
<1>4. ASSUME NEW r \in Requests, PredictRaises(r) PROVE TypeOK'
  BY <1>4, <1>t, <1>e, <1>c
     DEF PredictRaises, Get, Put, StartReset, EndReset, Overlap, TypeOK, Equipped, Labels
<1>5. ASSUME NEW r \in Requests, FindState(r) PROVE TypeOK'
  BY <1>5, <1>t, GetEffect DEF FindState, Overlap, TypeOK, Labels
<1>6. ASSUME NEW r \in Requests, CreateState(r) PROVE TypeOK'
  BY <1>6, <1>t, <1>e, <1>c
     DEF CreateState, Get, Put, StartReset, EndReset, Overlap, TypeOK, Equipped, Labels
<1>7. ASSUME NEW r \in Requests, AddCount(r) PROVE TypeOK'
  BY <1>7, <1>t, AddEffect DEF AddCount, TypeOK, Labels
<1>8. ASSUME NEW r \in Requests, AppendTime(r) PROVE TypeOK'
  BY <1>8, <1>t, AppendEffect DEF AppendTime, TypeOK, Labels
<1>9. ASSUME NEW r \in Requests, WriteBack(r) PROVE TypeOK'
  BY <1>9, <1>t, <1>e, <1>c
     DEF WriteBack, Get, Put, StartReset, EndReset, Overlap, TypeOK, Equipped, Labels
<1>10. ASSUME NEW r \in Requests, RedisFails(r) PROVE TypeOK'
  BY <1>10, <1>t, <1>e, <1>c
     DEF RedisFails, Get, Put, StartReset, EndReset, Overlap, TypeOK, Equipped, Labels
<1>11. ASSUME NEW z \in Resets, ClearMemory(z) PROVE TypeOK'
  BY <1>11, <1>t, <1>e, <1>c
     DEF ClearMemory, Get, Put, StartReset, EndReset, Overlap, TypeOK, Equipped, Labels
<1>12. ASSUME NEW z \in Resets, ListKeys(z) PROVE TypeOK'
  BY <1>12, <1>t, <1>e, <1>c
     DEF ListKeys, Get, Put, StartReset, EndReset, Overlap, TypeOK, Equipped, Labels
<1>13. ASSUME NEW z \in Resets, DeleteKeys(z) PROVE TypeOK'
  BY <1>13, <1>t, <1>e, <1>c
     DEF DeleteKeys, Get, Put, StartReset, EndReset, Overlap, TypeOK, Equipped, Labels
<1>14. ASSUME NEW z \in Resets, ResetFails(z) PROVE TypeOK'
  BY <1>14, <1>t, <1>e, <1>c
     DEF ResetFails, Get, Put, StartReset, EndReset, Overlap, TypeOK, Equipped, Labels
<1>15. CASE UNCHANGED vars
  BY <1>15, <1>t, <1>e, <1>c
     DEF vars, Get, Put, StartReset, EndReset, Overlap, TypeOK, Equipped, Labels
<1> QED BY <1>1, <1>2, <1>3, <1>4, <1>5, <1>6, <1>7, <1>8, <1>9,
           <1>10, <1>11, <1>12, <1>13, <1>14, <1>15 DEF Next

LEMMA NextEquipped ==
  ASSUME TypeOK, Equipped, [Next]_vars
  PROVE  Equipped'
<1>t. /\ pc \in [Requests -> Labels] /\ object \in [Requests -> States]
      /\ held \in [Requests -> Requests \cup {Absent}]
      /\ reply \in [Requests -> [count : Nat, velocity : Nat]]
      /\ stored # Absent => IF backend = "memory" THEN stored \in Requests ELSE stored \in States
      /\ backend \in {"memory", "redis"} /\ Absent \notin Requests
  BY ConcurrentAssumption DEF TypeOK
<1> USE DEF Goto, ResetTo, Resetting, history
<1>1. ASSUME NEW r \in Requests, ReadState(r) PROVE Equipped'
  BY <1>1, <1>t DEF ReadState, Get, Put, StartReset, EndReset, Overlap, Equipped
<1>2. ASSUME NEW r \in Requests, ReadCount(r) PROVE Equipped'
  BY <1>2, <1>t DEF ReadCount, Get, Put, StartReset, EndReset, Overlap, Equipped
<1>3. ASSUME NEW r \in Requests, ReadVelocity(r) PROVE Equipped'
  BY <1>3, <1>t DEF ReadVelocity, Get, Put, StartReset, EndReset, Overlap, Equipped
<1>4. ASSUME NEW r \in Requests, PredictRaises(r) PROVE Equipped'
  BY <1>4, <1>t DEF PredictRaises, Get, Put, StartReset, EndReset, Overlap, Equipped
<1>5. ASSUME NEW r \in Requests, FindState(r) PROVE Equipped'
  BY <1>5, <1>t DEF FindState, Get, Put, StartReset, EndReset, Overlap, Equipped
<1>6. ASSUME NEW r \in Requests, CreateState(r) PROVE Equipped'
  BY <1>6, <1>t DEF CreateState, Get, Put, StartReset, EndReset, Overlap, Equipped
<1>7. ASSUME NEW r \in Requests, AddCount(r) PROVE Equipped'
  BY <1>7, <1>t DEF AddCount, Get, Put, StartReset, EndReset, Overlap, Equipped
<1>8. ASSUME NEW r \in Requests, AppendTime(r) PROVE Equipped'
  BY <1>8, <1>t DEF AppendTime, Get, Put, StartReset, EndReset, Overlap, Equipped
<1>9. ASSUME NEW r \in Requests, WriteBack(r) PROVE Equipped'
  BY <1>9, <1>t DEF WriteBack, Get, Put, StartReset, EndReset, Overlap, Equipped
<1>10. ASSUME NEW r \in Requests, RedisFails(r) PROVE Equipped'
  BY <1>10, <1>t DEF RedisFails, Get, Put, StartReset, EndReset, Overlap, Equipped
<1>11. ASSUME NEW z \in Resets, ClearMemory(z) PROVE Equipped'
  BY <1>11, <1>t DEF ClearMemory, Get, Put, StartReset, EndReset, Overlap, Equipped
<1>12. ASSUME NEW z \in Resets, ListKeys(z) PROVE Equipped'
  BY <1>12, <1>t DEF ListKeys, Get, Put, StartReset, EndReset, Overlap, Equipped
<1>13. ASSUME NEW z \in Resets, DeleteKeys(z) PROVE Equipped'
  BY <1>13, <1>t DEF DeleteKeys, Get, Put, StartReset, EndReset, Overlap, Equipped
<1>14. ASSUME NEW z \in Resets, ResetFails(z) PROVE Equipped'
  BY <1>14, <1>t DEF ResetFails, Get, Put, StartReset, EndReset, Overlap, Equipped
<1>15. CASE UNCHANGED vars
  BY <1>15, <1>t DEF vars, Get, Put, StartReset, EndReset, Overlap, Equipped
<1> QED BY <1>1, <1>2, <1>3, <1>4, <1>5, <1>6, <1>7, <1>8, <1>9,
           <1>10, <1>11, <1>12, <1>13, <1>14, <1>15 DEF Next

LEMMA NextOwned ==
  ASSUME TypeOK, Equipped, Owned, [Next]_vars
  PROVE  Owned'
<1>t. /\ pc \in [Requests -> Labels] /\ object \in [Requests -> States]
      /\ held \in [Requests -> Requests \cup {Absent}]
      /\ reply \in [Requests -> [count : Nat, velocity : Nat]]
      /\ stored # Absent => IF backend = "memory" THEN stored \in Requests ELSE stored \in States
      /\ backend \in {"memory", "redis"} /\ Absent \notin Requests
  BY ConcurrentAssumption DEF TypeOK
<1> USE DEF Goto, ResetTo, Resetting, history
<1>1. ASSUME NEW r \in Requests, ReadState(r) PROVE Owned'
  BY <1>1, <1>t DEF ReadState, Get, Put, StartReset, EndReset, Overlap, Equipped, Owned
<1>2. ASSUME NEW r \in Requests, ReadCount(r) PROVE Owned'
  BY <1>2, <1>t DEF ReadCount, Get, Put, StartReset, EndReset, Overlap, Equipped, Owned
<1>3. ASSUME NEW r \in Requests, ReadVelocity(r) PROVE Owned'
  BY <1>3, <1>t DEF ReadVelocity, Get, Put, StartReset, EndReset, Overlap, Equipped, Owned
<1>4. ASSUME NEW r \in Requests, PredictRaises(r) PROVE Owned'
  BY <1>4, <1>t DEF PredictRaises, Get, Put, StartReset, EndReset, Overlap, Equipped, Owned
<1>5. ASSUME NEW r \in Requests, FindState(r) PROVE Owned'
  BY <1>5, <1>t DEF FindState, Get, Put, StartReset, EndReset, Overlap, Equipped, Owned
<1>6. ASSUME NEW r \in Requests, CreateState(r) PROVE Owned'
  BY <1>6, <1>t DEF CreateState, Get, Put, StartReset, EndReset, Overlap, Equipped, Owned
<1>7. ASSUME NEW r \in Requests, AddCount(r) PROVE Owned'
  BY <1>7, <1>t DEF AddCount, Get, Put, StartReset, EndReset, Overlap, Equipped, Owned
<1>8. ASSUME NEW r \in Requests, AppendTime(r) PROVE Owned'
  BY <1>8, <1>t DEF AppendTime, Get, Put, StartReset, EndReset, Overlap, Equipped, Owned
<1>9. ASSUME NEW r \in Requests, WriteBack(r) PROVE Owned'
  BY <1>9, <1>t DEF WriteBack, Get, Put, StartReset, EndReset, Overlap, Equipped, Owned
<1>10. ASSUME NEW r \in Requests, RedisFails(r) PROVE Owned'
  BY <1>10, <1>t DEF RedisFails, Get, Put, StartReset, EndReset, Overlap, Equipped, Owned
<1>11. ASSUME NEW z \in Resets, ClearMemory(z) PROVE Owned'
  BY <1>11, <1>t DEF ClearMemory, Get, Put, StartReset, EndReset, Overlap, Equipped, Owned
<1>12. ASSUME NEW z \in Resets, ListKeys(z) PROVE Owned'
  BY <1>12, <1>t DEF ListKeys, Get, Put, StartReset, EndReset, Overlap, Equipped, Owned
<1>13. ASSUME NEW z \in Resets, DeleteKeys(z) PROVE Owned'
  BY <1>13, <1>t DEF DeleteKeys, Get, Put, StartReset, EndReset, Overlap, Equipped, Owned
<1>14. ASSUME NEW z \in Resets, ResetFails(z) PROVE Owned'
  BY <1>14, <1>t DEF ResetFails, Get, Put, StartReset, EndReset, Overlap, Equipped, Owned
<1>15. CASE UNCHANGED vars
  BY <1>15, <1>t DEF vars, Get, Put, StartReset, EndReset, Overlap, Equipped, Owned
<1> QED BY <1>1, <1>2, <1>3, <1>4, <1>5, <1>6, <1>7, <1>8, <1>9,
           <1>10, <1>11, <1>12, <1>13, <1>14, <1>15 DEF Next

LEMMA NextSeenOnce ==
  ASSUME TypeOK, Equipped, Owned, SeenOnce, [Next]_vars
  PROVE  SeenOnce'
<1>t. /\ pc \in [Requests -> Labels] /\ object \in [Requests -> States]
      /\ held \in [Requests -> Requests \cup {Absent}]
      /\ reply \in [Requests -> [count : Nat, velocity : Nat]]
      /\ stored # Absent => IF backend = "memory" THEN stored \in Requests ELSE stored \in States
      /\ backend \in {"memory", "redis"} /\ Absent \notin Requests
  BY ConcurrentAssumption DEF TypeOK
<1> USE DEF Goto, ResetTo, Resetting, history
<1>1. ASSUME NEW r \in Requests, ReadState(r) PROVE SeenOnce'
  BY <1>1, <1>t
     DEF ReadState, Get, Put, StartReset, EndReset, Overlap, Equipped, Owned, SeenOnce,
         Appended, States, Empty
<1>2. ASSUME NEW r \in Requests, ReadCount(r) PROVE SeenOnce'
  BY <1>2, <1>t
     DEF ReadCount, Get, Put, StartReset, EndReset, Overlap, Equipped, Owned, SeenOnce,
         Appended, States, Empty
<1>3. ASSUME NEW r \in Requests, ReadVelocity(r) PROVE SeenOnce'
  BY <1>3, <1>t
     DEF ReadVelocity, Get, Put, StartReset, EndReset, Overlap, Equipped, Owned, SeenOnce,
         Appended, States, Empty
<1>4. ASSUME NEW r \in Requests, PredictRaises(r) PROVE SeenOnce'
  BY <1>4, <1>t
     DEF PredictRaises, Get, Put, StartReset, EndReset, Overlap, Equipped, Owned, SeenOnce,
         Appended, States, Empty
<1>5. ASSUME NEW r \in Requests, FindState(r) PROVE SeenOnce'
  <2>1. /\ Get(r) /\ UNCHANGED <<backend, stored>> /\ pc[r] = "predict"
        /\ \A q \in Requests \ {r} : pc'[q] = pc[q]
        /\ pc'[r] \in {"create", "add"}
    BY <1>5, <1>t DEF FindState
  <2>2. Appended' = Appended
    BY <2>1 DEF Appended
  <2>3. \A q \in Requests \ {r} : held'[q] = held[q] /\ object'[q] = object[q]
    BY <2>1, GetEffect
  <2>4. object'[r] = object[r] \/ (backend = "redis" /\ stored # Absent /\ object'[r] = stored)
    BY <1>t, <2>1, GetEffect
  <2>5. \A x \in Requests : object'[x].seen \subseteq Appended'
    BY <2>2, <2>3, <2>4 DEF SeenOnce
  <2>6. ASSUME NEW q \in Requests, pc'[q] = "put" PROVE q \in object'[held'[q]].seen
    <3>1. q # r /\ pc[q] = "put" /\ held'[q] = held[q] /\ held[q] \in Requests
      BY <1>t, <2>1, <2>3, <2>6 DEF Equipped
    <3>2. held[q] # r \/ object'[r] = object[r]
      BY <1>t, <2>4, <3>1 DEF Owned
    <3> QED BY <2>3, <3>1, <3>2 DEF SeenOnce
  <2> QED BY <2>1, <2>2, <2>5, <2>6 DEF SeenOnce
<1>6. ASSUME NEW r \in Requests, CreateState(r) PROVE SeenOnce'
  BY <1>6, <1>t
     DEF CreateState, Get, Put, StartReset, EndReset, Overlap, Equipped, Owned, SeenOnce,
         Appended, States, Empty
<1>7. ASSUME NEW r \in Requests, AddCount(r) PROVE SeenOnce'
  BY <1>7, <1>t
     DEF AddCount, Get, Put, StartReset, EndReset, Overlap, Equipped, Owned, SeenOnce,
         Appended, States, Empty
<1>8. ASSUME NEW r \in Requests, AppendTime(r) PROVE SeenOnce'
  BY <1>8, <1>t
     DEF AppendTime, Get, Put, StartReset, EndReset, Overlap, Equipped, Owned, SeenOnce,
         Appended, States, Empty
<1>9. ASSUME NEW r \in Requests, WriteBack(r) PROVE SeenOnce'
  BY <1>9, <1>t
     DEF WriteBack, Get, Put, StartReset, EndReset, Overlap, Equipped, Owned, SeenOnce,
         Appended, States, Empty
<1>10. ASSUME NEW r \in Requests, RedisFails(r) PROVE SeenOnce'
  BY <1>10, <1>t
     DEF RedisFails, Get, Put, StartReset, EndReset, Overlap, Equipped, Owned, SeenOnce,
         Appended, States, Empty
<1>11. ASSUME NEW z \in Resets, ClearMemory(z) PROVE SeenOnce'
  BY <1>11, <1>t
     DEF ClearMemory, Get, Put, StartReset, EndReset, Overlap, Equipped, Owned, SeenOnce,
         Appended, States, Empty
<1>12. ASSUME NEW z \in Resets, ListKeys(z) PROVE SeenOnce'
  BY <1>12, <1>t
     DEF ListKeys, Get, Put, StartReset, EndReset, Overlap, Equipped, Owned, SeenOnce,
         Appended, States, Empty
<1>13. ASSUME NEW z \in Resets, DeleteKeys(z) PROVE SeenOnce'
  BY <1>13, <1>t
     DEF DeleteKeys, Get, Put, StartReset, EndReset, Overlap, Equipped, Owned, SeenOnce,
         Appended, States, Empty
<1>14. ASSUME NEW z \in Resets, ResetFails(z) PROVE SeenOnce'
  BY <1>14, <1>t
     DEF ResetFails, Get, Put, StartReset, EndReset, Overlap, Equipped, Owned, SeenOnce,
         Appended, States, Empty
<1>15. CASE UNCHANGED vars
  BY <1>15, <1>t
     DEF vars, Get, Put, StartReset, EndReset, Overlap, Equipped, Owned, SeenOnce, Appended,
         States, Empty
<1> QED BY <1>1, <1>2, <1>3, <1>4, <1>5, <1>6, <1>7, <1>8, <1>9,
           <1>10, <1>11, <1>12, <1>13, <1>14, <1>15 DEF Next

LEMMA NextAlone ==
  ASSUME TypeOK, Alone, [Next]_vars
  PROVE  Alone'
<1>t. /\ pc \in [Requests -> Labels] /\ object \in [Requests -> States]
      /\ held \in [Requests -> Requests \cup {Absent}]
      /\ reply \in [Requests -> [count : Nat, velocity : Nat]]
      /\ stored # Absent => IF backend = "memory" THEN stored \in Requests ELSE stored \in States
      /\ backend \in {"memory", "redis"} /\ Absent \notin Requests
  BY ConcurrentAssumption DEF TypeOK
<1> USE DEF Goto, ResetTo, Resetting, history
<1>1. ASSUME NEW r \in Requests, ReadState(r) PROVE Alone'
  BY <1>1, <1>t DEF ReadState, Get, Put, StartReset, EndReset, Overlap, Alone, Updating
<1>2. ASSUME NEW r \in Requests, ReadCount(r) PROVE Alone'
  BY <1>2, <1>t DEF ReadCount, Get, Put, StartReset, EndReset, Overlap, Alone, Updating
<1>3. ASSUME NEW r \in Requests, ReadVelocity(r) PROVE Alone'
  BY <1>3, <1>t DEF ReadVelocity, Get, Put, StartReset, EndReset, Overlap, Alone, Updating
<1>4. ASSUME NEW r \in Requests, PredictRaises(r) PROVE Alone'
  BY <1>4, <1>t DEF PredictRaises, Get, Put, StartReset, EndReset, Overlap, Alone, Updating
<1>5. ASSUME NEW r \in Requests, FindState(r) PROVE Alone'
  BY <1>5, <1>t DEF FindState, Get, Put, StartReset, EndReset, Overlap, Alone, Updating
<1>6. ASSUME NEW r \in Requests, CreateState(r) PROVE Alone'
  BY <1>6, <1>t DEF CreateState, Get, Put, StartReset, EndReset, Overlap, Alone, Updating
<1>7. ASSUME NEW r \in Requests, AddCount(r) PROVE Alone'
  BY <1>7, <1>t DEF AddCount, Get, Put, StartReset, EndReset, Overlap, Alone, Updating
<1>8. ASSUME NEW r \in Requests, AppendTime(r) PROVE Alone'
  BY <1>8, <1>t DEF AppendTime, Get, Put, StartReset, EndReset, Overlap, Alone, Updating
<1>9. ASSUME NEW r \in Requests, WriteBack(r) PROVE Alone'
  BY <1>9, <1>t DEF WriteBack, Get, Put, StartReset, EndReset, Overlap, Alone, Updating
<1>10. ASSUME NEW r \in Requests, RedisFails(r) PROVE Alone'
  BY <1>10, <1>t DEF RedisFails, Get, Put, StartReset, EndReset, Overlap, Alone, Updating
<1>11. ASSUME NEW z \in Resets, ClearMemory(z) PROVE Alone'
  BY <1>11, <1>t DEF ClearMemory, Get, Put, StartReset, EndReset, Overlap, Alone, Updating
<1>12. ASSUME NEW z \in Resets, ListKeys(z) PROVE Alone'
  BY <1>12, <1>t DEF ListKeys, Get, Put, StartReset, EndReset, Overlap, Alone, Updating
<1>13. ASSUME NEW z \in Resets, DeleteKeys(z) PROVE Alone'
  BY <1>13, <1>t DEF DeleteKeys, Get, Put, StartReset, EndReset, Overlap, Alone, Updating
<1>14. ASSUME NEW z \in Resets, ResetFails(z) PROVE Alone'
  BY <1>14, <1>t DEF ResetFails, Get, Put, StartReset, EndReset, Overlap, Alone, Updating
<1>15. CASE UNCHANGED vars
  BY <1>15, <1>t DEF vars, Get, Put, StartReset, EndReset, Overlap, Alone, Updating
<1> QED BY <1>1, <1>2, <1>3, <1>4, <1>5, <1>6, <1>7, <1>8, <1>9,
           <1>10, <1>11, <1>12, <1>13, <1>14, <1>15 DEF Next

LEMMA NextKept ==
  ASSUME TypeOK, Equipped, Owned, SeenOnce, Alone, Kept, [Next]_vars
  PROVE  Kept'
<1>t. /\ pc \in [Requests -> Labels] /\ object \in [Requests -> States]
      /\ held \in [Requests -> Requests \cup {Absent}]
      /\ reply \in [Requests -> [count : Nat, velocity : Nat]]
      /\ stored # Absent => IF backend = "memory" THEN stored \in Requests ELSE stored \in States
      /\ backend \in {"memory", "redis"} /\ Absent \notin Requests
  BY ConcurrentAssumption DEF TypeOK
<1> USE DEF Goto, ResetTo, Resetting, history
<1>1. ASSUME NEW r \in Requests, ReadState(r) PROVE Kept'
  BY <1>1, <1>t
     DEF ReadState, Get, Put, StartReset, EndReset, Overlap, Equipped, Owned, SeenOnce,
         Alone, Kept, Working, Updating, Stored, States, Empty
<1>2. ASSUME NEW r \in Requests, ReadCount(r) PROVE Kept'
  BY <1>2, <1>t
     DEF ReadCount, Get, Put, StartReset, EndReset, Overlap, Equipped, Owned, SeenOnce,
         Alone, Kept, Working, Updating, Stored, States, Empty
<1>3. ASSUME NEW r \in Requests, ReadVelocity(r) PROVE Kept'
  BY <1>3, <1>t
     DEF ReadVelocity, Get, Put, StartReset, EndReset, Overlap, Equipped, Owned, SeenOnce,
         Alone, Kept, Working, Updating, Stored, States, Empty
<1>4. ASSUME NEW r \in Requests, PredictRaises(r) PROVE Kept'
  BY <1>4, <1>t
     DEF PredictRaises, Get, Put, StartReset, EndReset, Overlap, Equipped, Owned, SeenOnce,
         Alone, Kept, Working, Updating, Stored, States, Empty
<1>5. ASSUME NEW r \in Requests, FindState(r) PROVE Kept'
  <2>1. /\ backend' = backend /\ stored' = stored /\ reset' = reset /\ owed' = owed
        /\ \A q \in Requests \ {r} : pc'[q] = pc[q]
        /\ pc'[r] = IF stored = Absent THEN "create" ELSE "add"
    BY <1>5, <1>t DEF FindState, Overlap
  <2>2. Get(r) /\ pc[r] = "predict"
    BY <1>5 DEF FindState
  <2>3. Stored' = Stored
    BY <1>t, <2>1, <2>2, GetEffect DEF Stored
  <2>4. stored = Absent => owed = {}
    BY StoredType DEF Kept, Empty
  <2>5. ASSUME NEW q \in Requests, pc'[q] \in {"add", "append", "put"}
        PROVE  owed' \subseteq object'[held'[q]].seen
    <3>1. CASE q = r
      BY <2>1, <2>2, <2>5, <3>1, GetEffect DEF Kept
    <3>2. CASE q # r
      <4>1. q \in Working /\ held'[q] = held[q] /\ held[q] \in Requests
        BY <1>t, <2>1, <2>2, <2>5, <3>2, GetEffect DEF Working, Equipped
      <4>2. object'[held[q]] = object[held[q]]
        BY <1>t, <2>2, <3>2, <4>1, GetEffect DEF Owned
      <4> QED BY <2>1, <4>1, <4>2 DEF Kept
    <3> QED BY <3>1, <3>2
  <2> QED BY <2>1, <2>3, <2>4, <2>5 DEF Kept, Working
<1>6. ASSUME NEW r \in Requests, CreateState(r) PROVE Kept'
  BY <1>6, <1>t
     DEF CreateState, Get, Put, StartReset, EndReset, Overlap, Equipped, Owned, SeenOnce,
         Alone, Kept, Working, Updating, Stored, States, Empty
<1>7. ASSUME NEW r \in Requests, AddCount(r) PROVE Kept'
  BY <1>7, <1>t
     DEF AddCount, Get, Put, StartReset, EndReset, Overlap, Equipped, Owned, SeenOnce, Alone,
         Kept, Working, Updating, Stored, States, Empty
<1>8. ASSUME NEW r \in Requests, AppendTime(r) PROVE Kept'
  BY <1>8, <1>t
     DEF AppendTime, Get, Put, StartReset, EndReset, Overlap, Equipped, Owned, SeenOnce,
         Alone, Kept, Working, Updating, Stored, States, Empty
<1>9. ASSUME NEW r \in Requests, WriteBack(r) PROVE Kept'
  <2>1. /\ held[r] \in Requests /\ r \in Working /\ r \in Updating /\ Put(r)
        /\ UNCHANGED <<backend, object, held, reset>>
        /\ pc' = [pc EXCEPT ![r] = "done"]
        /\ owed' = IF r \in overlapped THEN owed ELSE owed \cup {r}
    BY <1>9, <1>t DEF WriteBack, Equipped, Working, Updating
  <2>2. Stored' = object[held[r]]
    BY <2>1, PutEffect
  <2>3. owed \cup {r} \subseteq object[held[r]].seen
    BY <1>9, <2>1 DEF WriteBack, Kept, SeenOnce
  <2>4. owed' # owed => Updating = {r} /\ Resetting = {}
    BY <2>1 DEF Alone
  <2>5. Working' \subseteq Working \ {r}
    BY <1>t, <2>1 DEF Working
  <2>6. \A q \in Requests : pc'[q] = "create" => pc[q] = "create" /\ q # r
    BY <1>t, <2>1
  <2> QED BY <2>1, <2>2, <2>3, <2>4, <2>5, <2>6 DEF Kept, Working, Updating
<1>10. ASSUME NEW r \in Requests, RedisFails(r) PROVE Kept'
  <2>1. /\ UNCHANGED <<backend, object, held, reset, owed>> /\ pc' = [pc EXCEPT ![r] = "failed"]
        /\ \/ stored' = stored
           \/ pc[r] = "create" /\ stored' = Empty /\ backend = "redis"
           \/ pc[r] = "put" /\ Put(r)
    BY <1>10 DEF RedisFails
  <2>2. owed \subseteq Stored'.seen
    <3>1. CASE stored' = stored
      BY <2>1, <3>1 DEF Kept, Stored
    <3>2. CASE pc[r] = "create"
      BY <3>2, <2>1 DEF Kept
    <3>3. CASE pc[r] = "put" /\ Put(r)
      BY <1>t, <2>1, <3>3, PutEffect DEF Kept, Working, Equipped
    <3> QED BY <2>1, <3>1, <3>2, <3>3
  <2> QED BY <1>t, <2>1, <2>2 DEF Kept, Working
<1>11. ASSUME NEW z \in Resets, ClearMemory(z) PROVE Kept'
  BY <1>11, <1>t
     DEF ClearMemory, Get, Put, StartReset, EndReset, Overlap, Equipped, Owned, SeenOnce,
         Alone, Kept, Working, Updating, Stored, States, Empty
<1>12. ASSUME NEW z \in Resets, ListKeys(z) PROVE Kept'
  BY <1>12, <1>t
     DEF ListKeys, Get, Put, StartReset, EndReset, Overlap, Equipped, Owned, SeenOnce, Alone,
         Kept, Working, Updating, Stored, States, Empty
<1>13. ASSUME NEW z \in Resets, DeleteKeys(z) PROVE Kept'
  BY <1>13, <1>t
     DEF DeleteKeys, Get, Put, StartReset, EndReset, Overlap, Equipped, Owned, SeenOnce,
         Alone, Kept, Working, Updating, Stored, States, Empty
<1>14. ASSUME NEW z \in Resets, ResetFails(z) PROVE Kept'
  BY <1>14, <1>t
     DEF ResetFails, Get, Put, StartReset, EndReset, Overlap, Equipped, Owned, SeenOnce,
         Alone, Kept, Working, Updating, Stored, States, Empty
<1>15. CASE UNCHANGED vars
  BY <1>15, <1>t
     DEF vars, Get, Put, StartReset, EndReset, Overlap, Equipped, Owned, SeenOnce, Alone,
         Kept, Working, Updating, Stored, States, Empty
<1> QED BY <1>1, <1>2, <1>3, <1>4, <1>5, <1>6, <1>7, <1>8, <1>9,
           <1>10, <1>11, <1>12, <1>13, <1>14, <1>15 DEF Next

LEMMA NextUpToDate ==
  ASSUME TypeOK, Equipped, Owned, Alone, UpToDate, [Next]_vars
  PROVE  UpToDate'
<1>t. /\ pc \in [Requests -> Labels] /\ object \in [Requests -> States]
      /\ held \in [Requests -> Requests \cup {Absent}]
      /\ stored # Absent => IF backend = "memory" THEN stored \in Requests ELSE stored \in States
      /\ backend \in {"memory", "redis"} /\ Absent \notin Requests
  BY ConcurrentAssumption DEF TypeOK
<1> USE DEF Goto, ResetTo, Resetting, history
<1>1. ASSUME NEW r \in Requests, ReadState(r) PROVE UpToDate'
  BY <1>1, <1>t
     DEF ReadState, Get, Put, StartReset, EndReset, Overlap, Equipped, Owned, Alone,
         UpToDate, Updating, Stored, States, Empty
<1>2. ASSUME NEW r \in Requests, ReadCount(r) PROVE UpToDate'
  BY <1>2, <1>t
     DEF ReadCount, Get, Put, StartReset, EndReset, Overlap, Equipped, Owned, Alone,
         UpToDate, Updating, Stored, States, Empty
<1>3. ASSUME NEW r \in Requests, ReadVelocity(r) PROVE UpToDate'
  BY <1>3, <1>t
     DEF ReadVelocity, Get, Put, StartReset, EndReset, Overlap, Equipped, Owned, Alone,
         UpToDate, Updating, Stored, States, Empty
<1>4. ASSUME NEW r \in Requests, PredictRaises(r) PROVE UpToDate'
  BY <1>4, <1>t
     DEF PredictRaises, Get, Put, StartReset, EndReset, Overlap, Equipped, Owned, Alone,
         UpToDate, Updating, Stored, States, Empty
<1>5. ASSUME NEW r \in Requests, FindState(r) PROVE UpToDate'
  BY <1>5, <1>t
     DEF FindState, Get, Put, StartReset, EndReset, Overlap, Equipped, Owned, Alone,
         UpToDate, Updating, Stored, States, Empty
<1>6. ASSUME NEW r \in Requests, CreateState(r) PROVE UpToDate'
  BY <1>6, <1>t
     DEF CreateState, Get, Put, StartReset, EndReset, Overlap, Equipped, Owned, Alone,
         UpToDate, Updating, Stored, States, Empty
<1>7. ASSUME NEW r \in Requests, AddCount(r) PROVE UpToDate'
  BY <1>7, <1>t
     DEF AddCount, Get, Put, StartReset, EndReset, Overlap, Equipped, Owned, Alone,
         UpToDate, Updating, Stored, States, Empty
<1>8. ASSUME NEW r \in Requests, AppendTime(r) PROVE UpToDate'
  BY <1>8, <1>t
     DEF AppendTime, Get, Put, StartReset, EndReset, Overlap, Equipped, Owned, Alone,
         UpToDate, Updating, Stored, States, Empty
<1>9. ASSUME NEW r \in Requests, WriteBack(r) PROVE UpToDate'
  BY <1>9, <1>t
     DEF WriteBack, Get, Put, StartReset, EndReset, Overlap, Equipped, Owned, Alone,
         UpToDate, Updating, Stored, States, Empty
<1>10. ASSUME NEW r \in Requests, RedisFails(r) PROVE UpToDate'
  BY <1>10, <1>t
     DEF RedisFails, Get, Put, StartReset, EndReset, Overlap, Equipped, Owned, Alone,
         UpToDate, Updating, Stored, States, Empty
<1>11. ASSUME NEW z \in Resets, ClearMemory(z) PROVE UpToDate'
  BY <1>11, <1>t
     DEF ClearMemory, Get, Put, StartReset, EndReset, Overlap, Equipped, Owned, Alone,
         UpToDate, Updating, Stored, States, Empty
<1>12. ASSUME NEW z \in Resets, ListKeys(z) PROVE UpToDate'
  BY <1>12, <1>t
     DEF ListKeys, Get, Put, StartReset, EndReset, Overlap, Equipped, Owned, Alone,
         UpToDate, Updating, Stored, States, Empty
<1>13. ASSUME NEW z \in Resets, DeleteKeys(z) PROVE UpToDate'
  BY <1>13, <1>t
     DEF DeleteKeys, Get, Put, StartReset, EndReset, Overlap, Equipped, Owned, Alone,
         UpToDate, Updating, Stored, States, Empty
<1>14. ASSUME NEW z \in Resets, ResetFails(z) PROVE UpToDate'
  BY <1>14, <1>t
     DEF ResetFails, Get, Put, StartReset, EndReset, Overlap, Equipped, Owned, Alone,
         UpToDate, Updating, Stored, States, Empty
<1>15. CASE UNCHANGED vars
  BY <1>15, <1>t
     DEF vars, Get, Put, StartReset, EndReset, Overlap, Equipped, Owned, Alone,
         UpToDate, Updating, Stored, States, Empty
<1> QED BY <1>1, <1>2, <1>3, <1>4, <1>5, <1>6, <1>7, <1>8, <1>9,
           <1>10, <1>11, <1>12, <1>13, <1>14, <1>15 DEF Next

LEMMA NextCleared ==
  ASSUME TypeOK, Equipped, Owned, Cleared, [Next]_vars
  PROVE  Cleared'
<1>t. /\ pc \in [Requests -> Labels] /\ object \in [Requests -> States]
      /\ held \in [Requests -> Requests \cup {Absent}]
      /\ reply \in [Requests -> [count : Nat, velocity : Nat]]
      /\ stored # Absent => IF backend = "memory" THEN stored \in Requests ELSE stored \in States
      /\ backend \in {"memory", "redis"} /\ Absent \notin Requests
  BY ConcurrentAssumption DEF TypeOK
<1> USE DEF Goto, ResetTo, Resetting, history
<1>1. ASSUME NEW r \in Requests, ReadState(r) PROVE Cleared'
  BY <1>1, <1>t
     DEF ReadState, Get, Put, StartReset, EndReset, Overlap, Equipped, Owned, Cleared,
         Working, Updating, Finished, Stored, States, Empty
<1>2. ASSUME NEW r \in Requests, ReadCount(r) PROVE Cleared'
  BY <1>2, <1>t
     DEF ReadCount, Get, Put, StartReset, EndReset, Overlap, Equipped, Owned, Cleared,
         Working, Updating, Finished, Stored, States, Empty
<1>3. ASSUME NEW r \in Requests, ReadVelocity(r) PROVE Cleared'
  BY <1>3, <1>t
     DEF ReadVelocity, Get, Put, StartReset, EndReset, Overlap, Equipped, Owned, Cleared,
         Working, Updating, Finished, Stored, States, Empty
<1>4. ASSUME NEW r \in Requests, PredictRaises(r) PROVE Cleared'
  BY <1>4, <1>t
     DEF PredictRaises, Get, Put, StartReset, EndReset, Overlap, Equipped, Owned, Cleared,
         Working, Updating, Finished, Stored, States, Empty
<1>5. ASSUME NEW r \in Requests, FindState(r) PROVE Cleared'
  BY <1>5, <1>t
     DEF FindState, Get, Put, StartReset, EndReset, Overlap, Equipped, Owned, Cleared,
         Working, Updating, Finished, Stored, States, Empty
<1>6. ASSUME NEW r \in Requests, CreateState(r) PROVE Cleared'
  BY <1>6, <1>t
     DEF CreateState, Get, Put, StartReset, EndReset, Overlap, Equipped, Owned, Cleared,
         Working, Updating, Finished, Stored, States, Empty
<1>7. ASSUME NEW r \in Requests, AddCount(r) PROVE Cleared'
  BY <1>7, <1>t
     DEF AddCount, Get, Put, StartReset, EndReset, Overlap, Equipped, Owned, Cleared,
         Working, Updating, Finished, Stored, States, Empty
<1>8. ASSUME NEW r \in Requests, AppendTime(r) PROVE Cleared'
  BY <1>8, <1>t
     DEF AppendTime, Get, Put, StartReset, EndReset, Overlap, Equipped, Owned, Cleared,
         Working, Updating, Finished, Stored, States, Empty
<1>9. ASSUME NEW r \in Requests, WriteBack(r) PROVE Cleared'
  BY <1>9, <1>t
     DEF WriteBack, Get, Put, StartReset, EndReset, Overlap, Equipped, Owned, Cleared,
         Working, Updating, Finished, Stored, States, Empty
<1>10. ASSUME NEW r \in Requests, RedisFails(r) PROVE Cleared'
  BY <1>10, <1>t
     DEF RedisFails, Get, Put, StartReset, EndReset, Overlap, Equipped, Owned, Cleared,
         Working, Updating, Finished, Stored, States, Empty
<1>11. ASSUME NEW z \in Resets, ClearMemory(z) PROVE Cleared'
  <2>1. /\ UNCHANGED <<object, pc, held>> /\ stored' = Absent
        /\ gone' = IF Updating = {} THEN Finished ELSE gone
    BY <1>11 DEF ClearMemory, StartReset, EndReset
  <2>2. /\ Stored' = Empty /\ Finished' = Finished /\ Working' = Working
        /\ Resetting = {} /\ Resetting' = {}
    BY <1>11, <1>t, <2>1 DEF Stored, Finished, Working, Owned, ClearMemory, StartReset, TypeOK
  <2>3. Updating = {} => Working = {}
    BY DEF Updating, Working
  <2>4. Empty.seen = {}
    BY DEF Empty
  <2>5. \A y \in Resets : reset'[y] = "new" => y \notin quiet'
    BY <1>11 DEF ClearMemory, TypeOK, Cleared
  <2> HIDE DEF Resetting
  <2> QED BY <2>1, <2>2, <2>3, <2>4, <2>5 DEF Cleared
<1>12. ASSUME NEW z \in Resets, ListKeys(z) PROVE Cleared'
  <2>1. /\ UNCHANGED <<backend, stored, object, pc, held, gone>>
        /\ reset'[z] = IF stored = Absent THEN "none" ELSE "listed"
        /\ \A y \in Resets \ {z} : reset'[y] = reset[y]
        /\ quiet' = IF Updating = {} THEN quiet \cup {z} ELSE quiet
        /\ z \notin Resetting /\ z \notin quiet
    BY <1>12 DEF ListKeys, StartReset, TypeOK, Cleared
  <2>2. Stored' = Stored /\ Finished' = Finished /\ Working' = Working /\ Updating' = Updating
    BY <2>1 DEF Stored, Finished, Working, Updating
  <2>3. ASSUME NEW y \in Resetting' \cap quiet'
        PROVE  Updating = {} /\ (reset'[y] = "none" => stored = Absent)
    <3>1. CASE y = z
      BY <2>1, <2>3, <3>1 DEF Cleared
    <3>2. CASE y # z
      BY <2>1, <2>3, <3>2 DEF Cleared
    <3> QED BY <3>1, <3>2
  <2>4. /\ gone' \subseteq Finished' /\ Stored'.seen \cap gone' = {}
        /\ \A q \in Working' : object'[held'[q]].seen \cap gone' = {}
        /\ \A y \in Resets : reset'[y] = "new" => y \notin quiet'
    BY <2>1, <2>2 DEF Cleared
  <2> HIDE DEF Resetting
  <2>5. \A y \in Resetting' \cap quiet' :
          Updating' = {} /\ (reset'[y] = "none" => stored' = Absent)
    BY <2>1, <2>2, <2>3
  <2> QED BY <2>4, <2>5 DEF Cleared
<1>13. ASSUME NEW z \in Resets, DeleteKeys(z) PROVE Cleared'
  <2>1. /\ UNCHANGED <<backend, object, pc, held, quiet>>
        /\ Resetting' = Resetting \ {z} /\ \A y \in Resetting' : reset'[y] = reset[y]
        /\ z \in Resetting
        /\ stored' = IF reset[z] = "listed" THEN Absent ELSE stored
        /\ gone' = IF z \in quiet THEN Finished ELSE gone
    BY <1>13 DEF DeleteKeys, EndReset, TypeOK
  <2>2. /\ Finished' = Finished /\ Working' = Working /\ Updating' = Updating
        /\ Updating = {} => Working = {}
    BY <2>1 DEF Finished, Working, Updating
  <2>3. Stored' = Stored \/ Stored' = Empty
    BY <2>1 DEF Stored
  <2>4. z \in quiet => Stored' = Empty
    <3>1. reset[z] \in {"listed", "none"}
      BY <2>1
    <3>2. z \in quiet => stored' = Absent
      BY <2>1, <3>1 DEF Cleared
    <3> QED BY <3>2 DEF Stored
  <2>5. Empty.seen = {}
    BY DEF Empty
  <2>6. Stored'.seen \cap gone' = {} /\ gone' \subseteq Finished'
    BY <2>1, <2>2, <2>3, <2>4, <2>5 DEF Cleared
  <2>7. \A q \in Working' : object'[held'[q]].seen \cap gone' = {}
    BY <2>1, <2>2 DEF Cleared
  <2>8. \A y \in Resetting' \cap quiet' :
          Updating' = {} /\ (reset'[y] = "none" => stored' = Absent)
    <3> HIDE DEF Resetting
    <3> QED BY <2>1, <2>2 DEF Cleared
  <2>9. \A y \in Resets : reset'[y] = "new" => y \notin quiet'
    BY <1>13, <2>1 DEF DeleteKeys, TypeOK, Cleared
  <2> QED BY <2>6, <2>7, <2>8, <2>9 DEF Cleared
<1>14. ASSUME NEW z \in Resets, ResetFails(z) PROVE Cleared'
  BY <1>14, <1>t
     DEF ResetFails, Get, Put, StartReset, EndReset, Overlap, Equipped, Owned, Cleared,
         Working, Updating, Finished, Stored, States, Empty
<1>15. CASE UNCHANGED vars
  BY <1>15, <1>t
     DEF vars, Get, Put, StartReset, EndReset, Overlap, Equipped, Owned, Cleared, Working,
         Updating, Finished, Stored, States, Empty
<1> QED BY <1>1, <1>2, <1>3, <1>4, <1>5, <1>6, <1>7, <1>8, <1>9,
           <1>10, <1>11, <1>12, <1>13, <1>14, <1>15 DEF Next

LEMMA NextExact ==
  ASSUME TypeOK, Equipped, Owned, SeenOnce, Exact, [Next]_vars
  PROVE  Exact'
<1>t. /\ pc \in [Requests -> Labels] /\ object \in [Requests -> States]
      /\ held \in [Requests -> Requests \cup {Absent}]
      /\ reply \in [Requests -> [count : Nat, velocity : Nat]]
      /\ stored # Absent => IF backend = "memory" THEN stored \in Requests ELSE stored \in States
      /\ backend \in {"memory", "redis"} /\ Absent \notin Requests
  BY ConcurrentAssumption DEF TypeOK
<1> USE DEF Goto, ResetTo, Resetting, history
<1>1. ASSUME NEW r \in Requests, ReadState(r) PROVE Exact'
  <2>1. /\ Get(r) /\ UNCHANGED <<backend, stored>> /\ pc[r] \notin {"append"}
        /\ \E l \in Labels \ {"append"} : pc' = [pc EXCEPT ![r] = l]
    BY <1>1 DEF ReadState, Labels
  <2>2. \A x \in Requests : Appending(x)' = Appending(x)
    BY <1>t, <2>1, GetEffect DEF Appending
  <2>3. CASE backend = "memory" \/ stored = Absent
    BY <2>1, <2>2, <2>3, GetEffect DEF Exact
  <2>4. CASE backend = "redis" /\ stored # Absent
    <3>1. Appending(r) = {} /\ object'[r] = stored
      BY <1>t, <2>1, <2>4, GetEffect DEF Appending, Owned
    <3>2. object'[r].count = Cardinality(object'[r].seen) + Cardinality(Appending(r))
      <4>1. Cardinality(Appending(r)) = 0
        BY <3>1, FS_EmptySet
      <4>2. object'[r].count = Cardinality(object'[r].seen) /\ object'[r].count \in Nat
        BY <1>t, <2>4, <3>1 DEF Exact, States
      <4> QED BY <4>1, <4>2
    <3>3. \A x \in Requests \ {r} : object'[x] = object[x]
      BY <2>1, GetEffect
    <3> QED BY <2>1, <2>2, <3>2, <3>3 DEF Exact
  <2> QED BY <1>t, <2>3, <2>4
<1>2. ASSUME NEW r \in Requests, ReadCount(r) PROVE Exact'
  BY <1>2, <1>t DEF ReadCount, Get, Put, StartReset, EndReset, Overlap, Exact, Appending
<1>3. ASSUME NEW r \in Requests, ReadVelocity(r) PROVE Exact'
  BY <1>3, <1>t DEF ReadVelocity, Get, Put, StartReset, EndReset, Overlap, Exact, Appending
<1>4. ASSUME NEW r \in Requests, PredictRaises(r) PROVE Exact'
  BY <1>4, <1>t DEF PredictRaises, Get, Put, StartReset, EndReset, Overlap, Exact, Appending
<1>5. ASSUME NEW r \in Requests, FindState(r) PROVE Exact'
  <2>1. /\ Get(r) /\ UNCHANGED <<backend, stored>> /\ pc[r] \notin {"append"}
        /\ \E l \in Labels \ {"append"} : pc' = [pc EXCEPT ![r] = l]
    BY <1>5 DEF FindState, Labels
  <2>2. \A x \in Requests : Appending(x)' = Appending(x)
    BY <1>t, <2>1, GetEffect DEF Appending
  <2>3. CASE backend = "memory" \/ stored = Absent
    BY <2>1, <2>2, <2>3, GetEffect DEF Exact
  <2>4. CASE backend = "redis" /\ stored # Absent
    <3>1. Appending(r) = {} /\ object'[r] = stored
      BY <1>t, <2>1, <2>4, GetEffect DEF Appending, Owned
    <3>2. object'[r].count = Cardinality(object'[r].seen) + Cardinality(Appending(r))
      <4>1. Cardinality(Appending(r)) = 0
        BY <3>1, FS_EmptySet
      <4>2. object'[r].count = Cardinality(object'[r].seen) /\ object'[r].count \in Nat
        BY <1>t, <2>4, <3>1 DEF Exact, States
      <4> QED BY <4>1, <4>2
    <3>3. \A x \in Requests \ {r} : object'[x] = object[x]
      BY <2>1, GetEffect
    <3> QED BY <2>1, <2>2, <3>2, <3>3 DEF Exact
  <2> QED BY <1>t, <2>3, <2>4
<1>6. ASSUME NEW r \in Requests, CreateState(r) PROVE Exact'
  <2>1. /\ object' = [object EXCEPT ![r] = Empty] /\ held' = [held EXCEPT ![r] = r]
        /\ pc[r] = "create" /\ pc' = [pc EXCEPT ![r] = "add"] /\ Put(r) /\ backend' = backend
    BY <1>6 DEF CreateState
  <2>2. \A x \in Requests : Appending(x)' = Appending(x)
    BY <1>t, <2>1 DEF Appending
  <2>3. Appending(r) = {}
    BY <1>t, <2>1 DEF Appending, Owned
  <2>4. Empty.count = Cardinality(Empty.seen) /\ Empty.count = 0 /\ Empty.seen = {}
    BY FS_EmptySet DEF Empty
  <2>5. object'[r] = Empty /\ \A x \in Requests \ {r} : object'[x] = object[x]
    BY <1>t, <2>1
  <2>6. object'[r].count = Cardinality(object'[r].seen) + Cardinality(Appending(r)')
    BY <2>2, <2>3, <2>4, <2>5, FS_EmptySet
  <2>7. backend = "redis" => stored' = Empty
    BY <1>t, <2>1 DEF Put
  <2> QED BY <2>1, <2>2, <2>4, <2>5, <2>6, <2>7 DEF Exact
<1>7. ASSUME NEW r \in Requests, AddCount(r) PROVE Exact'
  <2>1. PICK x \in Requests : x = held[r]
    BY <1>7, AddEffect
  <2>2. /\ object'[x].count = object[x].count + 1 /\ object'[x].seen = object[x].seen
        /\ \A y \in Requests \ {x} : object'[y] = object[y]
    BY <1>7, <2>1, AddEffect
  <2>3. pc[r] = "add" /\ pc' = [pc EXCEPT ![r] = "append"] /\ UNCHANGED <<held, stored, backend>>
    BY <1>7 DEF AddCount
  <2>4. Appending(x)' = Appending(x) \cup {r} /\ r \notin Appending(x)
    BY <1>t, <2>1, <2>3 DEF Appending
  <2>5. \A y \in Requests \ {x} : Appending(y)' = Appending(y)
    BY <1>t, <2>1, <2>3 DEF Appending
  <2>6. Cardinality(Appending(x)') = Cardinality(Appending(x)) + 1
    BY <2>4, Finite, FS_AddElement
  <2>7. object'[x].count = Cardinality(object'[x].seen) + Cardinality(Appending(x)')
    <3>1. PICK c \in Nat, s \in Nat, a \in Nat :
            /\ object[x].count = c /\ Cardinality(object[x].seen) = s
            /\ Cardinality(Appending(x)) = a
      BY Finite
    <3>2. c + 1 = s + (a + 1)
      BY <3>1 DEF Exact
    <3> QED BY <2>2, <2>6, <3>1, <3>2
  <2> QED BY <2>2, <2>3, <2>5, <2>7 DEF Exact
<1>8. ASSUME NEW r \in Requests, AppendTime(r) PROVE Exact'
  <2>1. PICK x \in Requests : x = held[r]
    BY <1>8, AppendEffect
  <2>2. /\ object'[x].count = object[x].count /\ object'[x].seen = object[x].seen \cup {r}
        /\ \A y \in Requests \ {x} : object'[y] = object[y]
    BY <1>8, <2>1, AppendEffect
  <2>3. pc[r] = "append" /\ pc' = [pc EXCEPT ![r] = "put"] /\ UNCHANGED <<held, stored, backend>>
    BY <1>8 DEF AppendTime
  <2>4. Appending(x) = Appending(x)' \cup {r} /\ r \notin Appending(x)'
    BY <1>t, <2>1, <2>3 DEF Appending
  <2>5. \A y \in Requests \ {x} : Appending(y)' = Appending(y)
    BY <1>t, <2>1, <2>3 DEF Appending
  <2>6. IsFiniteSet(Appending(x)') /\ Cardinality(Appending(x)') \in Nat
    <3>1. Appending(x)' \subseteq Appending(x)
      BY <2>4
    <3> QED BY <3>1, Finite, FS_Subset, FS_CardinalityType
  <2>7. Cardinality(Appending(x)' \cup {r}) = Cardinality(Appending(x)') + 1
    BY <2>4, <2>6, FS_AddElement, Zenon
  <2>8. Cardinality(Appending(x)) = Cardinality(Appending(x)') + 1
    BY <2>4, <2>7, Zenon
  <2>9. r \notin object[x].seen
    BY <2>3 DEF SeenOnce, Appended
  <2>10. Cardinality(object[x].seen \cup {r}) = Cardinality(object[x].seen) + 1
    BY <2>9, Finite, FS_AddElement
  <2>11. object'[x].count = Cardinality(object'[x].seen) + Cardinality(Appending(x)')
    <3>1. PICK c \in Nat, s \in Nat, a \in Nat :
            /\ object[x].count = c /\ Cardinality(object[x].seen) = s
            /\ Cardinality(Appending(x)') = a
      BY <2>6, Finite
    <3>2. c = s + (a + 1)
      BY <2>8, <3>1 DEF Exact
    <3>3. c = (s + 1) + a
      BY <3>2
    <3> QED BY <2>2, <2>10, <3>1, <3>3
  <2> QED BY <2>2, <2>3, <2>5, <2>11 DEF Exact
<1>9. ASSUME NEW r \in Requests, WriteBack(r) PROVE Exact'
  <2>1. /\ UNCHANGED <<backend, object, held>> /\ pc[r] # "append"
        /\ \E l \in Labels \ {"append"} : pc' = [pc EXCEPT ![r] = l]
    BY <1>9 DEF WriteBack, Labels
  <2>2. \A x \in Requests : Appending(x)' = Appending(x)
    BY <1>t, <2>1 DEF Appending
  <2>3. CASE backend = "memory"
    BY <2>1, <2>2, <2>3 DEF Exact
  <2>4. CASE backend = "redis"
    <3>1. held[r] # Absent => held[r] = r
      BY <1>t, <2>4 DEF Owned
    <3>2. object[r].count = Cardinality(object[r].seen)
      BY <2>1, <2>4, CopyIsExact
    <3>3. Empty.count = Cardinality(Empty.seen)
      BY FS_EmptySet DEF Empty
    <3>4. stored' = stored \/ stored' = object[r] \/ stored' = Empty
      BY <1>9, <2>1, <2>4, <3>1 DEF WriteBack, Put, Equipped
    <3> QED BY <2>1, <2>2, <3>2, <3>3, <3>4 DEF Exact
  <2> QED BY <1>t, <2>3, <2>4
<1>10. ASSUME NEW r \in Requests, RedisFails(r) PROVE Exact'
  <2>1. /\ UNCHANGED <<backend, object, held>> /\ pc[r] # "append"
        /\ \E l \in Labels \ {"append"} : pc' = [pc EXCEPT ![r] = l]
    BY <1>10 DEF RedisFails, Labels
  <2>2. \A x \in Requests : Appending(x)' = Appending(x)
    BY <1>t, <2>1 DEF Appending
  <2>3. CASE backend = "memory"
    BY <2>1, <2>2, <2>3 DEF Exact
  <2>4. CASE backend = "redis"
    <3>1. held[r] # Absent => held[r] = r
      BY <1>t, <2>4 DEF Owned
    <3>2. object[r].count = Cardinality(object[r].seen)
      BY <2>1, <2>4, CopyIsExact
    <3>3. Empty.count = Cardinality(Empty.seen)
      BY FS_EmptySet DEF Empty
    <3>4. stored' = stored \/ stored' = object[r] \/ stored' = Empty
      BY <1>10, <2>1, <2>4, <3>1 DEF RedisFails, Put, Equipped
    <3> QED BY <2>1, <2>2, <3>2, <3>3, <3>4 DEF Exact
  <2> QED BY <1>t, <2>3, <2>4
<1>11. ASSUME NEW z \in Resets, ClearMemory(z) PROVE Exact'
  BY <1>11, <1>t DEF ClearMemory, Get, Put, StartReset, EndReset, Overlap, Exact, Appending
<1>12. ASSUME NEW z \in Resets, ListKeys(z) PROVE Exact'
  BY <1>12, <1>t DEF ListKeys, Get, Put, StartReset, EndReset, Overlap, Exact, Appending
<1>13. ASSUME NEW z \in Resets, DeleteKeys(z) PROVE Exact'
  BY <1>13, <1>t DEF DeleteKeys, Get, Put, StartReset, EndReset, Overlap, Exact, Appending
<1>14. ASSUME NEW z \in Resets, ResetFails(z) PROVE Exact'
  BY <1>14, <1>t DEF ResetFails, Get, Put, StartReset, EndReset, Overlap, Exact, Appending
<1>15. CASE UNCHANGED vars
  BY <1>15, <1>t DEF vars, Get, Put, StartReset, EndReset, Overlap, Exact, Appending
<1> QED BY <1>1, <1>2, <1>3, <1>4, <1>5, <1>6, <1>7, <1>8, <1>9,
           <1>10, <1>11, <1>12, <1>13, <1>14, <1>15 DEF Next

LEMMA NextAnswered ==
  ASSUME TypeOK, Equipped, Owned, Exact, Answered, [Next]_vars
  PROVE  Answered'
<1>t. /\ pc \in [Requests -> Labels] /\ object \in [Requests -> States]
      /\ held \in [Requests -> Requests \cup {Absent}]
      /\ reply \in [Requests -> [count : Nat, velocity : Nat]]
      /\ stored # Absent => IF backend = "memory" THEN stored \in Requests ELSE stored \in States
      /\ backend \in {"memory", "redis"} /\ Absent \notin Requests
  BY ConcurrentAssumption DEF TypeOK
<1> USE DEF Goto, ResetTo, Resetting, history
<1>1. ASSUME NEW r \in Requests, ReadState(r) PROVE Answered'
  BY <1>1, <1>t
     DEF ReadState, Get, Put, StartReset, EndReset, Overlap, Equipped, Owned, Answered,
         States, Empty
<1>2. ASSUME NEW r \in Requests, ReadCount(r) PROVE Answered'
  BY <1>2, <1>t
     DEF ReadCount, Get, Put, StartReset, EndReset, Overlap, Equipped, Owned, Answered,
         States, Empty
<1>3. ASSUME NEW r \in Requests, ReadVelocity(r) PROVE Answered'
  <2>1. CASE backend = "memory"
    BY <1>3, <2>1 DEF ReadVelocity, Answered
  <2>2. CASE backend = "redis"
    <3>1. /\ pc[r] = "velocity" /\ pc' = [pc EXCEPT ![r] = "predict"]
          /\ UNCHANGED <<backend, object, held>>
      BY <1>3 DEF ReadVelocity
    <3>2. held[r] \in {r, Absent}
      BY <2>2 DEF Owned
    <3>3. reply[r].count = IF held[r] = Absent THEN 0 ELSE object[r].count
      BY <2>2, <3>1, <3>2 DEF Answered
    <3>4. object[r].count = Cardinality(object[r].seen)
      BY <2>2, <3>1, CopyIsExact
    <3>5. reply'[r].velocity = IF held[r] = Absent THEN 0 ELSE Cardinality(object[r].seen)
      BY <1>3, <1>t, <3>2 DEF ReadVelocity
    <3>6. reply'[r].count = reply[r].count /\ \A q \in Requests \ {r} : reply'[q] = reply[q]
      BY <1>3, <1>t DEF ReadVelocity
    <3>7. reply'[r].count = reply'[r].velocity
      BY <3>3, <3>4, <3>5, <3>6
    <3> QED BY <1>t, <2>2, <3>1, <3>6, <3>7 DEF Answered
  <2> QED BY <1>t, <2>1, <2>2
<1>4. ASSUME NEW r \in Requests, PredictRaises(r) PROVE Answered'
  BY <1>4, <1>t
     DEF PredictRaises, Get, Put, StartReset, EndReset, Overlap, Equipped, Owned, Answered,
         States, Empty
<1>5. ASSUME NEW r \in Requests, FindState(r) PROVE Answered'
  BY <1>5, <1>t
     DEF FindState, Get, Put, StartReset, EndReset, Overlap, Equipped, Owned, Answered,
         States, Empty
<1>6. ASSUME NEW r \in Requests, CreateState(r) PROVE Answered'
  BY <1>6, <1>t
     DEF CreateState, Get, Put, StartReset, EndReset, Overlap, Equipped, Owned, Answered,
         States, Empty
<1>7. ASSUME NEW r \in Requests, AddCount(r) PROVE Answered'
  BY <1>7, <1>t
     DEF AddCount, Get, Put, StartReset, EndReset, Overlap, Equipped, Owned, Answered,
         States, Empty
<1>8. ASSUME NEW r \in Requests, AppendTime(r) PROVE Answered'
  BY <1>8, <1>t
     DEF AppendTime, Get, Put, StartReset, EndReset, Overlap, Equipped, Owned, Answered,
         States, Empty
<1>9. ASSUME NEW r \in Requests, WriteBack(r) PROVE Answered'
  BY <1>9, <1>t
     DEF WriteBack, Get, Put, StartReset, EndReset, Overlap, Equipped, Owned, Answered,
         States, Empty
<1>10. ASSUME NEW r \in Requests, RedisFails(r) PROVE Answered'
  BY <1>10, <1>t
     DEF RedisFails, Get, Put, StartReset, EndReset, Overlap, Equipped, Owned, Answered,
         States, Empty
<1>11. ASSUME NEW z \in Resets, ClearMemory(z) PROVE Answered'
  BY <1>11, <1>t
     DEF ClearMemory, Get, Put, StartReset, EndReset, Overlap, Equipped, Owned, Answered,
         States, Empty
<1>12. ASSUME NEW z \in Resets, ListKeys(z) PROVE Answered'
  BY <1>12, <1>t
     DEF ListKeys, Get, Put, StartReset, EndReset, Overlap, Equipped, Owned, Answered,
         States, Empty
<1>13. ASSUME NEW z \in Resets, DeleteKeys(z) PROVE Answered'
  BY <1>13, <1>t
     DEF DeleteKeys, Get, Put, StartReset, EndReset, Overlap, Equipped, Owned, Answered,
         States, Empty
<1>14. ASSUME NEW z \in Resets, ResetFails(z) PROVE Answered'
  BY <1>14, <1>t
     DEF ResetFails, Get, Put, StartReset, EndReset, Overlap, Equipped, Owned, Answered,
         States, Empty
<1>15. CASE UNCHANGED vars
  BY <1>15, <1>t
     DEF vars, Get, Put, StartReset, EndReset, Overlap, Equipped, Owned, Answered, States,
         Empty
<1> QED BY <1>1, <1>2, <1>3, <1>4, <1>5, <1>6, <1>7, <1>8, <1>9,
           <1>10, <1>11, <1>12, <1>13, <1>14, <1>15 DEF Next

----------------------------------------------------------------------------
(* A step takes times out of the stored state only in a reset or in an      *)
(* update that is not alone.                                                *)
Harmless == \/ Stored.seen \subseteq Stored'.seen
            \/ stored' = Absent
            \/ \E r \in Updating \cap overlapped : pc'[r] # pc[r]

LEMMA StepIsHarmless ==
  ASSUME TypeOK, Equipped, Owned, UpToDate, Next
  PROVE  Harmless
<1>t. /\ pc \in [Requests -> Labels] /\ object \in [Requests -> States]
      /\ held \in [Requests -> Requests \cup {Absent}]
      /\ stored # Absent => IF backend = "memory" THEN stored \in Requests ELSE stored \in States
      /\ backend \in {"memory", "redis"} /\ Absent \notin Requests
  BY ConcurrentAssumption DEF TypeOK
<1> USE DEF Goto, ResetTo, Resetting, history
<1>u. ASSUME NEW r \in Updating, pc'[r] # pc[r]
      PROVE  Harmless \/ IF pc[r] = "create" THEN stored = Absent
                         ELSE Stored.seen \subseteq object[held[r]].seen
  BY <1>u DEF Harmless, UpToDate
<1>e. stored = Absent => Stored.seen = {}
  BY StoredType DEF Empty
<1>1. ASSUME NEW r \in Requests, ReadState(r) PROVE Harmless
  BY <1>1, <1>t DEF ReadState, Get, Stored, Harmless
<1>2. ASSUME NEW r \in Requests, ReadCount(r) PROVE Harmless
  BY <1>2, <1>t DEF ReadCount, Get, Stored, Harmless
<1>3. ASSUME NEW r \in Requests, ReadVelocity(r) PROVE Harmless
  BY <1>3, <1>t DEF ReadVelocity, Get, Stored, Harmless
<1>4. ASSUME NEW r \in Requests, PredictRaises(r) PROVE Harmless
  BY <1>4, <1>t DEF PredictRaises, Get, Stored, Harmless
<1>5. ASSUME NEW r \in Requests, FindState(r) PROVE Harmless
  BY <1>5, <1>t DEF FindState, Get, Stored, Harmless
<1>6. ASSUME NEW r \in Requests, CreateState(r) PROVE Harmless
  <2>1. r \in Updating /\ pc[r] = "create" /\ pc'[r] # pc[r]
    BY <1>6, <1>t DEF CreateState, Updating
  <2> QED BY <1>u, <1>e, <2>1 DEF Harmless
<1>7. ASSUME NEW r \in Requests, AddCount(r) PROVE Harmless
  <2>1. UNCHANGED <<backend, stored>>
    BY <1>7 DEF AddCount
  <2>2. \A x \in Requests : object'[x].seen = object[x].seen
    BY <1>7, AddEffect
  <2> QED BY <1>t, <2>1, <2>2 DEF Stored, Harmless
<1>8. ASSUME NEW r \in Requests, AppendTime(r) PROVE Harmless
  <2>1. UNCHANGED <<backend, stored>>
    BY <1>8 DEF AppendTime
  <2>2. \A x \in Requests : object[x].seen \subseteq object'[x].seen
    BY <1>8, AppendEffect
  <2> QED BY <1>t, <2>1, <2>2 DEF Stored, Harmless
<1>9. ASSUME NEW r \in Requests, WriteBack(r) PROVE Harmless
  <2>1. /\ r \in Updating /\ pc[r] = "put" /\ pc'[r] # pc[r] /\ held[r] \in Requests
        /\ Put(r) /\ UNCHANGED <<backend, object, held>>
    BY <1>9, <1>t DEF WriteBack, Updating, Equipped
  <2>2. Stored' = object[held[r]]
    BY <2>1, PutEffect
  <2> QED BY <1>u, <2>1, <2>2 DEF Harmless
<1>10. ASSUME NEW r \in Requests, RedisFails(r) PROVE Harmless
  <2>1. /\ backend' = backend /\ pc'[r] # pc[r]
        /\ \/ UNCHANGED <<stored, object>>
           \/ pc[r] = "create"
           \/ pc[r] = "put" /\ Put(r) /\ UNCHANGED <<object, held>>
    BY <1>10, <1>t DEF RedisFails
  <2>2. CASE UNCHANGED <<stored, object>>
    BY <2>1, <2>2 DEF Stored, Harmless
  <2>3. CASE pc[r] = "create"
    BY <1>u, <1>e, <2>1, <2>3 DEF Updating, Harmless
  <2>4. CASE pc[r] = "put" /\ Put(r) /\ UNCHANGED <<object, held>>
    <3>1. r \in Updating /\ held[r] \in Requests
      BY <1>t, <2>4 DEF Updating, Equipped
    <3>2. Stored' = object[held[r]]
      BY <2>1, <2>4, <3>1, PutEffect
    <3> QED BY <1>u, <2>1, <2>4, <3>1, <3>2 DEF Harmless
  <2> QED BY <2>1, <2>2, <2>3, <2>4
<1>11. ASSUME NEW z \in Resets, ClearMemory(z) PROVE Harmless
  BY <1>11, <1>t DEF ClearMemory, Get, Stored, Harmless
<1>12. ASSUME NEW z \in Resets, ListKeys(z) PROVE Harmless
  BY <1>12, <1>t DEF ListKeys, Get, Stored, Harmless
<1>13. ASSUME NEW z \in Resets, DeleteKeys(z) PROVE Harmless
  BY <1>13, <1>t DEF DeleteKeys, Get, Stored, Harmless
<1>14. ASSUME NEW z \in Resets, ResetFails(z) PROVE Harmless
  BY <1>14, <1>t DEF ResetFails, Get, Stored, Harmless
<1> QED BY <1>1, <1>2, <1>3, <1>4, <1>5, <1>6, <1>7, <1>8, <1>9,
           <1>10, <1>11, <1>12, <1>13, <1>14 DEF Next

----------------------------------------------------------------------------
(* The theorems *)

IInv == /\ TypeOK /\ Equipped /\ Owned /\ SeenOnce
        /\ Exact /\ Alone /\ UpToDate /\ Kept /\ Cleared /\ Answered

LEMMA InitIInv == Init => IInv
<1> SUFFICES ASSUME Init PROVE IInv
  OBVIOUS
<1>1. TypeOK
  BY ConcurrentAssumption DEF Init, TypeOK, Labels, States, Empty, ConcurrentAssumption
<1>2. Equipped /\ Owned /\ Alone /\ Answered
  BY ConcurrentAssumption
     DEF Init, Equipped, Owned, Alone, Answered, Updating, Resetting, ConcurrentAssumption
<1>3. SeenOnce
  BY DEF Init, SeenOnce, Empty
<1>4. Stored.seen = {} /\ Updating = {} /\ Working = {}
  BY DEF Init, Stored, Empty, Updating, Working
<1>5. UpToDate /\ Kept /\ Cleared
  BY <1>4 DEF Init, UpToDate, Kept, Cleared, Resetting
<1>6. \A x \in Requests : Appending(x) = {} /\ object[x].seen = {} /\ object[x].count = 0
  BY DEF Init, Appending, Empty
<1>7. Exact
  BY <1>6, FS_EmptySet DEF Init, Exact
<1> QED BY <1>1, <1>2, <1>3, <1>5, <1>7 DEF IInv

LEMMA InvariantHolds == Spec => []IInv
<1>1. IInv /\ [Next]_vars => IInv'
  <2> SUFFICES ASSUME IInv, [Next]_vars PROVE IInv'
    OBVIOUS
  <2>1. TypeOK' /\ Equipped' /\ Owned' /\ SeenOnce'
    BY NextTypes, NextEquipped, NextOwned, NextSeenOnce DEF IInv
  <2>2. Exact' /\ Alone' /\ UpToDate' /\ Kept' /\ Cleared' /\ Answered'
    BY NextExact, NextAlone, NextUpToDate, NextKept, NextCleared, NextAnswered DEF IInv
  <2> QED BY <2>1, <2>2 DEF IInv
<1> QED BY <1>1, InitIInv, PTL DEF Spec

(* Every reachable state is well typed; in particular no thread works on an *)
(* object that is not there.                                                *)
THEOREM TypeCorrect == Spec => []TypeOK
<1>1. IInv => TypeOK
  BY DEF IInv
<1> QED BY <1>1, InvariantHolds, PTL

(* However many threads interleave between get and put, the stored state    *)
(* counts exactly the times in its deque and those being appended to it     *)
(* (state.py, update).                                                      *)
THEOREM StateIsNeverTorn == Spec => []NotTorn
<1>1. IInv => NotTorn
  <2> SUFFICES ASSUME IInv PROVE NotTorn
    OBVIOUS
  <2> DEFINE Halves == {r \in Requests : /\ backend = "memory" /\ stored # Absent
                                         /\ pc[r] = "append" /\ held[r] = stored}
  <2>1. TypeOK /\ Exact /\ Stored \in States /\ backend \in {"memory", "redis"}
    BY StoredType, ConcurrentAssumption DEF IInv, TypeOK, ConcurrentAssumption
  <2>2. CASE backend = "memory" /\ stored # Absent
    <3>1. stored \in Requests /\ Stored = object[stored] /\ Halves = Appending(stored)
      BY <2>1, <2>2, StoredType DEF TypeOK, Appending
    <3> QED BY <2>1, <3>1 DEF Exact, NotTorn
  <2>3. CASE backend = "redis" \/ stored = Absent
    <3>1. Halves = {}
      BY <2>3
    <3>2. Cardinality(Halves) = 0
      BY <3>1, FS_EmptySet
    <3>3. Stored.count = Cardinality(Stored.seen) /\ Stored.count \in Nat
      <4>1. CASE stored = Absent
        BY <2>1, <4>1, StoredType, FS_EmptySet DEF Empty
      <4>2. CASE stored # Absent
        BY <2>1, <2>3, <4>2, StoredType DEF Exact, States
      <4> QED BY <4>1, <4>2
    <3>4. Stored.count = Cardinality(Stored.seen) + Cardinality(Halves)
      BY <3>2, <3>3
    <3> QED BY <3>4 DEF NotTorn
  <2> QED BY <2>1, <2>2, <2>3
<1> QED BY <1>1, InvariantHolds, PTL

(* An update that overlapped no other update and no reset stays in the      *)
(* state, whatever stale copies are written back later.                     *)
THEOREM IsolatedUpdatesStay == Spec => []IsolatedUpdateIsKept
<1>1. IInv => IsolatedUpdateIsKept
  BY DEF IInv, Kept, IsolatedUpdateIsKept
<1> QED BY <1>1, InvariantHolds, PTL

(* No step of an update that runs alone, and no other step but a reset,     *)
(* takes a transaction out of the stored state: work is lost only where two *)
(* updates, or an update and a reset, overlap (state.py, update).           *)
THEOREM LossNeedsOverlap == Spec => OnlyOverlapsDropUpdates
<1>1. IInv /\ [Next]_vars => [Harmless]_vars
  BY StepIsHarmless DEF IInv
<1> QED BY <1>1, InvariantHolds, PTL DEF Spec, OnlyOverlapsDropUpdates, Harmless

(* No request that was over when a quiet reset ended comes back, although   *)
(* threads that had read the old state go on (state_backend.py, clear).     *)
THEOREM QuietResetsAreFinal == Spec => []ResetIsFinal
<1>1. IInv => ResetIsFinal
  BY DEF IInv, Cleared, ResetIsFinal
<1> QED BY <1>1, InvariantHolds, PTL

(* With Redis the features of a reply are those of one state                *)
(* (state.py, compute_features).                                            *)
THEOREM RepliesAreSnapshots == Spec => []RedisRepliesAreSnapshots
<1>1. IInv => RedisRepliesAreSnapshots
  BY DEF IInv, Answered, RedisRepliesAreSnapshots
<1> QED BY <1>1, InvariantHolds, PTL
=============================================================================
