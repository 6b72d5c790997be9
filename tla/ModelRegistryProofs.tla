------------------------- MODULE ModelRegistryProofs -------------------------
(***************************************************************************)
(* Every copy of the registry is sound - one champion, and a way back from *)
(* it - for any number of models, operators and saves.  The invariant is   *)
(* about one registry record at a time: Sound, preserved by each editing   *)
(* method; loading, saving and dying only copy records around.             *)
(***************************************************************************)
EXTENDS ModelRegistry, TLAPS

\* Direct register_model calls neither crown a model nor overwrite one.
Supervised == \A d \in Direct : d.status # "CHAMPION" /\ ~d.overwrite

\* A model that another one was promoted over has been a champion and stays one
\* or retired: no later step may reject, reset or forget it.
Sound(r) == /\ r \in Registries
            /\ \A m \in Models : r.status[m] = "CHAMPION" <=> r.champion = m
            /\ \A m \in Models : r.from[m] # None =>
                 r.from[m] # m /\ r.status[r.from[m]] \in {"RETIRED", "CHAMPION"}

IInv == /\ disk \in {Missing, Truncated} \/ Sound(disk)
        /\ memory \in [Operators -> Registries \cup {NoRegistry}]
        /\ \A o \in Operators : memory[o] # NoRegistry => Sound(memory[o])
        /\ saving \subseteq {o \in Operators : memory[o] # NoRegistry}
        /\ saves \in 0..MaxSaves
        /\ current \subseteq {o \in Operators : memory[o] # NoRegistry}

----------------------------------------------------------------------------
(* The registry record *)

\* A registry without a file is empty, and sound.
LEMMA FreshIsSound == Sound(Fresh)
<1>1. Fresh \in Registries
  BY DEF Fresh, Registries
<1>2. \A m \in Models : Fresh.status[m] = None /\ Fresh.champion = None /\ Fresh.from[m] = None
  BY DEF Fresh
<1>3. None # "CHAMPION"
  BY RegistryAssumption DEF Statuses
<1> QED
  BY <1>1, <1>2, <1>3, RegistryAssumption DEF Sound

\* register_model of an unknown model, or register_champion of the champion or
\* into a registry without one, keeps a registry sound.
LEMMA RegisterIsSound ==
  ASSUME NEW r, Sound(r), NEW m \in Models, NEW status \in Statuses,
         \/ r.status[m] = None /\ status # "CHAMPION"
         \/ r.champion \in {None, m} /\ status = "CHAMPION"
  PROVE  Sound([champion |-> IF status = "CHAMPION" THEN m ELSE r.champion,
                status   |-> [r.status EXCEPT ![m] = status],
                from     |-> [r.from EXCEPT ![m] = None]])
<1> DEFINE s == [champion |-> IF status = "CHAMPION" THEN m ELSE r.champion,
                 status   |-> [r.status EXCEPT ![m] = status],
                 from     |-> [r.from EXCEPT ![m] = None]]
<1>1. s \in Registries
  BY DEF Sound, Registries
<1>2. \A n \in Models : s.status[n] = "CHAMPION" <=> s.champion = n
  BY RegistryAssumption DEF Sound, Registries, Statuses
<1>3. \A n \in Models : s.from[n] # None =>
        s.from[n] # n /\ s.status[s.from[n]] \in {"RETIRED", "CHAMPION"}
  <2> SUFFICES ASSUME NEW n \in Models, s.from[n] # None
               PROVE  s.from[n] # n /\ s.status[s.from[n]] \in {"RETIRED", "CHAMPION"}
    OBVIOUS
  <2>1. n # m /\ s.from[n] = r.from[n] /\ r.from[n] \in Models
    BY DEF Sound, Registries
  <2>2. r.from[n] # n /\ r.status[r.from[n]] \in {"RETIRED", "CHAMPION"}
    BY <2>1 DEF Sound
  <2>3. CASE r.from[n] = m
    BY <2>1, <2>2, <2>3, RegistryAssumption DEF Sound, Registries, Statuses
  <2>4. CASE r.from[n] # m
    BY <2>1, <2>2, <2>4 DEF Sound, Registries
  <2> QED
    BY <2>3, <2>4
<1> QED
  BY <1>1, <1>2, <1>3 DEF Sound

\* Making a candidate or a retired model the champion keeps a registry sound.
LEMMA CrownIsSound ==
  ASSUME NEW r, Sound(r), NEW m \in Models, r.status[m] \in {"CANDIDATE", "RETIRED"}
  PROVE  /\ Sound(Crown(r, m))
         /\ r.champion # m
         /\ r.champion # None => Crown(r, m).status[r.champion] = "RETIRED"
<1> DEFINE s == Crown(r, m)
<1>1. /\ s.champion = m /\ s.from = r.from
      /\ s.status = [n \in Models |-> CASE n = m -> "CHAMPION"
                                        [] n = r.champion -> "RETIRED"
                                        [] OTHER -> r.status[n]]
  BY DEF Sound, Registries, Crown
<1>2. r.champion # m
  BY DEF Sound
<1>3. /\ s.status[m] = "CHAMPION"
      /\ \A n \in Models \ {m} : s.status[n] = IF n = r.champion THEN "RETIRED" ELSE r.status[n]
  BY <1>1, <1>2
<1>4. s \in Registries
  <2>1. s.status \in [Models -> Statuses \cup {None}]
    BY <1>1 DEF Sound, Registries, Statuses
  <2> QED
    BY <1>1, <2>1 DEF Sound, Registries, Crown
<1>5. \A n \in Models : s.status[n] = "CHAMPION" <=> s.champion = n
  BY <1>1, <1>2, <1>3 DEF Sound
<1>6. \A n \in Models : s.from[n] # None =>
        s.from[n] # n /\ s.status[s.from[n]] \in {"RETIRED", "CHAMPION"}
  BY <1>1, <1>3 DEF Sound, Registries
<1> QED
  BY <1>2, <1>3, <1>4, <1>5, <1>6 DEF Sound, Registries

\* promote() keeps a registry sound: the candidate points to the retired champion.
LEMMA PromoteIsSound ==
  ASSUME NEW r, Sound(r), NEW m \in Models, r.status[m] = "CANDIDATE"
  PROVE  Sound([Crown(r, m) EXCEPT !.from[m] = r.champion])
<1> DEFINE c == Crown(r, m)
           s == [c EXCEPT !.from[m] = r.champion]
<1>1. Sound(c) /\ r.champion # m /\ (r.champion # None => c.status[r.champion] = "RETIRED")
  BY CrownIsSound
<1> HIDE DEF c
<1>2. /\ s.champion = c.champion /\ s.status = c.status
      /\ s.from = [c.from EXCEPT ![m] = r.champion]
      /\ s \in Registries
  BY <1>1 DEF Sound, Registries
<1>3. \A n \in Models : s.from[n] = IF n = m THEN r.champion ELSE c.from[n]
  BY <1>1, <1>2 DEF Sound, Registries
<1> HIDE DEF s
<1>4. Sound(s)
  BY <1>1, <1>2, <1>3 DEF Sound
<1> QED
  BY <1>4 DEF s, c

\* reject() keeps a registry sound: nothing was promoted over a candidate.
LEMMA RejectIsSound ==
  ASSUME NEW r, Sound(r), NEW m \in Models, r.status[m] = "CANDIDATE"
  PROVE  Sound([r EXCEPT !.status[m] = "REJECTED"])
BY DEF Sound, Registries, Statuses

----------------------------------------------------------------------------
(* The invariant *)

\* Nothing is on disk and no process runs.
LEMMA InitIInv == Init => IInv
BY FreshIsSound, RegistryAssumption DEF Init, IInv

\* Every editing method puts one sound registry in the place of another.
LEMMA EditKeepsIInv ==
  ASSUME IInv, NEW o \in Operators, memory[o] # NoRegistry,
         NEW r, Sound(r), Edit(o, r)
  PROVE  IInv'
<1>1. r \in Registries /\ r # NoRegistry
  BY DistinctAssumption DEF Sound
<1> QED
  BY <1>1 DEF IInv, Edit, Sound, Registries, Consistent

\* No step of any process, and no crash, breaks the invariant.
LEMMA NextIInv ==
  ASSUME Supervised, IInv, [Next]_vars
  PROVE  IInv'
<1>1. ASSUME NEW o \in Operators, Load(o)
      PROVE  IInv'
  <2> DEFINE r == IF disk = Missing THEN Fresh ELSE disk
  <2>1. Sound(r) /\ r \in Registries
    BY <1>1, FreshIsSound DEF IInv, Load, Sound
  <2>2. memory' = [memory EXCEPT ![o] = r]
    BY <1>1 DEF Load
  <2> HIDE DEF r
  <2>3. memory'[o] = r /\ \A p \in Operators \ {o} : memory'[p] = memory[p]
    BY <2>2 DEF IInv
  <2> QED
    BY <1>1, <2>1, <2>2, <2>3, DistinctAssumption DEF IInv, Load
<1>2. ASSUME NEW o \in Operators, OpenToSave(o)
      PROVE  IInv'
  BY <1>2, RegistryAssumption DEF IInv, OpenToSave
<1>3. ASSUME NEW o \in Operators, Dump(o)
      PROVE  IInv'
  <2>1. o \in saving /\ memory[o] # NoRegistry /\ Sound(memory[o])
    BY <1>3 DEF IInv, Dump
  <2>2. disk' \in {memory[o], Truncated}
    BY <1>3 DEF Dump
  <2>3. disk' \in {Missing, Truncated} \/ Sound(disk')
    BY <2>1, <2>2
  <2> QED
    BY <1>3, <2>3 DEF IInv, Dump
<1>4. ASSUME NEW o \in Operators, Exit(o)
      PROVE  IInv'
  BY <1>4 DEF IInv, Exit
<1>5. ASSUME NEW o \in Operators, NEW m \in Models, NEW status \in Statuses,
             NEW overwrite \in BOOLEAN, RegisterModel(o, m, status, overwrite),
             \/ ~overwrite /\ status # "CHAMPION"
             \/ memory[o].champion \in {None, m} /\ status = "CHAMPION"
      PROVE  IInv'
  <2>1. memory[o] # NoRegistry /\ Sound(memory[o])
    BY <1>5 DEF IInv, RegisterModel, Session
  <2>2. \/ memory[o].status[m] = None /\ status # "CHAMPION"
        \/ memory[o].champion \in {None, m} /\ status = "CHAMPION"
    BY <1>5 DEF RegisterModel
  <2> DEFINE r == [champion |-> IF status = "CHAMPION" THEN m ELSE memory[o].champion,
                   status   |-> [memory[o].status EXCEPT ![m] = status],
                   from     |-> [memory[o].from EXCEPT ![m] = None]]
  <2>3. Sound(r)
    BY <2>1, <2>2, RegisterIsSound
  <2>4. Edit(o, r)
    BY <1>5 DEF RegisterModel
  <2> HIDE DEF r
  <2> QED
    BY <2>1, <2>3, <2>4, EditKeepsIInv
<1>6. ASSUME NEW o \in Operators, NEW m \in Models, RegisterChampion(o, m)
      PROVE  IInv'
  BY <1>5, <1>6 DEF RegisterChampion, Statuses
<1>7. ASSUME NEW o \in Operators, NEW m \in Models, RegisterCandidate(o, m)
      PROVE  IInv'
  BY <1>5, <1>7 DEF RegisterCandidate, Statuses
<1>8. ASSUME NEW o \in Operators, NEW m \in Models, NEW d \in Direct,
             RegisterModel(o, m, d.status, d.overwrite)
      PROVE  IInv'
  <2>1. d.status \in Statuses /\ d.overwrite = FALSE /\ d.status # "CHAMPION"
    BY RegistryAssumption DEF Supervised
  <2> QED
    BY <1>5, <1>8, <2>1
<1>9. ASSUME NEW o \in Operators, NEW m \in Models, Promote(o, m)
      PROVE  IInv'
  <2>1. memory[o] # NoRegistry /\ Sound(memory[o]) /\ memory[o].status[m] = "CANDIDATE"
    BY <1>9 DEF IInv, Promote, Session
  <2> DEFINE r == [Crown(memory[o], m) EXCEPT !.from[m] = memory[o].champion]
  <2>2. Sound(r)
    BY <2>1, PromoteIsSound
  <2>3. Edit(o, r)
    BY <1>9 DEF Promote
  <2> HIDE DEF r
  <2> QED
    BY <2>1, <2>2, <2>3, EditKeepsIInv
<1>10. ASSUME NEW o \in Operators, NEW m \in Models, Rollback(o, m)
       PROVE  IInv'
  <2>1. memory[o] # NoRegistry /\ Sound(memory[o]) /\ memory[o].status[m] = "RETIRED"
    BY <1>10 DEF IInv, Rollback, Session
  <2>2. Sound(Crown(memory[o], m))
    BY <2>1, CrownIsSound
  <2> QED
    BY <1>10, <2>1, <2>2, EditKeepsIInv DEF Rollback
<1>11. ASSUME NEW o \in Operators, NEW m \in Models, Reject(o, m)
       PROVE  IInv'
  <2>1. memory[o] # NoRegistry /\ Sound(memory[o]) /\ memory[o].status[m] = "CANDIDATE"
    BY <1>11 DEF IInv, Reject, Session
  <2>2. Sound([memory[o] EXCEPT !.status[m] = "REJECTED"])
    BY <2>1, RejectIsSound
  <2> QED
    BY <1>11, <2>1, <2>2, EditKeepsIInv DEF Reject
<1>12. CASE UNCHANGED vars
  BY <1>12 DEF IInv, vars
<1> QED
  BY <1>1, <1>2, <1>3, <1>4, <1>6, <1>7, <1>8, <1>9, <1>10, <1>11, <1>12 DEF Next

\* The invariant holds in every behaviour.
LEMMA InvariantHolds == ASSUME Supervised PROVE Spec => []IInv
<1>1. Init => IInv
  BY InitIInv
<1>2. IInv /\ [Next]_vars => IInv'
  BY NextIInv
<1> QED
  BY <1>1, <1>2, PTL DEF Spec

----------------------------------------------------------------------------

\* Type correctness of registry.json and of every process's copy.
THEOREM TypeCorrect == ASSUME Supervised PROVE Spec => []TypeOK
<1>1. IInv => TypeOK
  BY DEF IInv, TypeOK, Sound
<1> QED
  BY <1>1, InvariantHolds, PTL

\* For any number of models and concurrent operators, with saves interrupted and
\* overwritten at any point, every copy has exactly the champion it names.
THEOREM OneChampionAlways == ASSUME Supervised PROVE Spec => []OneChampion
<1>1. IInv => OneChampion
  <2> SUFFICES ASSUME IInv PROVE OneChampion
    OBVIOUS
  <2>1. Consistent(disk)
    BY DistinctAssumption DEF IInv, Consistent, Sound
  <2>2. \A o \in Operators : Consistent(memory[o])
    BY DistinctAssumption DEF IInv, Consistent, Sound
  <2> QED
    BY <2>1, <2>2 DEF OneChampion
<1> QED
  BY <1>1, InvariantHolds, PTL

\* After any history of promotions and rollbacks the model a champion replaced
\* is still there, retired, to be rolled back to.
THEOREM RollbackAlwaysPossible == ASSUME Supervised PROVE Spec => []RollbackIsPossible
<1>1. ASSUME NEW r, Sound(r)
      PROVE  RollbackKept(r)
  BY <1>1 DEF RollbackKept, Sound, Registries
<1>2. ASSUME NEW r, r \notin Registries
      PROVE  RollbackKept(r)
  BY <1>2 DEF RollbackKept
<1>3. IInv => RollbackIsPossible
  <2> SUFFICES ASSUME IInv PROVE RollbackIsPossible
    OBVIOUS
  <2>1. RollbackKept(disk)
    BY <1>1, <1>2, DistinctAssumption DEF IInv
  <2>2. \A o \in Operators : RollbackKept(memory[o])
    BY <1>1, <1>2, DistinctAssumption DEF IInv
  <2> QED
    BY <2>1, <2>2 DEF RollbackIsPossible
<1> QED
  BY <1>3, InvariantHolds, PTL

----------------------------------------------------------------------------
(* Lost updates *)

\* What a copy must know to be saved over a file without losing anything.
Extends(r, d) ==
  /\ \A m \in Models :
       /\ d.status[m] # None => r.status[m] # None
       /\ d.champion # None /\ d.status[m] = "REJECTED" => r.status[m] = "REJECTED"
  /\ d.champion # None => r.champion # None

\* Until the file can be read again, only the process that is saving the latest
\* version holds it; from then on a process can come by it only by loading.
Lineage ==
  /\ \A o \in saving \cap current : disk = Truncated /\ current = {o}
  /\ \A o \in current : disk \in Registries => Extends(memory[o], disk)

\* An edit that forgets no model, takes back no rejection and keeps a champion.
LEMMA EditKeepsLineage ==
  ASSUME IInv, Lineage, NEW o \in Operators, NEW r \in Registries, Session(o), Edit(o, r),
         \A n \in Models : /\ memory[o].status[n] # None => r.status[n] # None
                           /\ memory[o].champion # None /\ memory[o].status[n] = "REJECTED"
                                => r.status[n] = "REJECTED",
         memory[o].champion # None => r.champion # None
  PROVE  Lineage'
<1>1. /\ memory' = [memory EXCEPT ![o] = r] /\ o \notin saving
      /\ UNCHANGED <<disk, saving, saves, current>> /\ current \subseteq Operators
  BY DEF Edit, Session, IInv
<1>2. memory'[o] = r /\ \A p \in Operators \ {o} : memory'[p] = memory[p]
  BY <1>1 DEF IInv
<1>3. ASSUME NEW p \in current', disk' \in Registries
      PROVE  Extends(memory'[p], disk')
  <2>1. Extends(memory[p], disk)
    BY <1>1, <1>3 DEF Lineage
  <2>2. CASE p = o
    BY <1>1, <1>2, <2>1, <2>2 DEF Extends
  <2>3. CASE p # o
    BY <1>1, <1>2, <2>1, <2>3
  <2> QED BY <2>2, <2>3
<1> QED BY <1>1, <1>3 DEF Lineage

LEMMA NextLineage ==
  ASSUME Supervised, IInv, Lineage, [Next]_vars
  PROVE  Lineage'
<1>t. /\ memory \in [Operators -> Registries \cup {NoRegistry}]
      /\ saving \subseteq Operators /\ \A o \in saving : memory[o] # NoRegistry
      /\ current \subseteq Operators /\ \A o \in current : memory[o] # NoRegistry
      /\ NoRegistry \notin Registries /\ Missing \notin Registries /\ Truncated \notin Registries
  BY DistinctAssumption DEF IInv
<1>n. None \notin Models /\ None \notin Statuses
  BY RegistryAssumption
<1>1. ASSUME NEW o \in Operators, Load(o) PROVE Lineage'
  <2> DEFINE r == IF disk = Missing THEN Fresh ELSE disk
  <2>1. /\ memory[o] = NoRegistry /\ disk # Truncated /\ memory' = [memory EXCEPT ![o] = r]
        /\ current' = current \cup {o} /\ UNCHANGED <<disk, saving>>
    BY <1>1 DEF Load
  <2>2. disk \in Registries => Extends(r, disk)
    BY <1>t DEF Extends
  <2> HIDE DEF r
  <2>3. memory'[o] = r /\ \A p \in Operators \ {o} : memory'[p] = memory[p]
    BY <1>t, <2>1
  <2>4. saving \cap current = {} /\ o \notin saving
    BY <1>t, <2>1 DEF Lineage
  <2>5. \A p \in current' : disk' \in Registries => Extends(memory'[p], disk')
    BY <1>t, <2>1, <2>2, <2>3 DEF Lineage
  <2> QED BY <2>1, <2>4, <2>5 DEF Lineage
<1>2. ASSUME NEW o \in Operators, OpenToSave(o) PROVE Lineage'
  BY <1>2, <1>t DEF OpenToSave, Lineage
<1>3. ASSUME NEW o \in Operators, Dump(o) PROVE Lineage'
  <2>1. /\ o \in saving /\ disk' \in {memory[o], Truncated} /\ saving' = saving \ {o}
        /\ current' = current \cap {o} /\ memory' = memory
    BY <1>3 DEF Dump
  <2>2. disk' \in Registries => Extends(memory[o], disk')
    BY <1>t, <2>1 DEF Extends
  <2> QED BY <2>1, <2>2 DEF Lineage
<1>4. ASSUME NEW o \in Operators, Exit(o) PROVE Lineage'
  <2>1. /\ current' = current \ {o} /\ saving' = saving \ {o} /\ disk' = disk
        /\ \A p \in Operators \ {o} : memory'[p] = memory[p]
    BY <1>4, <1>t DEF Exit
  <2> QED BY <1>t, <2>1 DEF Lineage
<1>5. ASSUME NEW o \in Operators, NEW m \in Models, NEW status \in Statuses,
             NEW overwrite \in BOOLEAN, RegisterModel(o, m, status, overwrite),
             \/ ~overwrite /\ status # "CHAMPION"
             \/ memory[o].champion \in {None, m} /\ status = "CHAMPION"
      PROVE  Lineage'
  <2>1. Session(o) /\ memory[o] # NoRegistry /\ Sound(memory[o])
    BY <1>5 DEF IInv, RegisterModel, Session
  <2> DEFINE r == [champion |-> IF status = "CHAMPION" THEN m ELSE memory[o].champion,
                   status   |-> [memory[o].status EXCEPT ![m] = status],
                   from     |-> [memory[o].from EXCEPT ![m] = None]]
  <2>2. Edit(o, r)
    BY <1>5 DEF RegisterModel
  <2>3. r \in Registries
    BY <1>n, <2>1 DEF Sound, Registries
  <2>4. \/ memory[o].status[m] = None
        \/ memory[o].champion = None
        \/ memory[o].status[m] = "CHAMPION"
    BY <1>5, <2>1 DEF RegisterModel, Sound
  <2>5. \A n \in Models : /\ memory[o].status[n] # None => r.status[n] # None
                          /\ memory[o].champion # None /\ memory[o].status[n] = "REJECTED"
                               => r.status[n] = "REJECTED"
    BY <1>n, <2>1, <2>4 DEF Sound, Registries, Statuses
  <2>6. memory[o].champion # None => r.champion # None
    BY <1>n
  <2> HIDE DEF r
  <2> QED BY <2>1, <2>2, <2>3, <2>5, <2>6, EditKeepsLineage
<1>6. ASSUME NEW o \in Operators, NEW m \in Models, RegisterChampion(o, m) PROVE Lineage'
  BY <1>5, <1>6 DEF RegisterChampion, Statuses
<1>7. ASSUME NEW o \in Operators, NEW m \in Models, RegisterCandidate(o, m) PROVE Lineage'
  BY <1>5, <1>7 DEF RegisterCandidate, Statuses
<1>8. ASSUME NEW o \in Operators, NEW m \in Models, NEW d \in Direct,
             RegisterModel(o, m, d.status, d.overwrite)
      PROVE  Lineage'
  <2>1. d.status \in Statuses /\ d.overwrite = FALSE /\ d.status # "CHAMPION"
    BY RegistryAssumption DEF Supervised
  <2> QED BY <1>5, <1>8, <2>1
<1>9. ASSUME NEW o \in Operators, NEW m \in Models, NEW r,
             Session(o), memory[o].status[m] \in {"CANDIDATE", "RETIRED"}, Edit(o, r), Sound(r),
             r.champion = m,
             \A n \in Models : r.status[n] = IF n = m THEN "CHAMPION"
                                             ELSE IF n = memory[o].champion THEN "RETIRED"
                                             ELSE memory[o].status[n]
      PROVE  Lineage'
  <2>1. memory[o] # NoRegistry /\ Sound(memory[o])
    BY <1>9 DEF IInv, Session
  <2>2. \A n \in Models : /\ memory[o].status[n] # None => r.status[n] # None
                          /\ memory[o].champion # None /\ memory[o].status[n] = "REJECTED"
                               => r.status[n] = "REJECTED"
    BY <1>9, <1>n, <2>1 DEF Sound, Statuses
  <2> QED BY <1>9, <1>n, <2>2, EditKeepsLineage DEF Sound
<1>10. ASSUME NEW o \in Operators, NEW m \in Models, Promote(o, m) PROVE Lineage'
  <2>1. memory[o] # NoRegistry /\ Sound(memory[o]) /\ memory[o].status[m] = "CANDIDATE"
    BY <1>10 DEF IInv, Promote, Session
  <2> DEFINE r == [Crown(memory[o], m) EXCEPT !.from[m] = memory[o].champion]
  <2>2. Sound(r)
    BY <2>1, PromoteIsSound
  <2>3. r.champion = m /\ \A n \in Models :
          r.status[n] = IF n = m THEN "CHAMPION" ELSE IF n = memory[o].champion THEN "RETIRED"
                        ELSE memory[o].status[n]
    BY <2>1 DEF Crown, Sound, Registries
  <2>4. Edit(o, r) /\ Session(o)
    BY <1>10 DEF Promote
  <2> HIDE DEF r
  <2> QED BY <1>9, <2>1, <2>2, <2>3, <2>4
<1>11. ASSUME NEW o \in Operators, NEW m \in Models, Rollback(o, m) PROVE Lineage'
  <2>1. memory[o] # NoRegistry /\ Sound(memory[o]) /\ memory[o].status[m] = "RETIRED"
    BY <1>11 DEF IInv, Rollback, Session
  <2> DEFINE r == Crown(memory[o], m)
  <2>2. Sound(r)
    BY <2>1, CrownIsSound
  <2>3. r.champion = m /\ \A n \in Models :
          r.status[n] = IF n = m THEN "CHAMPION" ELSE IF n = memory[o].champion THEN "RETIRED"
                        ELSE memory[o].status[n]
    BY <2>1 DEF Crown, Sound, Registries
  <2>4. Edit(o, r) /\ Session(o)
    BY <1>11 DEF Rollback
  <2> HIDE DEF r
  <2> QED BY <1>9, <2>1, <2>2, <2>3, <2>4
<1>12. ASSUME NEW o \in Operators, NEW m \in Models, Reject(o, m) PROVE Lineage'
  <2>1. memory[o] # NoRegistry /\ Sound(memory[o]) /\ memory[o].status[m] = "CANDIDATE"
    BY <1>12 DEF IInv, Reject, Session
  <2> DEFINE r == [memory[o] EXCEPT !.status[m] = "REJECTED"]
  <2>2. Sound(r)
    BY <2>1, RejectIsSound
  <2>3. r.champion = memory[o].champion /\ \A n \in Models :
          r.status[n] = IF n = m THEN "REJECTED" ELSE memory[o].status[n]
    BY <2>1 DEF Sound, Registries
  <2>4. Edit(o, r) /\ Session(o) /\ r \in Registries
    BY <1>12, <2>2 DEF Reject, Sound
  <2> HIDE DEF r
  <2>5. \A n \in Models : /\ memory[o].status[n] # None => r.status[n] # None
                          /\ memory[o].champion # None /\ memory[o].status[n] = "REJECTED"
                               => r.status[n] = "REJECTED"
    BY <1>n, <2>3 DEF Statuses
  <2> QED BY <2>3, <2>4, <2>5, EditKeepsLineage
<1>13. CASE UNCHANGED vars
  BY <1>13 DEF Lineage, vars
<1> QED BY <1>1, <1>2, <1>3, <1>4, <1>6, <1>7, <1>8, <1>10, <1>11, <1>12, <1>13 DEF Next

\* Nothing locks the file, and yet a process that saves the copy it loaded last
\* loses no model and no rejection (registry.py, save and the lifecycle methods).
THEOREM CopiesExtendTheFile == ASSUME Supervised PROVE Spec => []CurrentCopyExtendsFile
<1>1. Init => IInv /\ Lineage
  BY InitIInv, DistinctAssumption DEF Init, Lineage
<1>2. IInv /\ Lineage /\ [Next]_vars => Lineage'
  BY NextLineage
<1>3. IInv /\ Lineage => CurrentCopyExtendsFile
  BY DEF Lineage, Extends, CurrentCopyExtendsFile
<1> QED BY <1>1, <1>2, <1>3, InvariantHolds, PTL DEF Spec
=============================================================================
