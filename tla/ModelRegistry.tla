---------------------------- MODULE ModelRegistry ----------------------------
(***************************************************************************)
(* src/governance/registry.py: the JSON-file model registry, edited by     *)
(* operator scripts (each loads the file, changes its own copy, saves it)  *)
(* and read at startup by the API (api/dependencies.py), which is a        *)
(* process that loads it and changes nothing.                              *)
(*                                                                         *)
(* save() is two steps: open(path, "w") truncates the file, the dump       *)
(* fills it.  A model's metadata is abstracted to its status and to the    *)
(* model it was promoted from.                                             *)
(***************************************************************************)
EXTENDS Integers, FiniteSets

CONSTANTS
  Models,      \* model_ids
  None,        \* no model
  Operators,   \* processes: governance scripts, and the API
  NoRegistry,  \* a process that holds no registry
  Missing,     \* registry.json does not exist
  Truncated,   \* registry.json is not a complete JSON document
  Direct,      \* [status, overwrite] of the direct register_model calls explored
  MaxSaves     \* bound: saves begun

Statuses == {"CANDIDATE", "CHAMPION", "REJECTED", "RETIRED"}

ASSUME RegistryAssumption ==
  /\ None \notin Models \cup Statuses
  /\ Direct \subseteq [status : Statuses, overwrite : BOOLEAN]
  /\ MaxSaves \in Nat

Registries == [champion : Models \cup {None},
               status   : [Models -> Statuses \cup {None}],
               from     : [Models -> Models \cup {None}]]

ASSUME DistinctAssumption ==
  /\ NoRegistry \notin Registries /\ Missing \notin Registries /\ Truncated \notin Registries

VARIABLES
  disk,      \* registry.json: a registry, Missing or Truncated
  memory,    \* [Operators -> the registry each process holds, or NoRegistry]
  saving,    \* the operators between open() and the end of the dump
  saves,     \* saves begun so far
  current    \* history: the processes whose copy descends from the latest save

vars == <<disk, memory, saving, saves, current>>

Fresh == [champion |-> None,
          status   |-> [m \in Models |-> None],
          from     |-> [m \in Models |-> None]]

Init == /\ disk = Missing
        /\ memory = [o \in Operators |-> NoRegistry]
        /\ saving = {}
        /\ saves = 0
        /\ current = {}

----------------------------------------------------------------------------
(* Processes *)

\* Mutants of Load: the missing file is not noticed; an existing one is not read.
LoadMissing(o) ==
  /\ memory[o] = NoRegistry /\ disk # Truncated
  /\ memory' = [memory EXCEPT ![o] = disk]
  /\ current' = current \cup {o}
  /\ UNCHANGED <<disk, saving, saves>>

LoadFresh(o) ==
  /\ memory[o] = NoRegistry /\ disk # Truncated
  /\ memory' = [memory EXCEPT ![o] = Fresh]
  /\ current' = current \cup {o}
  /\ UNCHANGED <<disk, saving, saves>>

\* ModelRegistry(path): json.load raises on an incomplete file.
Load(o) ==
  /\ memory[o] = NoRegistry /\ disk # Truncated
  /\ memory' = [memory EXCEPT ![o] = IF disk = Missing THEN Fresh ELSE disk]
  /\ current' = current \cup {o}
  /\ UNCHANGED <<disk, saving, saves>>

\* save(), first half: opening for writing truncates.  A copy that is not of
\* the file's latest version overwrites someone else's save.
OpenToSave(o) ==
  /\ memory[o] # NoRegistry /\ o \notin saving /\ saves < MaxSaves
  /\ disk' = Truncated
  /\ saving' = saving \cup {o}
  /\ saves' = saves + 1
  /\ current' = current \cap {o}
  /\ UNCHANGED memory

\* ... second half: the dump.  Two dumps into one file may leave any mixture.
Dump(o) ==
  /\ o \in saving
  /\ \/ disk' = memory[o]
     \/ saving # {o} /\ disk' = Truncated
  /\ saving' = saving \ {o}
  /\ current' = current \cap {o}
  /\ UNCHANGED <<memory, saves>>

\* The script ends, or dies, perhaps in the middle of a save.
Exit(o) ==
  /\ memory[o] # NoRegistry
  /\ memory' = [memory EXCEPT ![o] = NoRegistry]
  /\ saving' = saving \ {o}
  /\ current' = current \ {o}
  /\ UNCHANGED <<disk, saves>>

----------------------------------------------------------------------------
(* Registration *)

Session(o) == memory[o] # NoRegistry /\ o \notin saving

Edit(o, registry) == /\ memory' = [memory EXCEPT ![o] = registry]
                     /\ UNCHANGED <<disk, saving, saves, current>>

\* The new metadata replaces the old, its promoted_from included.
RegisterModel(o, m, status, overwrite) ==
  /\ Session(o)
  /\ memory[o].status[m] = None \/ overwrite
  /\ Edit(o, [champion |-> IF status = "CHAMPION" THEN m ELSE memory[o].champion,
              status   |-> [memory[o].status EXCEPT ![m] = status],
              from     |-> [memory[o].from EXCEPT ![m] = None]])

\* Mutant of RegisterChampion: an existing champion is not checked for.
RegisterAnyChampion(o, m) == RegisterModel(o, m, "CHAMPION", TRUE)

RegisterChampion(o, m) ==
  /\ Session(o)
  /\ memory[o].champion \in {None, m}
  /\ RegisterModel(o, m, "CHAMPION", TRUE)

RegisterCandidate(o, m) == RegisterModel(o, m, "CANDIDATE", FALSE)

----------------------------------------------------------------------------
(* Explicit lifecycle actions *)

\* The current champion, if any, is retired and m takes its place.
Crown(registry, m) ==
  [registry EXCEPT !.champion = m,
                   !.status = [n \in Models |-> CASE n = m -> "CHAMPION"
                                                  [] n = registry.champion -> "RETIRED"
                                                  [] OTHER -> registry.status[n]]]

Promote(o, m) ==
  /\ Session(o)
  /\ memory[o].status[m] = "CANDIDATE"
  /\ Edit(o, [Crown(memory[o], m) EXCEPT !.from[m] = memory[o].champion])

\* Mutant of Rollback: the current champion becomes a candidate again.
RollbackToCandidate(o, m) ==
  /\ Session(o)
  /\ memory[o].status[m] = "RETIRED"
  /\ Edit(o, [Crown(memory[o], m) EXCEPT
               !.status = [n \in Models |-> IF n = memory[o].champion THEN "CANDIDATE"
                                            ELSE Crown(memory[o], m).status[n]]])

Rollback(o, m) ==
  /\ Session(o)
  /\ memory[o].status[m] = "RETIRED"
  /\ Edit(o, Crown(memory[o], m))

Reject(o, m) ==
  /\ Session(o)
  /\ memory[o].status[m] = "CANDIDATE"
  /\ Edit(o, [memory[o] EXCEPT !.status[m] = "REJECTED"])

Next ==
  \/ \E o \in Operators :
       \/ Load(o) \/ OpenToSave(o) \/ Dump(o) \/ Exit(o)
       \/ \E m \in Models : \/ RegisterChampion(o, m) \/ RegisterCandidate(o, m)
                            \/ Promote(o, m) \/ Rollback(o, m) \/ Reject(o, m)
                            \/ \E d \in Direct : RegisterModel(o, m, d.status, d.overwrite)

Spec == Init /\ [][Next]_vars

----------------------------------------------------------------------------
(* Properties *)

TypeOK ==
  /\ disk \in Registries \cup {Missing, Truncated}
  /\ memory \in [Operators -> Registries \cup {NoRegistry}]
  /\ saving \subseteq {o \in Operators : memory[o] # NoRegistry}
  /\ saves \in 0..MaxSaves
  /\ current \subseteq {o \in Operators : memory[o] # NoRegistry}

Consistent(registry) ==
  registry \in Registries =>
    \A m \in Models : registry.status[m] = "CHAMPION" <=> registry.champion = m

\* Whatever operators, crashes and half-written files do, every copy of the
\* registry - the file and each process's - has exactly the model that
\* champion_model_id names as its CHAMPION (registry.py:129-203).
OneChampion ==
  Consistent(disk) /\ \A o \in Operators : Consistent(memory[o])

RollbackKept(registry) ==
  registry \in Registries /\ registry.champion # None =>
    LET previous == registry.from[registry.champion]
    IN  previous # None => registry.status[previous] = "RETIRED"

\* After any sequence of promotions and rollbacks, the model a champion was
\* promoted over can still be rolled back to (registry.py:170-176: "promote()
\* never deletes retired models").
RollbackIsPossible ==
  RollbackKept(disk) /\ \A o \in Operators : RollbackKept(memory[o])

\* A save by a process that holds the file's latest version loses nothing: its
\* copy knows every model of the file and keeps a champion and, as long as there
\* is one, every rejection (without one, register_champion overwrites any model).
\* (A process with an older version does lose updates: nothing locks the file.)
CurrentCopyExtendsFile ==
  \A o \in current :
    disk \in Registries =>
      /\ \A m \in Models :
           /\ disk.status[m] # None => memory[o].status[m] # None
           /\ disk.champion # None /\ disk.status[m] = "REJECTED" =>
                memory[o].status[m] = "REJECTED"
      /\ disk.champion # None => memory[o].champion # None
=============================================================================
