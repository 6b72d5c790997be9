---------------------------- MODULE MCModelRegistry ----------------------------
(* Small instances of ModelRegistry for TLC. *)
EXTENDS ModelRegistry, TLC

Symmetry == Permutations(Models) \cup Permutations(Operators)

\* register_model with metadata of a model from elsewhere.
Imports == [status : {"RETIRED"}, overwrite : {FALSE}]
=============================================================================
