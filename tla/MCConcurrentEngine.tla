-------------------------- MODULE MCConcurrentEngine --------------------------
(* Requests for one entity and resets, for TLC. *)
EXTENDS ConcurrentEngine, TLC

Symmetry == Permutations(Requests) \cup Permutations(Resets)
=============================================================================
