-------------------------- MODULE MCBehavioralState --------------------------
(* Small instances of BehavioralState for TLC. *)
EXTENDS BehavioralState

CONSTANTS e1, e2

MCHistory == [e \in Entities |-> IF e = e1 THEN <<[t |-> 0, a |-> 3], [t |-> 1, a |-> 0]>>
                                 ELSE <<>>]

\* k8s (redis, cold), docker-compose (memory, cold) and a bare host (memory, warm).
Supported == {[backend |-> "redis", warm |-> FALSE], [backend |-> "memory", warm |-> FALSE],
              [backend |-> "memory", warm |-> TRUE]}
WarmRedis == {[backend |-> "redis", warm |-> TRUE]}
MCMaxTxns == [warm \in BOOLEAN |-> IF warm THEN 4 ELSE 3]
MCBadAmounts == {-1}
MemoryOnly == {[backend |-> "memory", warm |-> FALSE]}
==============================================================================
