---------------------------- MODULE MCApiService ----------------------------
(* An instance of ApiService: the container's memory store without an      *)
(* explainer or a profile, and a full service on a shared Redis.           *)
EXTENDS ApiService, TLC

MCDeployments ==
  {[store |-> "memory", explainer |-> FALSE, profile |-> FALSE],
   [store |-> "redis", explainer |-> TRUE, profile |-> TRUE]}

CONSTANTS c1, c2
MCUses == c1 :> {"explain", "analyze"} @@ c2 :> {"analyze", "reset", "read"}
=============================================================================
