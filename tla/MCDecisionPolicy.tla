--------------------------- MODULE MCDecisionPolicy ---------------------------
(* Every labelled validation set of N rows, for TLC, with every rounding of *)
(* the fractions of it that are whole numbers of rows.                      *)
EXTENDS DecisionPolicy

CONSTANTS Capacities, Targets

\* A capacity below the scan's step is tried with one target only.
MCSettings == {p \in [capacity : Capacities, target : Targets] :
                 p.capacity >= Step \/ p.target = 60}
MCRoundings == [literal : SUBSET ((WholeRows \cap Capacities) \ {Units}),
                grid : SUBSET {f \in WholeRows : f % Step = 0}]
==============================================================================
