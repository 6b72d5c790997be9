----------------------- MODULE MCExperimentPipeline -----------------------
(***************************************************************************)
(* Instances of ExperimentPipeline.  The transaction files have five or six  *)
(* rows and differ in their order and in what is tied at the cuts; of the    *)
(* five, the second cut loses one (0.57 + 0.23 < 0.8).                       *)
(***************************************************************************)
EXTENDS ExperimentPipeline, TLC

CONSTANTS j1, j2

MCJobs == {j1, j2}

\* Working days: the phases in order, a second run of one while it is still
\* under way, services started beside each other, registration in between.
MCPlans ==
  {<<"phase1", "phase2a", "phase2b">>, <<"phase2b", "phase3", "phase4">>,
   <<"phase4", "phase5", "phase6">>, <<"phase5", "phase5", "phase11">>,
   <<"phase6", "cold", "phase11">>, <<"phase10", "warm", "cold">>,
   <<"phase5", "phase11", "mlflow">>, <<"simulate", "phase11", "mlflow">>}

\* In order, no ties.
Plain ==
  [n |-> 6, time |-> <<1, 2, 3, 4, 5, 6>>, id |-> <<1, 2, 3, 4, 5, 6>>,
   card |-> <<1, 2, 1, 1, 2, 1>>, sound |-> TRUE]

\* One instant spans both cuts, with identifiers against the file order.
Tied ==
  [n |-> 6, time |-> <<1, 2, 2, 2, 2, 3>>, id |-> <<1, 9, 5, 4, 3, 7>>,
   card |-> <<1, 2, 1, 1, 1, 2>>, sound |-> TRUE]

\* The file is not in time order, and starts with a row of the last partition.
Shuffled ==
  [n |-> 5, time |-> <<6, 1, 4, 2, 4>>, id |-> <<4, 6, 2, 1, 3>>,
   card |-> <<1, 1, 2, 1, 2>>, sound |-> TRUE]

\* Refused by the loader, or too short for three partitions.
Repeated == [Plain EXCEPT !.id[6] = 1]
Short == [n |-> 2, time |-> <<1, 2>>, id |-> <<1, 2>>, card |-> <<1, 1>>, sound |-> TRUE]

MCTables ==
  [plain |-> Plain, tied |-> Tied, shuffled |-> Shuffled, repeated |-> Repeated,
   short |-> Short]

MCRatios == [most |-> [train |-> 57, val |-> 23, test |-> 20, short |-> {"val"}],
             third |-> [train |-> 34, val |-> 33, test |-> 33, short |-> {}]]

MCNewTables == {"plain", "short"}

\* The behavioural features are computed once.
TiePlans == {<<"phase4">>}

Symmetry == Permutations(MCJobs)

=============================================================================
