SPECIFICATION Spec
CONSTANTS
  j1 = j1
  j2 = j2
  Jobs <- MCJobs
  Plans <- MCPlans
  Tables <- MCTables
  Ratios <- MCRatios
  NewTables <- MCNewTables
  MaxRevisions = 1
  SliceSize = 1
  SampleRows = 1
  Missing = Missing
  Torn = Torn
INVARIANTS
  TypeOK
  SplitSound
  DecisionsIgnoreTest
  SimulationMatchesOffline
  OneModelUnlessRaced
  PolicyNotOlderThanItsMetrics
SYMMETRY Symmetry
CHECK_DEADLOCK FALSE
