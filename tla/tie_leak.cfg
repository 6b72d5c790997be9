SPECIFICATION Spec
CONSTANTS
  j1 = j1
  j2 = j2
  Jobs <- MCJobs
  Plans <- TiePlans
  Tables <- MCTables
  Ratios <- MCRatios
  NewTables <- MCNewTables
  MaxRevisions = 0
  SliceSize = 1
  SampleRows = 1
  Missing = Missing
  Torn = Torn
INVARIANT FeaturesFromEarlierPartitions
CHECK_DEADLOCK FALSE
