SPECIFICATION Spec
CONSTANTS
  N = 4
  Scores = {1, 2, 3}
  Units = 8
  Step = 2
  Capacities = {1, 4, 7, 8}
  Targets = {50, 60}
  Settings <- MCSettings
  Roundings <- MCRoundings
  Raised = Raised
  MaxBuilt = 2
INVARIANTS ThresholdsCrossOnlyByRounding CapacityIsCovered PoliciesAreNested TargetHoldsWithoutTies MatchedBudgetRecall
CHECK_DEADLOCK FALSE
