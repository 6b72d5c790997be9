SPECIFICATION Spec
CONSTANTS
  Forms = {f1}
  Calls = {c1, c2}
  c1 = c1
  c2 = c2
  Uses <- MCUses
  Shown = {3}
  Deployments <- MCDeployments
  Threads = 2
  MaxCrashes = 1
  None = None
INVARIANTS TypeOK AttemptsAccounted  AnswerTellsState
  CountedTwiceOnlyIfInDoubt DriftSummaryConsistent
PROPERTY SubmissionResolved
CHECK_DEADLOCK FALSE
