SPECIFICATION Spec
CONSTANTS
  Hour = 1
  Day = 2
  NaN = NaN
  Absent = Absent
  NoResult = NoResult
  e1 = e1
  e2 = e2
  Entities = {e1}
  EventTimes = {0,2,3}
  AmountSet = {0, 3}
  BadAmounts <- MCBadAmounts
  InOrder = FALSE
  SnapshotBy = 2
  MaxTxns <- MCMaxTxns
  History <- MCHistory
  Deployments <- MemoryOnly
PROPERTY FailedRequestIsInvisible
CHECK_DEADLOCK FALSE
