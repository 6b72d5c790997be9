SPECIFICATION Spec
CONSTANTS
  Hour = 1
  Day = 2
  NaN = NaN
  Absent = Absent
  NoResult = NoResult
  e1 = e1
  e2 = e2
  Entities = {e1, e2}
  EventTimes = {0,2,3}
  AmountSet = {0, 3}
  BadAmounts <- MCBadAmounts
  InOrder = TRUE
  SnapshotBy = 2
  MaxTxns <- MCMaxTxns
  History <- MCHistory
  Deployments <- Supported
INVARIANTS TypeOK StoreSummarisesHistory BlocksMergeLikeUpdates
PROPERTY OnlineMatchesOffline
CHECK_DEADLOCK FALSE
