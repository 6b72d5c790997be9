SPECIFICATION FairSpec
CONSTANTS
  Ids = {a, bad, junk}
  Invalid = {bad}
  Undecodable = {junk}
  CacheSize = 1
  MaxRetries = 2
  HasDlq = FALSE
  Uncommitted = Uncommitted
  MaxLog = 3
  MaxLives = 2
  MaxAmbiguous = 1
PROPERTY EveryMessageHandled
CHECK_DEADLOCK FALSE
