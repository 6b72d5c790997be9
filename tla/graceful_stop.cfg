SPECIFICATION Spec
CONSTANTS
  Ids = {a, b, bad}
  Invalid = {bad}
  Undecodable = {}
  CacheSize = 1
  MaxRetries = 1
  HasDlq = TRUE
  Uncommitted = Uncommitted
  MaxLog = 3
  MaxLives = 2
  MaxAmbiguous = 1
INVARIANT NothingAbandoned
CHECK_DEADLOCK FALSE
