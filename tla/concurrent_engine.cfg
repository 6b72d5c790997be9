SPECIFICATION Spec
CONSTANTS
  Requests = {r1, r2, r3, r4}
  Backends = {"memory", "redis"}
  Absent = Absent
  Resets = {s1, s2}
SYMMETRY Symmetry
INVARIANTS TypeOK NotTorn IsolatedUpdateIsKept ResetIsFinal RedisRepliesAreSnapshots
PROPERTY OnlyOverlapsDropUpdates
CHECK_DEADLOCK FALSE
