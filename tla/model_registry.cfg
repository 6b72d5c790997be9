SPECIFICATION Spec
CONSTANTS
  Models = {m1, m2, m3}
  None = None
  Operators = {o1, o2}
  NoRegistry = NoRegistry
  Missing = Missing
  Truncated = Truncated
  Direct <- Imports
  MaxSaves = 2
SYMMETRY Symmetry
INVARIANTS TypeOK OneChampion RollbackIsPossible CurrentCopyExtendsFile
CHECK_DEADLOCK FALSE
