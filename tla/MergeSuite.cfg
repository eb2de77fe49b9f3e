SPECIFICATION Spec
CONSTANTS
  idOne = idOne
  idTwo = idTwo
INVARIANTS
  RowsMergeExactly
  HistoryKeepsChanges
  MergeAllOrNothing
PROPERTIES
  ForeignPreserved
CHECK_DEADLOCK FALSE
