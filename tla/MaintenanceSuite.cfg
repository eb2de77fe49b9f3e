SPECIFICATION Spec
CONSTANTS
  t1 = t1
  b1 = b1
  b2 = b2
INVARIANTS
  IndexBuildExact
  HistoryKept
  IntentBodyExact
PROPERTIES
  NothingUndone
CHECK_DEADLOCK FALSE
