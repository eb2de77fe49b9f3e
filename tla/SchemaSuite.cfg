SPECIFICATION Spec
CONSTANTS
  i1 = i1
  i2 = i2
  i3 = i3
  none = none
  o1 = o1
  t1 = t1
  t2 = t2
  t3 = t3
  t4 = t4
INVARIANTS
  IdentitiesStable
  ApplySettles
  InitExclusive
PROPERTIES
  MigrationKeeps
CHECK_DEADLOCK FALSE
