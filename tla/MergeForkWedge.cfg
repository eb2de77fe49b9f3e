SPECIFICATION Spec
CONSTANTS
  ChainTables = {"a"}
  LazyTables = {"b"}
  ForkTables = {"c"}
  PointerTables = {"d"}
  Leftover = {}
  ChainLen = 2
  MaxScan = 4
  MaxOps = 2
  MaxFaults = 2
  MaxForeign = 1
  ForeignSteps = {"commit"}
INVARIANTS
  SweepFinishes
CHECK_DEADLOCK FALSE
