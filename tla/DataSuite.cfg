SPECIFICATION Spec
CONSTANTS
  absent = absent
  nullCell = nullCell
  noneField = noneField
  badField = badField
  floatZero = floatZero
  floatNegZero = floatNegZero
  floatNaN = floatNaN
  plain = plain
  refusedCell = refusedCell
  unbounded = unbounded
  emptyCell = emptyCell
  nodeA = nodeA
  nodeB = nodeB
  edgeE = edgeE
  edgeF = edgeF
INVARIANTS
  WritesExact
  ValuesKept
  FeedExact
PROPERTIES
  NoSrcEmptied
CHECK_DEADLOCK FALSE
