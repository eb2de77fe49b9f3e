SPECIFICATION Spec
CONSTANTS
  Publishers = {pubOne, pubTwo}
  Identities = {tableOne, tableTwo}
  Keys = {keyOne, keyTwo}
  Owners = {main, feature}
  Seed = tableOne
  SeedKey = keyOne
  SeedOwner = main
  Genesis = genesis
  None = none
  RetryBudget = 1
  MaxRecreate = 1
INVARIANTS
  LinearLineage
  PublishAnswersTrue
PROPERTIES
  LandsAsRead
CHECK_DEADLOCK FALSE
