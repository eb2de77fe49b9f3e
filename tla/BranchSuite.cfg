SPECIFICATION Spec
CONSTANTS
  feature = feature
  nested = nested
  reqOne = reqOne
  reqTwo = reqTwo
  main = main
  noTask = noTask
  person = person
SYMMETRY Requests
INVARIANTS
  BranchesExact
  HandleCoherent
PROPERTIES
  AnswersTrue
CHECK_DEADLOCK FALSE
