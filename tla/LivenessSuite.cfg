SPECIFICATION FairSpec
CONSTANTS
  reqOne = reqOne
  reqTwo = reqTwo
  handleOne = handleOne
  exportOne = exportOne
  exportTwo = exportTwo
  tableOne = tableOne
  tableTwo = tableTwo
  tableNew = tableNew
  feature = feature
  main = main
  noTask = noTask
  person = person
  pubOne = pubOne
  pubTwo = pubTwo
  keyOne = keyOne
  genesis = genesis
  noCommit = noCommit
  alice = alice
  entryOne = entryOne
  entryTwo = entryTwo
PROPERTIES
  EverythingEnds
CHECK_DEADLOCK FALSE
