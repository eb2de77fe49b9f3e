SPECIFICATION Spec
CONSTANTS
  reqOne = reqOne
  reqTwo = reqTwo
  reqThree = reqThree
  handleOne = handleOne
  handleTwo = handleTwo
  exportOne = exportOne
  exportTwo = exportTwo
  graphOne = graphOne
  schemaA = schemaA
  schemaB = schemaB
  cmdOne = cmdOne
  cmdTwo = cmdTwo
  none = none
  callOne = callOne
  callTwo = callTwo
  callThree = callThree
  alice = alice
  entryOne = entryOne
  entryTwo = entryTwo
INVARIANTS
  RequestsIsolated
  BlobAnswersExact
  LedgerSound

  
CHECK_DEADLOCK FALSE
