SPECIFICATION Spec
CHECK_DEADLOCK FALSE
CONSTANTS
  c = c
  d = d
  Calls <- TwoCalls
  Requests <- SomeRequests
  Limit = 2
INVARIANTS
  TypeOK
  PiecesInOrder
  ReturnedIsDone
PROPERTIES ImplementsPosting SendReturns
