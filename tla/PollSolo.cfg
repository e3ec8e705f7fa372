\* One inline listener in a process with no other thread.
CONSTANTS
  a = a
  b = b
  Listeners <- OneListener
  ThreadRequests <- Inline
  Cores = 2
  SetsHandlers = TRUE
  OtherThreads = FALSE
  MaxUpdate = 3
  Limit = 2
SPECIFICATION Spec
INVARIANT AckedWasExecuted
PROPERTIES CtrlCIsGraceful ImplementsDelivery ImplementsHandover Delivered
