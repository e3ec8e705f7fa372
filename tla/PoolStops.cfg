\* The pool's io_context stops before the first poll.
CONSTANTS
  a = a
  b = b
  Listeners <- OneListener
  ThreadRequests <- Automatic
  Cores = 2
  SetsHandlers = FALSE
  OtherThreads = TRUE
  MaxUpdate = 1
  Limit = 1
SPECIFICATION Safe
INVARIANT PoolKeepsRunning
