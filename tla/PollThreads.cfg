\* One listener, inline or with a pool of two, that other threads and signals stop.
CONSTANTS
  a = a
  b = b
  Listeners <- OneListener
  ThreadRequests <- Either
  Cores = 2
  SetsHandlers = FALSE
  OtherThreads = TRUE
  MaxUpdate = 1
  Limit = 1
SPECIFICATION Spec
INVARIANTS TypeOK EndsForCause StopIsPrompt StopAllIsPrompt
PROPERTIES StopReturns StopAllReturns ThreadsAreJoined OwnThreadExecutes ImplementsHandover
