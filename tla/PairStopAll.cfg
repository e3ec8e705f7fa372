\* stop_all() with two listeners.
CONSTANTS
  a = a
  b = b
  Listeners <- TwoListeners
  ThreadRequests <- Inline
  Cores = 2
  SetsHandlers = FALSE
  OtherThreads = TRUE
  MaxUpdate = 0
  Limit = 1
SPECIFICATION Safe
INVARIANT StopAllIsPrompt
