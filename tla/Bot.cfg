\* One bot in a process without other threads.
SPECIFICATION BotSpec
CONSTANTS
  a = a
  Listeners <- OneListener
  ThreadRequests <- Inline
  Cores = 2
  SetsHandlers = FALSE
  OtherThreads = FALSE
  MaxUpdate = 2
  Limit = 2
  message_length_limit = 2
  Answers <- TwoPieces
  MaxCalls = 2
INVARIANT AckedWasAnswered
PROPERTIES AnswersInOrder ImplementsAnswering CallbacksComeBack
