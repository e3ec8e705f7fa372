SPECIFICATION Spec
CONSTANTS
  u = u
  s = s
  NoConnection = NoConnection
  Updates <- OneUpdate
  Strays <- OneStray
  Threads <- OneOrTwo
  MaxAttempts = 2
  MaxObjects = 3
INVARIANTS
  TypeOK
  RepeatedOnlyIfUnheard
  AnsweredIsExecuted
  TwoAccepts
  ObjectsAreReused
PROPERTIES ImplementsPush RequestsAreAnswered
