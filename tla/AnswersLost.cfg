SPECIFICATION Spec
CHECK_DEADLOCK FALSE
CONSTANTS
  Schema <- Items
  Roots <- AllRoots
  Unsent <- Statuses
  MaxDepth = 1
  MaxDamage = 0
INVARIANT AnswersAreRead
