SPECIFICATION Spec
CHECK_DEADLOCK FALSE
CONSTANTS
  Schema <- Items
  Roots <- AllRoots
  Unsent <- Statuses
  MaxDepth = 2
  MaxDamage = 2
INVARIANTS
  TypeOK
  OnlyDamagedIsLost
  NoHalfReadValue
  RefusedForCause
  AsSenderAssumes
