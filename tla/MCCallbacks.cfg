\* Callbacks set and unset by callbacks and by other threads.
CONSTANT
  Changing <- SomeSlots
SPECIFICATION Spec
INVARIANTS EveryoneIsTold CallsFollowOrder TypeOK
PROPERTIES UnsetIsHonoured DispatchEnds
\* A slot assigned while it is called may end the process.
CHECK_DEADLOCK FALSE
