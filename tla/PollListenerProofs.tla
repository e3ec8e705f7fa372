------------------------- MODULE PollListenerProofs -------------------------
(***************************************************************************)
(* Theorems of PollListener, for any listeners, any number of updates and  *)
(* any size of reply.                                                      *)
(***************************************************************************)
EXTENDS PollListener, TLAPS

-----------------------------------------------------------------------------
(* What the calls on an io_context do to its type and to its count of      *)
(* outstanding work.                                                       *)

LEMMA NewContextType ==
  /\ NewContext \in Contexts(Nat)
  /\ NewContext.work = 0 /\ Len(NewContext.queue) = 0
BY DEF NewContext, Contexts

LEMMA WorkStartedType ==
  ASSUME NEW c \in Contexts(Nat)
  PROVE  /\ WorkStarted(c) \in Contexts(Nat)
         /\ WorkStarted(c).work = c.work + 1
         /\ WorkStarted(c).queue = c.queue
BY DEF Contexts, WorkStarted

LEMMA WorkFinishedType ==
  ASSUME NEW c \in Contexts(Nat), c.work > 0
  PROVE  /\ WorkFinished(c) \in Contexts(Nat)
         /\ WorkFinished(c).work = c.work - 1
         /\ WorkFinished(c).queue = c.queue
<1> DEFINE stopped == c.stopped \/ c.work = 1
<1>1. WorkFinished(c) = [c EXCEPT !.work = @ - 1, !.stopped = stopped]
  BY DEF WorkFinished
<1>2. c.work - 1 \in Nat /\ stopped \in BOOLEAN
  BY DEF Contexts
<1> HIDE DEF stopped
<1> QED
  BY <1>1, <1>2 DEF Contexts

LEMMA ContextStoppedType ==
  ASSUME NEW c \in Contexts(Nat)
  PROVE  /\ ContextStopped(c) \in Contexts(Nat)
         /\ ContextStopped(c).work = c.work
         /\ ContextStopped(c).queue = c.queue
BY DEF Contexts, ContextStopped

LEMMA PostedType ==
  ASSUME NEW c \in Contexts(Nat), NEW h \in Nat
  PROVE  /\ Posted(c, h) \in Contexts(Nat)
         /\ Posted(c, h).work = c.work + 1
         /\ Len(Posted(c, h).queue) = Len(c.queue) + 1
<1> DEFINE q == Append(c.queue, h)
<1>1. Posted(c, h) = [c EXCEPT !.work = @ + 1, !.queue = q]
  BY DEF Posted
<1>2. q \in Seq(Nat) /\ Len(q) = Len(c.queue) + 1 /\ c.work + 1 \in Nat
  BY DEF Contexts
<1> HIDE DEF q
<1> QED
  BY <1>1, <1>2 DEF Contexts

LEMMA HandlerRanType ==
  ASSUME NEW c \in Contexts(Nat), c.queue # <<>>, c.work > 0
  PROVE  /\ Head(c.queue) \in Nat
         /\ HandlerRan(c) \in Contexts(Nat)
         /\ HandlerRan(c).work = c.work - 1
         /\ Len(HandlerRan(c).queue) = Len(c.queue) - 1
<1> DEFINE d == [c EXCEPT !.queue = Tail(@)]
<1>1. /\ Tail(c.queue) \in Seq(Nat) /\ Len(Tail(c.queue)) = Len(c.queue) - 1
      /\ Head(c.queue) \in Nat
  BY DEF Contexts
<1>2. d \in Contexts(Nat) /\ d.work = c.work /\ d.queue = Tail(c.queue)
  BY <1>1 DEF Contexts
<1>3. HandlerRan(c) = WorkFinished(d)
  BY DEF HandlerRan
<1> HIDE DEF d
<1> QED
  BY <1>1, <1>2, <1>3, WorkFinishedType

-----------------------------------------------------------------------------
USE DEF server, reply, pool, flags, handlers, signals, outcome, seen, asked, marks,
        history, process, vars

(* Types.  TypeOK is not inductive by itself: the work count of a context  *)
(* stays a natural number because every decrement has its increment.       *)

\* The outstanding work of a listener's io_context is the handlers in its queue and,
\* while the threads are being made, the work guard.
Accounted(l) ==
  context[l].work = Len(context[l].queue) + (IF pc[l] = "spawn" THEN 1 ELSE 0)

WorkIsAccounted == \A l \in Listeners : Accounted(l)

TypeInv == TypeOK /\ WorkIsAccounted

\* A thread count chosen by the program or by the number of cores is positive.
LEMMA ResolvePositive ==
  ASSUME NEW n \in ThreadRequests PROVE Resolve(n) \in Nat \ {0}
BY PollListenerAssumption DEF Resolve

LEMMA TypeInit == Init => TypeInv
<1> SUFFICES ASSUME Init PROVE TypeInv
  OBVIOUS
<1> USE DEF Init, Each
<1>1. ServerTypeOK
  BY TelegramAssumption DEF ServerInit, ServerTypeOK
<1>2. RunTypeOK
  BY ResolvePositive DEF RunTypeOK, Locations, Tails
<1>3. PoolTypeOK
  BY NewContextType DEF PoolTypeOK
<1>4. ControlTypeOK
  BY DEF ControlTypeOK
<1>5. HistoryTypeOK
  BY DEF HistoryTypeOK
<1>6. WorkIsAccounted
  <2> SUFFICES ASSUME NEW l \in Listeners PROVE Accounted(l)
    BY DEF WorkIsAccounted
  <2>1. context[l] = NewContext /\ pc[l] = "idle"
    OBVIOUS
  <2> QED
    BY <2>1, NewContextType DEF Accounted
<1> QED
  BY <1>1, <1>2, <1>3, <1>4, <1>5, <1>6 DEF TypeInv, TypeOK

\* The death of the process restores the initial types.
LEMMA TypeDie ==
  ASSUME TypeInv, NEW cause \in {"crash", "sigint", "terminate"}, Die(cause)
  PROVE  TypeInv'
<1> USE DEF TypeInv, TypeOK, Die, Each, Acknowledged
<1>1. ServerTypeOK'
  BY DEF ServerTypeOK
<1>2. RunTypeOK'
  BY ResolvePositive DEF RunTypeOK, Locations, Tails
<1>3. PoolTypeOK'
  BY NewContextType DEF PoolTypeOK
<1>4. ControlTypeOK'
  BY DEF ControlTypeOK
<1>5. HistoryTypeOK'
  BY DEF HistoryTypeOK
<1>6. WorkIsAccounted'
  BY NewContextType DEF WorkIsAccounted, Accounted
<1> QED
  BY <1>1, <1>2, <1>3, <1>4, <1>5, <1>6 DEF TypeInv, TypeOK

\* The unwinding of run(), too.
LEMMA TypeUnwind ==
  ASSUME TypeInv, NEW l \in Listeners, NEW unjoined, Unwind(l, unjoined)
  PROVE  TypeInv'
<1>1. CASE unjoined # <<>>
  BY <1>1, TypeDie DEF Unwind
<1>2. CASE unjoined = <<>>
  <2>0. LeaveRun(l)
    BY <1>2 DEF Unwind
  <2> USE <2>0 DEF TypeInv, TypeOK, LeaveRun, DropReply, Acknowledged, Goto
  <2>1. ServerTypeOK'
    BY DEF ServerTypeOK
  <2>2. RunTypeOK'
    BY DEF RunTypeOK, Locations, Tails
  <2>3. PoolTypeOK'
    BY NewContextType DEF PoolTypeOK
  <2>4. ControlTypeOK'
    BY DEF ControlTypeOK
  <2>5. HistoryTypeOK'
    BY DEF HistoryTypeOK
  <2>6. WorkIsAccounted'
    <3> SUFFICES ASSUME NEW m \in Listeners
                 PROVE  Accounted(m)'
      BY DEF WorkIsAccounted
    <3>1. CASE m = l
      <4>1. context'[m] = NewContext /\ pc'[m] = "idle"
        BY <3>1 DEF PoolTypeOK, RunTypeOK
      <4> HIDE DEF LeaveRun, TypeInv
      <4> QED
        BY <4>1, NewContextType DEF Accounted
    <3>2. CASE m # l
      <4>1. context'[m] = context[m] /\ pc'[m] = pc[m] /\ Accounted(m)
        BY <3>2 DEF PoolTypeOK, RunTypeOK, WorkIsAccounted
      <4> QED
        BY <4>1 DEF Accounted
    <3> QED
      BY <3>1, <3>2
  <2> QED
    BY <2>1, <2>2, <2>3, <2>4, <2>5, <2>6
<1> QED
  BY <1>1, <1>2

\* A step that touches one listener's context leaves the others' accounts alone.
LEMMA AccountOthers ==
  ASSUME TypeInv, NEW l \in Listeners, Accounted(l)',
         \A m \in Listeners \ {l} : context'[m] = context[m] /\ pc'[m] = pc[m]
  PROVE  WorkIsAccounted'
<1> SUFFICES ASSUME NEW m \in Listeners \ {l} PROVE Accounted(m)'
  BY DEF WorkIsAccounted
<1> QED
  BY DEF TypeInv, WorkIsAccounted, Accounted

\* So does a step that touches no context and neither enters nor leaves the block that
\* makes the threads.
LEMMA AccountSame ==
  ASSUME TypeInv, context' = context,
         \A m \in Listeners : pc'[m] = "spawn" <=> pc[m] = "spawn"
  PROVE  WorkIsAccounted'
BY DEF TypeInv, WorkIsAccounted, Accounted

\* Every step of a listener, of its bot and of its threads keeps the types.
LEMMA TypeListener ==
  ASSUME TypeInv, NEW l \in Listeners,
         BotReceives(l) \/ CallRun(l) \/ SetNumThreads(l) \/ Stop(l)
           \/ Runs(l) \/ ReplyUpdates(l) \/ Worker(l) \/ Fails(l)
  PROVE  TypeInv'
<1> USE DEF TypeInv, TypeOK, At, Goto
<1>1. CASE BotReceives(l)
  <2> USE <1>1 DEF BotReceives, Publish
  <2>1. ServerTypeOK'
    BY TelegramAssumption DEF ServerTypeOK
  <2>2. RunTypeOK'
    BY DEF RunTypeOK, Locations
  <2>3. PoolTypeOK'
    BY DEF PoolTypeOK
  <2>4. ControlTypeOK'
    BY DEF ControlTypeOK
  <2>5. HistoryTypeOK'
    BY DEF HistoryTypeOK
  <2>6. WorkIsAccounted'
    BY DEF WorkIsAccounted, Accounted, RunTypeOK, PoolTypeOK
  <2> QED
    BY <2>1, <2>2, <2>3, <2>4, <2>5, <2>6
<1>2. CASE CallRun(l)
  BY <1>2
     DEF CallRun, ServerTypeOK, RunTypeOK, Locations, PoolTypeOK, ControlTypeOK, HistoryTypeOK,
         WorkIsAccounted, Accounted
<1>3. CASE SetNumThreads(l)
  <2> USE <1>3 DEF SetNumThreads
  <2>1. ServerTypeOK'
    BY DEF ServerTypeOK
  <2>2. RunTypeOK'
    BY ResolvePositive DEF RunTypeOK, Locations
  <2>3. PoolTypeOK'
    BY DEF PoolTypeOK
  <2>4. ControlTypeOK'
    BY DEF ControlTypeOK
  <2>5. HistoryTypeOK'
    BY DEF HistoryTypeOK
  <2>6. WorkIsAccounted'
    BY DEF WorkIsAccounted, Accounted, RunTypeOK, PoolTypeOK
  <2> QED
    BY <2>1, <2>2, <2>3, <2>4, <2>5, <2>6
<1>4. CASE Stop(l)
  <2> USE <1>4 DEF Stop
  <2>1. ServerTypeOK'
    BY DEF ServerTypeOK
  <2>2. RunTypeOK'
    BY DEF RunTypeOK, Locations
  <2>3. PoolTypeOK'
    BY DEF PoolTypeOK
  <2>4. ControlTypeOK'
    BY DEF ControlTypeOK
  <2>5. HistoryTypeOK'
    BY DEF HistoryTypeOK
  <2>6. WorkIsAccounted'
    <3>1. context' = context /\ \A m \in Listeners : pc'[m] = "spawn" <=> pc[m] = "spawn"
      BY DEF RunTypeOK
    <3> QED
      BY <3>1, AccountSame
  <2> QED
    BY <2>1, <2>2, <2>3, <2>4, <2>5, <2>6
<1>5. CASE ArmGlobal(l)
  BY <1>5
     DEF ArmGlobal, ServerTypeOK, RunTypeOK, Locations, PoolTypeOK, ControlTypeOK, HistoryTypeOK,
         WorkIsAccounted, Accounted
<1>6. CASE InstallHandler(l)
  BY <1>6
     DEF InstallHandler, ServerTypeOK, RunTypeOK, Locations, PoolTypeOK, ControlTypeOK, HistoryTypeOK,
         WorkIsAccounted, Accounted
<1>7. CASE FlagHandler(l)
  <2> USE <1>7 DEF FlagHandler
  <2>7. /\ context'[l] \in Contexts(Nat)
        /\ context'[l].work = IF pc'[l] = "spawn" THEN 1 ELSE 0
        /\ Len(context'[l].queue) = 0
    BY NewContextType, WorkStartedType DEF RunTypeOK, PoolTypeOK
  <2>1. ServerTypeOK'
    BY DEF ServerTypeOK
  <2>2. RunTypeOK'
    BY DEF RunTypeOK, Locations
  <2>3. PoolTypeOK'
    BY <2>7 DEF PoolTypeOK
  <2>4. ControlTypeOK'
    BY DEF ControlTypeOK
  <2>5. HistoryTypeOK'
    BY DEF HistoryTypeOK
  <2>6. WorkIsAccounted'
    <3>1. Accounted(l)'
      <4> HIDE DEF FlagHandler
      <4> QED
        BY <2>7 DEF Accounted
    <3>2. \A m \in Listeners \ {l} : context'[m] = context[m] /\ pc'[m] = pc[m]
      BY DEF RunTypeOK, PoolTypeOK
    <3> QED
      BY <3>1, <3>2, AccountOthers
  <2> QED
    BY <2>1, <2>2, <2>3, <2>4, <2>5, <2>6
<1>8. CASE SpawnThread(l)
  <2> USE <1>8 DEF SpawnThread
  <2>1. ServerTypeOK'
    BY DEF ServerTypeOK
  <2>2. RunTypeOK'
    BY DEF RunTypeOK, Locations
  <2>3. PoolTypeOK'
    BY DEF PoolTypeOK
  <2>4. ControlTypeOK'
    BY DEF ControlTypeOK
  <2>5. HistoryTypeOK'
    BY DEF HistoryTypeOK
  <2>6. WorkIsAccounted'
    BY DEF WorkIsAccounted, Accounted, RunTypeOK, PoolTypeOK
  <2> QED
    BY <2>1, <2>2, <2>3, <2>4, <2>5, <2>6
<1>9. CASE LeaveSpawnBlock(l)
  <2> USE <1>9 DEF LeaveSpawnBlock
  <2>7. /\ context'[l] \in Contexts(Nat)
        /\ context'[l].work = context[l].work - 1
        /\ context'[l].queue = context[l].queue /\ Len(context[l].queue) \in Nat
    <3>1. context[l] \in Contexts(Nat) /\ Len(context[l].queue) \in Nat
      BY DEF PoolTypeOK, Contexts
    <3>2. context[l].work > 0
      <4>1. pc[l] = "spawn" /\ Accounted(l)
        BY DEF WorkIsAccounted
      <4> HIDE DEF LeaveSpawnBlock
      <4> QED
        BY <3>1, <4>1 DEF Accounted
    <3> QED
      BY <3>1, <3>2, WorkFinishedType DEF PoolTypeOK
  <2>1. ServerTypeOK'
    BY DEF ServerTypeOK
  <2>2. RunTypeOK'
    BY DEF RunTypeOK, Locations
  <2>3. PoolTypeOK'
    BY <2>7 DEF PoolTypeOK
  <2>4. ControlTypeOK'
    BY DEF ControlTypeOK
  <2>5. HistoryTypeOK'
    BY DEF HistoryTypeOK
  <2>6. WorkIsAccounted'
    <3>1. Accounted(l)'
      <4>1. pc[l] = "spawn" /\ pc'[l] = "head" /\ Accounted(l)
        BY DEF RunTypeOK, WorkIsAccounted
      <4> HIDE DEF LeaveSpawnBlock
      <4> QED
        BY <2>7, <4>1 DEF Accounted
    <3>2. \A m \in Listeners \ {l} : context'[m] = context[m] /\ pc'[m] = pc[m]
      BY DEF RunTypeOK, PoolTypeOK
    <3> QED
      BY <3>1, <3>2, AccountOthers
  <2> QED
    BY <2>1, <2>2, <2>3, <2>4, <2>5, <2>6
<1>10. CASE TestOwn(l)
  BY <1>10
     DEF TestOwn, ServerTypeOK, RunTypeOK, Locations, PoolTypeOK, ControlTypeOK, HistoryTypeOK,
         WorkIsAccounted, Accounted
<1>11. CASE TestGlobal(l)
  BY <1>11
     DEF TestGlobal, ServerTypeOK, RunTypeOK, Locations, PoolTypeOK, ControlTypeOK, HistoryTypeOK,
         WorkIsAccounted, Accounted
<1>12. CASE SendRequest(l)
  <2> USE <1>12 DEF SendRequest, Confirm, Counted
  <2>1. ServerTypeOK'
    BY DEF ServerTypeOK, RunTypeOK
  <2>2. RunTypeOK'
    BY TelegramAssumption DEF RunTypeOK, Locations, ServerTypeOK
  <2>3. PoolTypeOK'
    BY DEF PoolTypeOK
  <2>4. ControlTypeOK'
    BY DEF ControlTypeOK
  <2>5. HistoryTypeOK'
    BY DEF HistoryTypeOK
  <2>6. WorkIsAccounted'
    <3>1. context' = context /\ \A m \in Listeners : pc'[m] = "spawn" <=> pc[m] = "spawn"
      BY DEF RunTypeOK
    <3> QED
      BY <3>1, AccountSame
  <2> QED
    BY <2>1, <2>2, <2>3, <2>4, <2>5, <2>6
<1>13. CASE HoldExpires(l)
  BY <1>13
     DEF HoldExpires, ServerTypeOK, RunTypeOK, Locations, PoolTypeOK, ControlTypeOK, HistoryTypeOK,
         WorkIsAccounted, Accounted
<1>14. CASE ReplyEmpty(l)
  BY <1>14
     DEF ReplyEmpty, ServerTypeOK, RunTypeOK, Locations, PoolTypeOK, ControlTypeOK, HistoryTypeOK,
         WorkIsAccounted, Accounted
<1>15. CASE ReadTimesOut(l)
  BY <1>15
     DEF ReadTimesOut, Excuse, ServerTypeOK, RunTypeOK, Locations, PoolTypeOK, ControlTypeOK, HistoryTypeOK,
         WorkIsAccounted, Accounted
<1>16. CASE ExecuteInline(l)
  <2> USE <1>16 DEF ExecuteInline, TakeUpdate, UpdateIds, NextOffset
  <2>1. ServerTypeOK'
    BY DEF ServerTypeOK
  <2>2. RunTypeOK'
    BY DEF RunTypeOK, Locations
  <2>3. PoolTypeOK'
    BY DEF PoolTypeOK
  <2>4. ControlTypeOK'
    BY DEF ControlTypeOK
  <2>5. HistoryTypeOK'
    BY DEF HistoryTypeOK
  <2>6. WorkIsAccounted'
    <3>1. context' = context /\ \A m \in Listeners : pc'[m] = "spawn" <=> pc[m] = "spawn"
      BY DEF RunTypeOK
    <3> QED
      BY <3>1, AccountSame
  <2> QED
    BY <2>1, <2>2, <2>3, <2>4, <2>5, <2>6
<1>17. CASE PostToPool(l)
  <2> USE <1>17 DEF PostToPool, TakeUpdate, UpdateIds, NextOffset, ItemDone
  <2>7. /\ context'[l] \in Contexts(Nat)
        /\ context'[l].work = context[l].work + 1
        /\ Len(context'[l].queue) = Len(context[l].queue) + 1
        /\ context[l].work \in Nat /\ Len(context[l].queue) \in Nat
    <3>1. context[l] \in Contexts(Nat) /\ todo[l] \in Nat
      BY DEF PoolTypeOK, RunTypeOK
    <3>2. context[l].work \in Nat /\ Len(context[l].queue) \in Nat
      BY <3>1 DEF Contexts
    <3> QED
      BY <3>1, <3>2, PostedType DEF PoolTypeOK
  <2>1. ServerTypeOK'
    BY DEF ServerTypeOK
  <2>2. RunTypeOK'
    BY DEF RunTypeOK, Locations, Tails
  <2>3. PoolTypeOK'
    BY <2>7 DEF PoolTypeOK
  <2>4. ControlTypeOK'
    BY DEF ControlTypeOK
  <2>5. HistoryTypeOK'
    BY DEF HistoryTypeOK, RunTypeOK
  <2>6. WorkIsAccounted'
    <3>1. Accounted(l)'
      <4>1. pc[l] = "batch" /\ pc'[l] = "batch" /\ Accounted(l)
        BY DEF RunTypeOK, WorkIsAccounted
      <4> HIDE DEF PostToPool
      <4> QED
        BY <2>7, <4>1 DEF Accounted
    <3>2. \A m \in Listeners \ {l} : context'[m] = context[m] /\ pc'[m] = pc[m]
      BY DEF RunTypeOK, PoolTypeOK
    <3> QED
      BY <3>1, <3>2, AccountOthers
  <2> QED
    BY <2>1, <2>2, <2>3, <2>4, <2>5, <2>6
<1>18. CASE CallbacksReturn(l)
  <2> USE <1>18 DEF CallbacksReturn, ItemDone
  <2>1. ServerTypeOK'
    BY DEF ServerTypeOK
  <2>2. RunTypeOK'
    BY DEF RunTypeOK, Locations, Tails
  <2>3. PoolTypeOK'
    BY DEF PoolTypeOK
  <2>4. ControlTypeOK'
    BY DEF ControlTypeOK
  <2>5. HistoryTypeOK'
    BY DEF HistoryTypeOK, RunTypeOK
  <2>6. WorkIsAccounted'
    <3>1. context' = context /\ \A m \in Listeners : pc'[m] = "spawn" <=> pc[m] = "spawn"
      BY DEF RunTypeOK
    <3> QED
      BY <3>1, AccountSame
  <2> QED
    BY <2>1, <2>2, <2>3, <2>4, <2>5, <2>6
<1>19. CASE EndOfBatch(l)
  BY <1>19
     DEF EndOfBatch, DropReply, Tails, ServerTypeOK, RunTypeOK, Locations, PoolTypeOK, ControlTypeOK, HistoryTypeOK,
         WorkIsAccounted, Accounted
<1>20. CASE Fault(l)
  <2> USE <1>20 DEF Fault, ClearGlobal
  <2>1. ServerTypeOK'
    BY DEF ServerTypeOK
  <2>2. RunTypeOK'
    BY DEF RunTypeOK, Locations
  <2>3. PoolTypeOK'
    BY DEF PoolTypeOK
  <2>4. ControlTypeOK'
    BY DEF ControlTypeOK
  <2>5. HistoryTypeOK'
    BY DEF HistoryTypeOK
  <2>6. WorkIsAccounted'
    <3>1. context' = context /\ \A m \in Listeners : pc'[m] = "spawn" <=> pc[m] = "spawn"
      BY DEF RunTypeOK
    <3> QED
      BY <3>1, AccountSame
  <2> QED
    BY <2>1, <2>2, <2>3, <2>4, <2>5, <2>6
<1>21. CASE RestoreHandler(l)
  BY <1>21
     DEF RestoreHandler, ServerTypeOK, RunTypeOK, Locations, PoolTypeOK, ControlTypeOK, HistoryTypeOK,
         WorkIsAccounted, Accounted
<1>22. CASE Unflag(l)
  BY <1>22
     DEF Unflag, ServerTypeOK, RunTypeOK, Locations, PoolTypeOK, ControlTypeOK, HistoryTypeOK,
         WorkIsAccounted, Accounted
<1>23. CASE StopContext(l)
  <2> USE <1>23 DEF StopContext
  <2>7. /\ context'[l] \in Contexts(Nat)
        /\ context'[l].work = context[l].work
        /\ context'[l].queue = context[l].queue
    BY ContextStoppedType DEF PoolTypeOK
  <2>1. ServerTypeOK'
    BY DEF ServerTypeOK
  <2>2. RunTypeOK'
    BY DEF RunTypeOK, Locations
  <2>3. PoolTypeOK'
    BY <2>7 DEF PoolTypeOK
  <2>4. ControlTypeOK'
    BY DEF ControlTypeOK
  <2>5. HistoryTypeOK'
    BY DEF HistoryTypeOK
  <2>6. WorkIsAccounted'
    <3>1. Accounted(l)'
      <4>1. pc[l] = "stop_context" /\ pc'[l] = "join" /\ Accounted(l)
        BY DEF RunTypeOK, WorkIsAccounted
      <4> HIDE DEF StopContext
      <4> QED
        BY <2>7, <4>1 DEF Accounted
    <3>2. \A m \in Listeners \ {l} : context'[m] = context[m] /\ pc'[m] = pc[m]
      BY DEF RunTypeOK, PoolTypeOK
    <3> QED
      BY <3>1, <3>2, AccountOthers
  <2> QED
    BY <2>1, <2>2, <2>3, <2>4, <2>5, <2>6
<1>24. CASE Join(l)
  BY <1>24, TypeUnwind DEF Join
<1>25. CASE ReplyUpdates(l)
  <2> USE <1>25 DEF ReplyUpdates, Reply, Pending, ReplySize, Tails
  <2>1. ServerTypeOK'
    BY DEF ServerTypeOK, RunTypeOK
  <2>2. RunTypeOK'
    BY TelegramAssumption DEF RunTypeOK, Locations, ServerTypeOK
  <2>3. PoolTypeOK'
    BY DEF PoolTypeOK
  <2>4. ControlTypeOK'
    BY DEF ControlTypeOK
  <2>5. HistoryTypeOK'
    BY DEF HistoryTypeOK
  <2>6. WorkIsAccounted'
    <3>1. context' = context /\ \A m \in Listeners : pc'[m] = "spawn" <=> pc[m] = "spawn"
      BY DEF RunTypeOK
    <3> QED
      BY <3>1, AccountSame
  <2> QED
    BY <2>1, <2>2, <2>3, <2>4, <2>5, <2>6
<1>26. CASE Worker(l)
  <2> PICK i \in DOMAIN threads[l] : WorkerRuns(l, i)
    BY <1>26 DEF Worker
  <2> USE DEF WorkerRuns
  <2>0. /\ ServerTypeOK' /\ RunTypeOK' /\ ControlTypeOK'
        /\ \A m \in Listeners \ {l} : context'[m] = context[m] /\ pc'[m] = pc[m]
    <3>1. ServerTypeOK' /\ RunTypeOK' /\ ControlTypeOK'
      BY DEF ServerTypeOK, RunTypeOK, ControlTypeOK
    <3>2. \A m \in Listeners \ {l} : context'[m] = context[m] /\ pc'[m] = pc[m]
      BY DEF PoolTypeOK, RunTypeOK
    <3> QED
      BY <3>1, <3>2
  <2>1. CASE RunReturns(context[l])
    <3> USE <2>1
    <3>1. threads[l] \in Seq({"running", "returned"}) /\ i \in 1..Len(threads[l])
      BY DEF PoolTypeOK
    <3>2. [threads[l] EXCEPT ![i] = "returned"] \in Seq({"running", "returned"})
      BY <3>1
    <3>3. PoolTypeOK'
      BY <3>2 DEF PoolTypeOK
    <3>4. HistoryTypeOK'
      BY DEF HistoryTypeOK
    <3>5. WorkIsAccounted'
      BY DEF WorkIsAccounted, Accounted
    <3> QED
      BY <2>0, <3>3, <3>4, <3>5
  <2>2. CASE ~RunReturns(context[l])
    <3> USE <2>2
    <3>1. context[l] \in Contexts(Nat) /\ context[l].queue # <<>>
      BY DEF PoolTypeOK
    <3>2. context[l].work \in Nat /\ context[l].work > 0 /\ Len(context[l].queue) \in Nat
      BY <3>1 DEF RunReturns, Contexts
    <3>3. /\ Head(context[l].queue) \in Nat
          /\ HandlerRan(context[l]) \in Contexts(Nat)
          /\ HandlerRan(context[l]).work = context[l].work - 1
          /\ Len(HandlerRan(context[l]).queue) = Len(context[l].queue) - 1
      BY <3>1, <3>2, HandlerRanType
    <3>4. context'[l] = HandlerRan(context[l]) /\ pc'[l] = pc[l]
      BY DEF PoolTypeOK
    <3>5. PoolTypeOK'
      BY <3>3 DEF PoolTypeOK
    <3>6. HistoryTypeOK'
      <4> DEFINE u == Head(context[l].queue)
      <4>1. u \in Nat /\ executed' = [executed EXCEPT ![l] = @ \cup ({u} \ {0})]
        BY <3>3
      <4> HIDE DEF u, WorkerRuns
      <4>2. UNCHANGED <<missed, last, count, sinceStop, sinceStopAll, disarmed, changed, excused>>
        BY DEF WorkerRuns
      <4> QED
        BY <4>1, <4>2 DEF HistoryTypeOK
    <3>7. Accounted(l)'
      <4>1. Accounted(l)
        BY DEF WorkIsAccounted
      <4>2. /\ context'[l].work = context[l].work - 1
            /\ Len(context'[l].queue) = Len(context[l].queue) - 1
        BY <3>3, <3>4
      <4> HIDE DEF WorkerRuns
      <4> QED
        BY <3>2, <3>4, <4>1, <4>2 DEF Accounted
    <3>8. WorkIsAccounted'
      BY <2>0, <3>7, AccountOthers
    <3> QED
      BY <2>0, <3>5, <3>6, <3>8
  <2> QED
    BY <2>1, <2>2
<1>27. CASE SpawnFails(l)
  BY <1>27, TypeUnwind DEF SpawnFails
<1>28. CASE PollFails(l)
  BY <1>28
     DEF PollFails, Excuse, ServerTypeOK, RunTypeOK, Locations, PoolTypeOK, ControlTypeOK, HistoryTypeOK,
         WorkIsAccounted, Accounted
<1>29. CASE ReplyDamaged(l)
  <2> USE <1>29 DEF ReplyDamaged, Reply, ReplySize, Tails
  <2>1. ServerTypeOK'
    BY DEF ServerTypeOK, RunTypeOK
  <2>2. RunTypeOK'
    BY TelegramAssumption DEF RunTypeOK, Locations, ServerTypeOK
  <2>3. PoolTypeOK'
    BY DEF PoolTypeOK
  <2>4. ControlTypeOK'
    BY DEF ControlTypeOK
  <2>5. HistoryTypeOK'
    BY DEF HistoryTypeOK
  <2>6. WorkIsAccounted'
    <3>1. context' = context /\ \A m \in Listeners : pc'[m] = "spawn" <=> pc[m] = "spawn"
      BY DEF RunTypeOK
    <3> QED
      BY <3>1, AccountSame
  <2> QED
    BY <2>1, <2>2, <2>3, <2>4, <2>5, <2>6
<1>30. CASE ReplyNoResult(l)
  BY <1>30
     DEF ReplyNoResult, ServerTypeOK, RunTypeOK, Locations, PoolTypeOK, ControlTypeOK, HistoryTypeOK,
         WorkIsAccounted, Accounted
<1>31. CASE CallbackThrows(l)
  BY <1>31, TypeUnwind DEF CallbackThrows
<1>32. CASE ItemThrows(l)
  BY <1>32
     DEF ItemThrows, DropReply, Excuse, ServerTypeOK, RunTypeOK, Tails, Locations, PoolTypeOK,
         ControlTypeOK, HistoryTypeOK, WorkIsAccounted, Accounted
<1>33. CASE ItemAborts(l)
  BY <1>33, TypeDie DEF ItemAborts
<1> QED
  BY <1>1, <1>2, <1>3, <1>4, <1>5, <1>6, <1>7, <1>8, <1>9, <1>10, <1>11,
     <1>12, <1>13, <1>14, <1>15, <1>16, <1>17, <1>18, <1>19, <1>20, <1>21,
     <1>22, <1>23, <1>24, <1>25, <1>26, <1>27, <1>28, <1>29, <1>30, <1>31,
     <1>32, <1>33
     DEF Runs, Fails

LEMMA TypeStep == TypeInv /\ [Next]_vars => TypeInv'
<1> SUFFICES ASSUME TypeInv, [Next]_vars PROVE TypeInv'
  OBVIOUS
<1>1. ASSUME NEW l \in Listeners,
             BotReceives(l) \/ CallRun(l) \/ SetNumThreads(l) \/ Stop(l)
               \/ Runs(l) \/ ReplyUpdates(l) \/ Worker(l) \/ Fails(l)
      PROVE  TypeInv'
  BY <1>1, TypeListener
<1>2. CASE StopAll
  <2> USE <1>2 DEF StopAll, ClearGlobal, Excuse, TypeInv, TypeOK
  <2>1. ServerTypeOK'
    BY DEF ServerTypeOK
  <2>2. RunTypeOK'
    BY DEF RunTypeOK, Locations
  <2>3. PoolTypeOK'
    BY DEF PoolTypeOK
  <2>4. ControlTypeOK'
    BY DEF ControlTypeOK
  <2>5. HistoryTypeOK'
    BY DEF HistoryTypeOK
  <2>6. WorkIsAccounted'
    <3>1. context' = context /\ \A m \in Listeners : pc'[m] = "spawn" <=> pc[m] = "spawn"
      BY DEF RunTypeOK
    <3> QED
      BY <3>1, AccountSame
  <2> QED
    BY <2>1, <2>2, <2>3, <2>4, <2>5, <2>6
<1>3. CASE SigintHandled
  BY <1>3
     DEF SigintHandled, Disarm, TypeInv, TypeOK,
         ServerTypeOK, RunTypeOK, Locations, PoolTypeOK, ControlTypeOK, HistoryTypeOK,
         WorkIsAccounted, Accounted
<1>4. CASE SigintKills
  BY <1>4, TypeDie DEF SigintKills
<1>5. CASE HandlerStops
  <2> USE <1>5 DEF HandlerStops, ClearGlobal, Excuse, TypeInv, TypeOK
  <2>1. ServerTypeOK'
    BY DEF ServerTypeOK
  <2>2. RunTypeOK'
    BY DEF RunTypeOK, Locations
  <2>3. PoolTypeOK'
    BY DEF PoolTypeOK
  <2>4. ControlTypeOK'
    BY DEF ControlTypeOK
  <2>5. HistoryTypeOK'
    BY DEF HistoryTypeOK
  <2>6. WorkIsAccounted'
    <3>1. context' = context /\ \A m \in Listeners : pc'[m] = "spawn" <=> pc[m] = "spawn"
      BY DEF RunTypeOK
    <3> QED
      BY <3>1, AccountSame
  <2> QED
    BY <2>1, <2>2, <2>3, <2>4, <2>5, <2>6
<1>6. CASE HandlerRestores
  BY <1>6
     DEF HandlerRestores, TypeInv, TypeOK,
         ServerTypeOK, RunTypeOK, Locations, PoolTypeOK, ControlTypeOK, HistoryTypeOK,
         WorkIsAccounted, Accounted
<1>7. CASE HandlerUnflags
  BY <1>7
     DEF HandlerUnflags, TypeInv, TypeOK,
         ServerTypeOK, RunTypeOK, Locations, PoolTypeOK, ControlTypeOK, HistoryTypeOK,
         WorkIsAccounted, Accounted
<1>8. CASE Crash
  BY <1>8, TypeDie DEF Crash
<1>9. CASE Restart
  <2> USE <1>9 DEF Restart, TypeInv, TypeOK
  <2>1. ServerTypeOK'
    BY DEF ServerTypeOK
  <2>2. RunTypeOK'
    BY DEF RunTypeOK
  <2>3. PoolTypeOK'
    BY DEF PoolTypeOK
  <2>4. ControlTypeOK'
    BY DEF ControlTypeOK
  <2>5. HistoryTypeOK'
    BY DEF HistoryTypeOK
  <2>6. WorkIsAccounted'
    BY DEF WorkIsAccounted, Accounted
  <2> QED
    BY <2>1, <2>2, <2>3, <2>4, <2>5, <2>6
<1>10. CASE UNCHANGED vars
  BY <1>10
     DEF TypeInv, TypeOK, ServerTypeOK, RunTypeOK, Locations, PoolTypeOK, ControlTypeOK, HistoryTypeOK,
         WorkIsAccounted, Accounted
<1>11. CASE SetSignalHandler
  BY <1>11
     DEF SetSignalHandler, TypeInv, TypeOK,
         ServerTypeOK, RunTypeOK, Locations, PoolTypeOK, ControlTypeOK, HistoryTypeOK,
         WorkIsAccounted, Accounted
<1>12. CASE UnsetSignalHandler
  BY <1>12
     DEF UnsetSignalHandler, Disarm, TypeInv, TypeOK,
         ServerTypeOK, RunTypeOK, Locations, PoolTypeOK, ControlTypeOK, HistoryTypeOK,
         WorkIsAccounted, Accounted
<1>13. CASE SetFlag
  BY <1>13
     DEF SetFlag, TypeInv, TypeOK,
         ServerTypeOK, RunTypeOK, Locations, PoolTypeOK, ControlTypeOK, HistoryTypeOK,
         WorkIsAccounted, Accounted
<1> QED
  BY <1>1, <1>2, <1>3, <1>4, <1>5, <1>6, <1>7, <1>8, <1>9, <1>10, <1>11, <1>12, <1>13
     DEF Next, Handler

\* Type correctness, for any number of listeners, threads and updates.
THEOREM TypeCorrect == Safe => []TypeOK
<1>1. Safe => []TypeInv
  BY TypeInit, TypeStep, PTL DEF Safe
<1>2. TypeInv => TypeOK
  BY DEF TypeInv
<1> QED
  BY <1>1, <1>2, PTL

\* The io_context of a listener never counts less work than it has handlers, and its
\* count is never taken below zero: poll.h destroys its work guard once.
THEOREM WorkCorrect == Safe => []WorkIsAccounted
<1>1. Safe => []TypeInv
  BY TypeInit, TypeStep, PTL DEF Safe
<1>2. TypeInv => WorkIsAccounted
  BY DEF TypeInv
<1> QED
  BY <1>1, <1>2, PTL
=============================================================================
