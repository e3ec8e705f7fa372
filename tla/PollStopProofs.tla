--------------------------- MODULE PollStopProofs ---------------------------
(***************************************************************************)
(* Stopping: stop() for any number of listeners, stop_all() and what else  *)
(* ends a run for one, ctrl-c for a process with one thread; and the        *)
(* joining of the pool.                                                    *)
(***************************************************************************)
EXTENDS PollListenerProofs

USE DEF server, reply, pool, flags, handlers, signals, outcome, seen, asked, marks,
        history, process, vars

Leaving == {"restore", "unflag", "stop_context", "join"}

\* A stop() on record is still to be read by the loop, or the loop was left; and a
\* request sent since means that the loop is past it.
StopOf(l) ==
  /\ sinceStop[l] <= 1
  /\ sinceStop[l] >= 0 => ~keep_running[l] \/ pc[l] \in Leaving
  /\ sinceStop[l] >= 1 => pc[l] \notin {"test_global", "send"}
  /\ pc[l] = "idle" => sinceStop[l] = -1

StopInv == TypeInv /\ \A l \in Listeners : StopOf(l)

\* The same of stop_all(), whose flag only one listener may set again.
StopAllOf(l) ==
  /\ sinceStopAll[l] <= 1
  /\ sinceStopAll[l] >= 0 => ~keep_running_global \/ pc[l] \in Leaving
  /\ sinceStopAll[l] >= 1 => pc[l] # "send"
  /\ pc[l] \in {"idle", "arm"} => sinceStopAll[l] = -1

StopAllInv == TypeInv /\ \A l \in Listeners : StopAllOf(l)

\* A flag that is clear under a run has been cleared in it, and it goes on to its end
\* only from there.
CauseOf(l) ==
  /\ pc[l] # "idle" /\ ~keep_running[l] => excused[l]
  /\ pc[l] \notin {"idle", "arm"} /\ ~keep_running_global => excused[l]
  /\ pc[l] \in {"fault", "restore"} => excused[l]

CauseInv == TypeInv /\ \A l \in Listeners : CauseOf(l)

OneListenerOnly == \A l, m \in Listeners : l = m

\* A listener in its loop has its handler installed, or was disarmed; a signal
\* handler that runs has disarmed it.
CtrlCOf(l) ==
  pc[l] \in Serving => /\ sigaction = "handler" \/ disarmed[l]
                       /\ handling # "none" => disarmed[l]

CtrlCInv == TypeInv /\ \A l \in Listeners : CtrlCOf(l)

-----------------------------------------------------------------------------
(* stop()                                                                  *)

LEMMA StopListener ==
  ASSUME TypeInv, NEW l \in Listeners, NEW m \in Listeners, StopOf(m),
         BotReceives(l) \/ CallRun(l) \/ SetNumThreads(l) \/ Stop(l)
           \/ Runs(l) \/ ReplyUpdates(l) \/ Worker(l) \/ Fails(l)
  PROVE  StopOf(m)'
<1>0. /\ pc \in [Listeners -> Locations]
      /\ keep_running \in [Listeners -> BOOLEAN] /\ keep_running_global \in BOOLEAN
      /\ sinceStop \in [Listeners -> -1..2] /\ sinceStopAll \in [Listeners -> -1..2]
      /\ disarmed \in [Listeners -> BOOLEAN]
  BY DEF TypeInv, TypeOK, RunTypeOK, ControlTypeOK, HistoryTypeOK
<1> USE <1>0 DEF At, Goto, Leaving
<1>1. CASE BotReceives(l)
  BY <1>1 DEF BotReceives, StopOf
<1>2. CASE CallRun(l)
  BY <1>2 DEF CallRun, StopOf
<1>3. CASE SetNumThreads(l)
  BY <1>3 DEF SetNumThreads, StopOf
<1>4. CASE Stop(l)
  BY <1>4 DEF Stop, StopOf
<1>5. CASE ArmGlobal(l)
  BY <1>5 DEF ArmGlobal, StopOf
<1>6. CASE InstallHandler(l)
  BY <1>6 DEF InstallHandler, StopOf
<1>7. CASE FlagHandler(l)
  BY <1>7 DEF FlagHandler, StopOf
<1>8. CASE SpawnThread(l)
  BY <1>8 DEF SpawnThread, StopOf
<1>9. CASE LeaveSpawnBlock(l)
  BY <1>9 DEF LeaveSpawnBlock, StopOf
<1>10. CASE TestOwn(l)
  BY <1>10 DEF TestOwn, StopOf
<1>11. CASE TestGlobal(l)
  BY <1>11 DEF TestGlobal, StopOf
<1>12. CASE SendRequest(l)
  BY <1>12 DEF SendRequest, Counted, StopOf
<1>13. CASE HoldExpires(l)
  BY <1>13 DEF HoldExpires, StopOf
<1>14. CASE ReplyEmpty(l)
  BY <1>14 DEF ReplyEmpty, StopOf
<1>15. CASE ReadTimesOut(l)
  BY <1>15 DEF ReadTimesOut, Excuse, StopOf
<1>16. CASE ExecuteInline(l)
  BY <1>16 DEF ExecuteInline, TakeUpdate, StopOf
<1>17. CASE PostToPool(l)
  BY <1>17 DEF PostToPool, TakeUpdate, StopOf
<1>18. CASE CallbacksReturn(l)
  BY <1>18 DEF CallbacksReturn, StopOf
<1>19. CASE EndOfBatch(l)
  BY <1>19 DEF EndOfBatch, StopOf
<1>20. CASE Fault(l)
  BY <1>20 DEF Fault, ClearGlobal, StopOf
<1>21. CASE RestoreHandler(l)
  BY <1>21 DEF RestoreHandler, StopOf
<1>22. CASE Unflag(l)
  BY <1>22 DEF Unflag, StopOf
<1>23. CASE StopContext(l)
  BY <1>23 DEF StopContext, StopOf
<1>24. CASE Join(l)
  BY <1>24 DEF Join, Unwind, Die, Each, LeaveRun, StopOf
<1>25. CASE ReplyUpdates(l)
  BY <1>25 DEF ReplyUpdates, Reply, StopOf
<1>26. CASE Worker(l)
  BY <1>26 DEF Worker, WorkerRuns, StopOf
<1>27. CASE SpawnFails(l)
  BY <1>27 DEF SpawnFails, Unwind, Die, Each, LeaveRun, StopOf
<1>28. CASE PollFails(l)
  BY <1>28 DEF PollFails, Excuse, StopOf
<1>29. CASE ReplyDamaged(l)
  BY <1>29 DEF ReplyDamaged, Reply, StopOf
<1>30. CASE ReplyNoResult(l)
  BY <1>30 DEF ReplyNoResult, StopOf
<1>31. CASE CallbackThrows(l)
  BY <1>31 DEF CallbackThrows, Unwind, Die, Each, LeaveRun, StopOf
<1>32. CASE ItemThrows(l)
  BY <1>32 DEF ItemThrows, Excuse, StopOf
<1>33. CASE ItemAborts(l)
  BY <1>33 DEF ItemAborts, Die, Each, StopOf
<1> QED
  BY <1>1, <1>2, <1>3, <1>4, <1>5, <1>6, <1>7, <1>8, <1>9, <1>10, <1>11,
     <1>12, <1>13, <1>14, <1>15, <1>16, <1>17, <1>18, <1>19, <1>20,
     <1>21, <1>22, <1>23, <1>24, <1>25, <1>26, <1>27, <1>28, <1>29,
     <1>30, <1>31, <1>32, <1>33
     DEF Runs, Fails

LEMMA StopStep ==
  StopInv /\ [Next]_vars => StopInv'
<1> SUFFICES ASSUME StopInv, [Next]_vars, NEW m \in Listeners PROVE StopOf(m)'
  BY TypeStep DEF StopInv
<1>0. /\ TypeInv /\ StopOf(m)
      /\ pc \in [Listeners -> Locations]
      /\ sinceStop \in [Listeners -> -1..2] /\ sinceStopAll \in [Listeners -> -1..2]
      /\ disarmed \in [Listeners -> BOOLEAN]
  BY DEF StopInv, TypeInv, TypeOK, RunTypeOK, HistoryTypeOK
<1>1. ASSUME NEW l \in Listeners,
             BotReceives(l) \/ CallRun(l) \/ SetNumThreads(l) \/ Stop(l)
               \/ Runs(l) \/ ReplyUpdates(l) \/ Worker(l) \/ Fails(l)
      PROVE  StopOf(m)'
  BY <1>1, <1>0, StopListener DEF StopInv
<1>2. CASE StopAll
  BY <1>2, <1>0 DEF StopAll, ClearGlobal, Excuse, StopOf, Leaving
<1>3. CASE SigintHandled
  BY <1>3, <1>0 DEF SigintHandled, Disarm, StopOf, Leaving
<1>4. CASE SigintKills
  BY <1>4, <1>0 DEF SigintKills, Die, Each, StopOf, Leaving
<1>5. CASE HandlerStops
  BY <1>5, <1>0 DEF HandlerStops, ClearGlobal, Excuse, StopOf, Leaving
<1>6. CASE HandlerRestores
  BY <1>6, <1>0 DEF HandlerRestores, StopOf, Leaving
<1>7. CASE HandlerUnflags
  BY <1>7, <1>0 DEF HandlerUnflags, StopOf, Leaving
<1>8. CASE Crash
  BY <1>8, <1>0 DEF Crash, Die, Each, StopOf, Leaving
<1>9. CASE Restart
  BY <1>9, <1>0 DEF Restart, StopOf, Leaving
<1>10. CASE UNCHANGED vars
  BY <1>10, <1>0 DEF StopOf, Leaving
<1>11. CASE SetSignalHandler
  BY <1>11, <1>0 DEF SetSignalHandler, StopOf, Leaving
<1>12. CASE UnsetSignalHandler
  BY <1>12, <1>0 DEF UnsetSignalHandler, Disarm, StopOf, Leaving
<1>13. CASE SetFlag
  BY <1>13, <1>0 DEF SetFlag, StopOf, Leaving
<1> QED
  BY <1>1, <1>2, <1>3, <1>4, <1>5, <1>6, <1>7, <1>8, <1>9, <1>10, <1>11, <1>12, <1>13
     DEF Next, Handler

\* Whatever other threads, listeners and signals do, a run sends at most one request
\* after its stop().
THEOREM StopPrompt == Safe => []StopIsPrompt
<1>1. Init => StopInv
  BY TypeInit DEF Init, Each, StopInv, StopOf
<1>2. Safe => []StopInv
  BY <1>1, StopStep, PTL DEF Safe
<1>3. StopInv => StopIsPrompt
  BY DEF StopInv, StopOf, StopIsPrompt
<1> QED
  BY <1>2, <1>3, PTL

-----------------------------------------------------------------------------
(* stop_all()                                                              *)

LEMMA StopAllListener ==
  ASSUME TypeInv, OneListenerOnly, NEW l \in Listeners, NEW m \in Listeners, StopAllOf(m),
         BotReceives(l) \/ CallRun(l) \/ SetNumThreads(l) \/ Stop(l)
           \/ Runs(l) \/ ReplyUpdates(l) \/ Worker(l) \/ Fails(l)
  PROVE  StopAllOf(m)'
<1>0. /\ pc \in [Listeners -> Locations]
      /\ keep_running \in [Listeners -> BOOLEAN] /\ keep_running_global \in BOOLEAN
      /\ sinceStop \in [Listeners -> -1..2] /\ sinceStopAll \in [Listeners -> -1..2]
      /\ disarmed \in [Listeners -> BOOLEAN]
  BY DEF TypeInv, TypeOK, RunTypeOK, ControlTypeOK, HistoryTypeOK
<1> USE <1>0 DEF At, Goto, Leaving, OneListenerOnly
<1>1. CASE BotReceives(l)
  BY <1>1 DEF BotReceives, StopAllOf
<1>2. CASE CallRun(l)
  BY <1>2 DEF CallRun, StopAllOf
<1>3. CASE SetNumThreads(l)
  BY <1>3 DEF SetNumThreads, StopAllOf
<1>4. CASE Stop(l)
  BY <1>4 DEF Stop, StopAllOf
<1>5. CASE ArmGlobal(l)
  BY <1>5 DEF ArmGlobal, StopAllOf
<1>6. CASE InstallHandler(l)
  BY <1>6 DEF InstallHandler, StopAllOf
<1>7. CASE FlagHandler(l)
  BY <1>7 DEF FlagHandler, StopAllOf
<1>8. CASE SpawnThread(l)
  BY <1>8 DEF SpawnThread, StopAllOf
<1>9. CASE LeaveSpawnBlock(l)
  BY <1>9 DEF LeaveSpawnBlock, StopAllOf
<1>10. CASE TestOwn(l)
  BY <1>10 DEF TestOwn, StopAllOf
<1>11. CASE TestGlobal(l)
  BY <1>11 DEF TestGlobal, StopAllOf
<1>12. CASE SendRequest(l)
  BY <1>12 DEF SendRequest, Counted, StopAllOf
<1>13. CASE HoldExpires(l)
  BY <1>13 DEF HoldExpires, StopAllOf
<1>14. CASE ReplyEmpty(l)
  BY <1>14 DEF ReplyEmpty, StopAllOf
<1>15. CASE ReadTimesOut(l)
  BY <1>15 DEF ReadTimesOut, Excuse, StopAllOf
<1>16. CASE ExecuteInline(l)
  BY <1>16 DEF ExecuteInline, TakeUpdate, StopAllOf
<1>17. CASE PostToPool(l)
  BY <1>17 DEF PostToPool, TakeUpdate, StopAllOf
<1>18. CASE CallbacksReturn(l)
  BY <1>18 DEF CallbacksReturn, StopAllOf
<1>19. CASE EndOfBatch(l)
  BY <1>19 DEF EndOfBatch, StopAllOf
<1>20. CASE Fault(l)
  BY <1>20 DEF Fault, ClearGlobal, StopAllOf
<1>21. CASE RestoreHandler(l)
  BY <1>21 DEF RestoreHandler, StopAllOf
<1>22. CASE Unflag(l)
  BY <1>22 DEF Unflag, StopAllOf
<1>23. CASE StopContext(l)
  BY <1>23 DEF StopContext, StopAllOf
<1>24. CASE Join(l)
  BY <1>24 DEF Join, Unwind, Die, Each, LeaveRun, StopAllOf
<1>25. CASE ReplyUpdates(l)
  BY <1>25 DEF ReplyUpdates, Reply, StopAllOf
<1>26. CASE Worker(l)
  BY <1>26 DEF Worker, WorkerRuns, StopAllOf
<1>27. CASE SpawnFails(l)
  BY <1>27 DEF SpawnFails, Unwind, Die, Each, LeaveRun, StopAllOf
<1>28. CASE PollFails(l)
  BY <1>28 DEF PollFails, Excuse, StopAllOf
<1>29. CASE ReplyDamaged(l)
  BY <1>29 DEF ReplyDamaged, Reply, StopAllOf
<1>30. CASE ReplyNoResult(l)
  BY <1>30 DEF ReplyNoResult, StopAllOf
<1>31. CASE CallbackThrows(l)
  BY <1>31 DEF CallbackThrows, Unwind, Die, Each, LeaveRun, StopAllOf
<1>32. CASE ItemThrows(l)
  BY <1>32 DEF ItemThrows, Excuse, StopAllOf
<1>33. CASE ItemAborts(l)
  BY <1>33 DEF ItemAborts, Die, Each, StopAllOf
<1> QED
  BY <1>1, <1>2, <1>3, <1>4, <1>5, <1>6, <1>7, <1>8, <1>9, <1>10, <1>11,
     <1>12, <1>13, <1>14, <1>15, <1>16, <1>17, <1>18, <1>19, <1>20,
     <1>21, <1>22, <1>23, <1>24, <1>25, <1>26, <1>27, <1>28, <1>29,
     <1>30, <1>31, <1>32, <1>33
     DEF Runs, Fails

LEMMA StopAllStep ==
  ASSUME OneListenerOnly PROVE StopAllInv /\ [Next]_vars => StopAllInv'
<1> SUFFICES ASSUME StopAllInv, [Next]_vars, NEW m \in Listeners PROVE StopAllOf(m)'
  BY TypeStep DEF StopAllInv
<1>0. /\ TypeInv /\ StopAllOf(m)
      /\ pc \in [Listeners -> Locations]
      /\ sinceStop \in [Listeners -> -1..2] /\ sinceStopAll \in [Listeners -> -1..2]
      /\ disarmed \in [Listeners -> BOOLEAN]
  BY DEF StopAllInv, TypeInv, TypeOK, RunTypeOK, HistoryTypeOK
<1>1. ASSUME NEW l \in Listeners,
             BotReceives(l) \/ CallRun(l) \/ SetNumThreads(l) \/ Stop(l)
               \/ Runs(l) \/ ReplyUpdates(l) \/ Worker(l) \/ Fails(l)
      PROVE  StopAllOf(m)'
  BY <1>1, <1>0, StopAllListener DEF StopAllInv
<1>2. CASE StopAll
  BY <1>2, <1>0 DEF StopAll, ClearGlobal, Excuse, StopAllOf, Leaving, OneListenerOnly
<1>3. CASE SigintHandled
  BY <1>3, <1>0 DEF SigintHandled, Disarm, StopAllOf, Leaving, OneListenerOnly
<1>4. CASE SigintKills
  BY <1>4, <1>0 DEF SigintKills, Die, Each, StopAllOf, Leaving, OneListenerOnly
<1>5. CASE HandlerStops
  BY <1>5, <1>0 DEF HandlerStops, ClearGlobal, Excuse, StopAllOf, Leaving, OneListenerOnly
<1>6. CASE HandlerRestores
  BY <1>6, <1>0 DEF HandlerRestores, StopAllOf, Leaving, OneListenerOnly
<1>7. CASE HandlerUnflags
  BY <1>7, <1>0 DEF HandlerUnflags, StopAllOf, Leaving, OneListenerOnly
<1>8. CASE Crash
  BY <1>8, <1>0 DEF Crash, Die, Each, StopAllOf, Leaving, OneListenerOnly
<1>9. CASE Restart
  BY <1>9, <1>0 DEF Restart, StopAllOf, Leaving, OneListenerOnly
<1>10. CASE UNCHANGED vars
  BY <1>10, <1>0 DEF StopAllOf, Leaving, OneListenerOnly
<1>11. CASE SetSignalHandler
  BY <1>11, <1>0 DEF SetSignalHandler, StopAllOf, Leaving, OneListenerOnly
<1>12. CASE UnsetSignalHandler
  BY <1>12, <1>0 DEF UnsetSignalHandler, Disarm, StopAllOf, Leaving, OneListenerOnly
<1>13. CASE SetFlag
  BY <1>13, <1>0 DEF SetFlag, StopAllOf, Leaving, OneListenerOnly
<1> QED
  BY <1>1, <1>2, <1>3, <1>4, <1>5, <1>6, <1>7, <1>8, <1>9, <1>10, <1>11, <1>12, <1>13
     DEF Next, Handler

\* With one listener in the process, stop_all() is as prompt as stop().
THEOREM StopAllPrompt == ASSUME OneListenerOnly PROVE Safe => []StopAllIsPrompt
<1>1. Init => StopAllInv
  BY TypeInit DEF Init, Each, StopAllInv, StopAllOf
<1>2. Safe => []StopAllInv
  BY <1>1, StopAllStep, PTL DEF Safe
<1>3. StopAllInv => StopAllIsPrompt
  BY DEF StopAllInv, StopAllOf, StopAllIsPrompt
<1> QED
  BY <1>2, <1>3, PTL

-----------------------------------------------------------------------------
(* What ends a run                                                         *)

LEMMA CauseListener ==
  ASSUME TypeInv, OneListenerOnly, NEW l \in Listeners, NEW m \in Listeners, CauseOf(m),
         BotReceives(l) \/ CallRun(l) \/ SetNumThreads(l) \/ Stop(l)
           \/ Runs(l) \/ ReplyUpdates(l) \/ Worker(l) \/ Fails(l)
  PROVE  CauseOf(m)'
<1>0. /\ pc \in [Listeners -> Locations]
      /\ keep_running \in [Listeners -> BOOLEAN] /\ keep_running_global \in BOOLEAN
      /\ sinceStop \in [Listeners -> -1..2] /\ sinceStopAll \in [Listeners -> -1..2]
      /\ excused \in [Listeners -> BOOLEAN]
  BY DEF TypeInv, TypeOK, RunTypeOK, ControlTypeOK, HistoryTypeOK
<1> USE <1>0 DEF At, Goto, Leaving, OneListenerOnly
<1>1. CASE BotReceives(l)
  BY <1>1 DEF BotReceives, CauseOf
<1>2. CASE CallRun(l)
  BY <1>2 DEF CallRun, CauseOf
<1>3. CASE SetNumThreads(l)
  BY <1>3 DEF SetNumThreads, CauseOf
<1>4. CASE Stop(l)
  BY <1>4 DEF Stop, CauseOf
<1>5. CASE ArmGlobal(l)
  BY <1>5 DEF ArmGlobal, CauseOf
<1>6. CASE InstallHandler(l)
  BY <1>6 DEF InstallHandler, CauseOf
<1>7. CASE FlagHandler(l)
  BY <1>7 DEF FlagHandler, CauseOf
<1>8. CASE SpawnThread(l)
  BY <1>8 DEF SpawnThread, CauseOf
<1>9. CASE LeaveSpawnBlock(l)
  BY <1>9 DEF LeaveSpawnBlock, CauseOf
<1>10. CASE TestOwn(l)
  BY <1>10 DEF TestOwn, CauseOf
<1>11. CASE TestGlobal(l)
  BY <1>11 DEF TestGlobal, CauseOf
<1>12. CASE SendRequest(l)
  BY <1>12 DEF SendRequest, CauseOf
<1>13. CASE HoldExpires(l)
  BY <1>13 DEF HoldExpires, CauseOf
<1>14. CASE ReplyEmpty(l)
  BY <1>14 DEF ReplyEmpty, CauseOf
<1>15. CASE ReadTimesOut(l)
  BY <1>15 DEF ReadTimesOut, Excuse, CauseOf
<1>16. CASE ExecuteInline(l)
  BY <1>16 DEF ExecuteInline, TakeUpdate, CauseOf
<1>17. CASE PostToPool(l)
  BY <1>17 DEF PostToPool, TakeUpdate, CauseOf
<1>18. CASE CallbacksReturn(l)
  BY <1>18 DEF CallbacksReturn, CauseOf
<1>19. CASE EndOfBatch(l)
  BY <1>19 DEF EndOfBatch, CauseOf
<1>20. CASE Fault(l)
  BY <1>20 DEF Fault, ClearGlobal, CauseOf
<1>21. CASE RestoreHandler(l)
  BY <1>21 DEF RestoreHandler, CauseOf
<1>22. CASE Unflag(l)
  BY <1>22 DEF Unflag, CauseOf
<1>23. CASE StopContext(l)
  BY <1>23 DEF StopContext, CauseOf
<1>24. CASE Join(l)
  BY <1>24 DEF Join, Unwind, Die, Each, LeaveRun, CauseOf
<1>25. CASE ReplyUpdates(l)
  BY <1>25 DEF ReplyUpdates, Reply, CauseOf
<1>26. CASE Worker(l)
  BY <1>26 DEF Worker, WorkerRuns, CauseOf
<1>27. CASE SpawnFails(l)
  BY <1>27 DEF SpawnFails, Unwind, Die, Each, LeaveRun, CauseOf
<1>28. CASE PollFails(l)
  BY <1>28 DEF PollFails, Excuse, CauseOf
<1>29. CASE ReplyDamaged(l)
  BY <1>29 DEF ReplyDamaged, Reply, CauseOf
<1>30. CASE ReplyNoResult(l)
  BY <1>30 DEF ReplyNoResult, CauseOf
<1>31. CASE CallbackThrows(l)
  BY <1>31 DEF CallbackThrows, Unwind, Die, Each, LeaveRun, CauseOf
<1>32. CASE ItemThrows(l)
  BY <1>32 DEF ItemThrows, Excuse, CauseOf
<1>33. CASE ItemAborts(l)
  BY <1>33 DEF ItemAborts, Die, Each, CauseOf
<1> QED
  BY <1>1, <1>2, <1>3, <1>4, <1>5, <1>6, <1>7, <1>8, <1>9, <1>10, <1>11,
     <1>12, <1>13, <1>14, <1>15, <1>16, <1>17, <1>18, <1>19, <1>20,
     <1>21, <1>22, <1>23, <1>24, <1>25, <1>26, <1>27, <1>28, <1>29,
     <1>30, <1>31, <1>32, <1>33
     DEF Runs, Fails

LEMMA CauseStep ==
  ASSUME OneListenerOnly PROVE CauseInv /\ [Next]_vars => CauseInv'
<1> SUFFICES ASSUME CauseInv, [Next]_vars, NEW m \in Listeners PROVE CauseOf(m)'
  BY TypeStep DEF CauseInv
<1>0. /\ TypeInv /\ CauseOf(m)
      /\ pc \in [Listeners -> Locations]
      /\ sinceStop \in [Listeners -> -1..2] /\ sinceStopAll \in [Listeners -> -1..2]
      /\ excused \in [Listeners -> BOOLEAN]
  BY DEF CauseInv, TypeInv, TypeOK, RunTypeOK, ControlTypeOK, HistoryTypeOK
<1>1. ASSUME NEW l \in Listeners,
             BotReceives(l) \/ CallRun(l) \/ SetNumThreads(l) \/ Stop(l)
               \/ Runs(l) \/ ReplyUpdates(l) \/ Worker(l) \/ Fails(l)
      PROVE  CauseOf(m)'
  BY <1>1, <1>0, CauseListener DEF CauseInv
<1>2. CASE StopAll
  BY <1>2, <1>0 DEF StopAll, ClearGlobal, Excuse, CauseOf, Leaving, OneListenerOnly
<1>3. CASE SigintHandled
  BY <1>3, <1>0 DEF SigintHandled, Disarm, CauseOf, Leaving, OneListenerOnly
<1>4. CASE SigintKills
  BY <1>4, <1>0 DEF SigintKills, Die, Each, CauseOf, Leaving, OneListenerOnly
<1>5. CASE HandlerStops
  BY <1>5, <1>0 DEF HandlerStops, ClearGlobal, Excuse, CauseOf, Leaving, OneListenerOnly
<1>6. CASE HandlerRestores
  BY <1>6, <1>0 DEF HandlerRestores, CauseOf, Leaving, OneListenerOnly
<1>7. CASE HandlerUnflags
  BY <1>7, <1>0 DEF HandlerUnflags, CauseOf, Leaving, OneListenerOnly
<1>8. CASE Crash
  BY <1>8, <1>0 DEF Crash, Die, Each, CauseOf, Leaving, OneListenerOnly
<1>9. CASE Restart
  BY <1>9, <1>0 DEF Restart, CauseOf, Leaving, OneListenerOnly
<1>10. CASE UNCHANGED vars
  BY <1>10, <1>0 DEF CauseOf, Leaving, OneListenerOnly
<1>11. CASE SetSignalHandler
  BY <1>11, <1>0 DEF SetSignalHandler, CauseOf, Leaving, OneListenerOnly
<1>12. CASE UnsetSignalHandler
  BY <1>12, <1>0 DEF UnsetSignalHandler, Disarm, CauseOf, Leaving, OneListenerOnly
<1>13. CASE SetFlag
  BY <1>13, <1>0 DEF SetFlag, CauseOf, Leaving, OneListenerOnly
<1> QED
  BY <1>1, <1>2, <1>3, <1>4, <1>5, <1>6, <1>7, <1>8, <1>9, <1>10, <1>11, <1>12, <1>13
     DEF Next, Handler

\* With one listener in the process, a run ends only for what happened in it.
THEOREM EndHasCause == ASSUME OneListenerOnly PROVE Safe => []EndsForCause
<1>1. Init => CauseInv
  BY TypeInit DEF Init, Each, CauseInv, CauseOf
<1>2. Safe => []CauseInv
  BY <1>1, CauseStep, PTL DEF Safe
<1>3. CauseInv => EndsForCause
  BY DEF CauseInv, CauseOf, EndsForCause
<1> QED
  BY <1>2, <1>3, PTL

-----------------------------------------------------------------------------
(* Ctrl-C                                                                  *)

LEMMA CtrlCListener ==
  ASSUME TypeInv, ~OtherThreads, NEW l \in Listeners, NEW m \in Listeners, CtrlCOf(m),
         BotReceives(l) \/ CallRun(l) \/ SetNumThreads(l) \/ Stop(l)
           \/ Runs(l) \/ ReplyUpdates(l) \/ Worker(l) \/ Fails(l)
  PROVE  CtrlCOf(m)'
<1>0. /\ pc \in [Listeners -> Locations]
      /\ keep_running \in [Listeners -> BOOLEAN] /\ keep_running_global \in BOOLEAN
      /\ sinceStop \in [Listeners -> -1..2] /\ sinceStopAll \in [Listeners -> -1..2]
      /\ disarmed \in [Listeners -> BOOLEAN]
  BY DEF TypeInv, TypeOK, RunTypeOK, ControlTypeOK, HistoryTypeOK
<1> USE <1>0, PollListenerAssumption DEF At, Goto, Serving, Locations
<1>1. CASE BotReceives(l)
  BY <1>1 DEF BotReceives, CtrlCOf
<1>2. CASE CallRun(l)
  BY <1>2 DEF CallRun, CtrlCOf
<1>3. CASE SetNumThreads(l)
  BY <1>3 DEF SetNumThreads, CtrlCOf
<1>4. CASE Stop(l)
  BY <1>4 DEF Stop, CtrlCOf
<1>5. CASE ArmGlobal(l)
  BY <1>5 DEF ArmGlobal, CtrlCOf
<1>6. CASE InstallHandler(l)
  BY <1>6 DEF InstallHandler, CtrlCOf
<1>7. CASE FlagHandler(l)
  BY <1>7 DEF FlagHandler, CtrlCOf
<1>8. CASE SpawnThread(l)
  BY <1>8 DEF SpawnThread, CtrlCOf
<1>9. CASE LeaveSpawnBlock(l)
  BY <1>9 DEF LeaveSpawnBlock, CtrlCOf
<1>10. CASE TestOwn(l)
  BY <1>10 DEF TestOwn, CtrlCOf
<1>11. CASE TestGlobal(l)
  BY <1>11 DEF TestGlobal, CtrlCOf
<1>12. CASE SendRequest(l)
  BY <1>12 DEF SendRequest, Counted, CtrlCOf
<1>13. CASE HoldExpires(l)
  BY <1>13 DEF HoldExpires, CtrlCOf
<1>14. CASE ReplyEmpty(l)
  BY <1>14 DEF ReplyEmpty, CtrlCOf
<1>15. CASE ReadTimesOut(l)
  BY <1>15 DEF ReadTimesOut, Excuse, CtrlCOf
<1>16. CASE ExecuteInline(l)
  BY <1>16 DEF ExecuteInline, TakeUpdate, CtrlCOf
<1>17. CASE PostToPool(l)
  BY <1>17 DEF PostToPool, TakeUpdate, CtrlCOf
<1>18. CASE CallbacksReturn(l)
  BY <1>18 DEF CallbacksReturn, CtrlCOf
<1>19. CASE EndOfBatch(l)
  BY <1>19 DEF EndOfBatch, CtrlCOf
<1>20. CASE Fault(l)
  BY <1>20 DEF Fault, ClearGlobal, CtrlCOf
<1>21. CASE RestoreHandler(l)
  BY <1>21 DEF RestoreHandler, CtrlCOf
<1>22. CASE Unflag(l)
  BY <1>22 DEF Unflag, CtrlCOf
<1>23. CASE StopContext(l)
  BY <1>23 DEF StopContext, CtrlCOf
<1>24. CASE Join(l)
  BY <1>24 DEF Join, Unwind, Die, Each, LeaveRun, CtrlCOf
<1>25. CASE ReplyUpdates(l)
  BY <1>25 DEF ReplyUpdates, Reply, CtrlCOf
<1>26. CASE Worker(l)
  BY <1>26 DEF Worker, WorkerRuns, CtrlCOf
<1>27. CASE SpawnFails(l)
  BY <1>27 DEF SpawnFails, Unwind, Die, Each, LeaveRun, CtrlCOf
<1>28. CASE PollFails(l)
  BY <1>28 DEF PollFails, Excuse, CtrlCOf
<1>29. CASE ReplyDamaged(l)
  BY <1>29 DEF ReplyDamaged, Reply, CtrlCOf
<1>30. CASE ReplyNoResult(l)
  BY <1>30 DEF ReplyNoResult, CtrlCOf
<1>31. CASE CallbackThrows(l)
  BY <1>31 DEF CallbackThrows, Unwind, Die, Each, LeaveRun, CtrlCOf
<1>32. CASE ItemThrows(l)
  BY <1>32 DEF ItemThrows, Excuse, CtrlCOf
<1>33. CASE ItemAborts(l)
  BY <1>33 DEF ItemAborts, Die, Each, CtrlCOf
<1> QED
  BY <1>1, <1>2, <1>3, <1>4, <1>5, <1>6, <1>7, <1>8, <1>9, <1>10, <1>11,
     <1>12, <1>13, <1>14, <1>15, <1>16, <1>17, <1>18, <1>19, <1>20,
     <1>21, <1>22, <1>23, <1>24, <1>25, <1>26, <1>27, <1>28, <1>29,
     <1>30, <1>31, <1>32, <1>33
     DEF Runs, Fails

LEMMA CtrlCStep ==
  ASSUME ~OtherThreads PROVE CtrlCInv /\ [Next]_vars => CtrlCInv'
<1> SUFFICES ASSUME CtrlCInv, [Next]_vars, NEW m \in Listeners PROVE CtrlCOf(m)'
  BY TypeStep DEF CtrlCInv
<1>0. /\ TypeInv /\ CtrlCOf(m)
      /\ pc \in [Listeners -> Locations]
      /\ sinceStop \in [Listeners -> -1..2] /\ sinceStopAll \in [Listeners -> -1..2]
      /\ disarmed \in [Listeners -> BOOLEAN]
  BY DEF CtrlCInv, TypeInv, TypeOK, RunTypeOK, HistoryTypeOK
<1>1. ASSUME NEW l \in Listeners,
             BotReceives(l) \/ CallRun(l) \/ SetNumThreads(l) \/ Stop(l)
               \/ Runs(l) \/ ReplyUpdates(l) \/ Worker(l) \/ Fails(l)
      PROVE  CtrlCOf(m)'
  BY <1>1, <1>0, CtrlCListener DEF CtrlCInv
<1>2. CASE StopAll
  BY <1>2, <1>0 DEF StopAll, ClearGlobal, Excuse, CtrlCOf, Serving, Locations
<1>3. CASE SigintHandled
  BY <1>3, <1>0 DEF SigintHandled, Disarm, CtrlCOf, Serving, Locations
<1>4. CASE SigintKills
  BY <1>4, <1>0 DEF SigintKills, Die, Each, CtrlCOf, Serving, Locations
<1>5. CASE HandlerStops
  BY <1>5, <1>0 DEF HandlerStops, ClearGlobal, Excuse, CtrlCOf, Serving, Locations
<1>6. CASE HandlerRestores
  BY <1>6, <1>0 DEF HandlerRestores, CtrlCOf, Serving, Locations
<1>7. CASE HandlerUnflags
  BY <1>7, <1>0 DEF HandlerUnflags, CtrlCOf, Serving, Locations
<1>8. CASE Crash
  BY <1>8, <1>0 DEF Crash, Die, Each, CtrlCOf, Serving, Locations
<1>9. CASE Restart
  BY <1>9, <1>0 DEF Restart, CtrlCOf, Serving, Locations
<1>10. CASE UNCHANGED vars
  BY <1>10, <1>0 DEF CtrlCOf, Serving, Locations
<1>11. CASE SetSignalHandler
  BY <1>11, <1>0 DEF SetSignalHandler, CtrlCOf, Serving, Locations
<1>12. CASE UnsetSignalHandler
  BY <1>12, <1>0 DEF UnsetSignalHandler, Disarm, CtrlCOf, Serving, Locations
<1>13. CASE SetFlag
  BY <1>13, <1>0 DEF SetFlag, CtrlCOf, Serving, Locations
<1> QED
  BY <1>1, <1>2, <1>3, <1>4, <1>5, <1>6, <1>7, <1>8, <1>9, <1>10, <1>11, <1>12, <1>13
     DEF Next, Handler

(* A step of a listener that does not unwind its run leaves the process alive. *)
LEMMA KeepsAlive ==
  ASSUME NEW l \in Listeners,
         BotReceives(l) \/ CallRun(l) \/ SetNumThreads(l) \/ Stop(l)
           \/ Runs(l) \/ ReplyUpdates(l) \/ Worker(l) \/ Fails(l),
         ~(Join(l) \/ SpawnFails(l) \/ CallbackThrows(l) \/ ItemAborts(l))
  PROVE  death' = death
<1>1. CASE BotReceives(l) \/ CallRun(l) \/ SetNumThreads(l) \/ Stop(l)
  BY <1>1 DEF BotReceives, CallRun, SetNumThreads, Stop
<1>2. CASE \/ ArmGlobal(l) \/ InstallHandler(l) \/ FlagHandler(l)
           \/ SpawnThread(l) \/ LeaveSpawnBlock(l)
  BY <1>2 DEF ArmGlobal, InstallHandler, FlagHandler, SpawnThread, LeaveSpawnBlock
<1>3. CASE \/ TestOwn(l) \/ TestGlobal(l) \/ SendRequest(l) \/ HoldExpires(l)
           \/ ReplyEmpty(l) \/ ReadTimesOut(l)
  BY <1>3 DEF TestOwn, TestGlobal, SendRequest, HoldExpires, ReplyEmpty, ReadTimesOut
<1>4. CASE \/ ExecuteInline(l) \/ PostToPool(l) \/ CallbacksReturn(l)
           \/ EndOfBatch(l) \/ ItemThrows(l) \/ Fault(l)
  BY <1>4 DEF ExecuteInline, PostToPool, CallbacksReturn, EndOfBatch, ItemThrows, Fault
<1>5. CASE RestoreHandler(l) \/ Unflag(l) \/ StopContext(l)
  BY <1>5 DEF RestoreHandler, Unflag, StopContext
<1>6. CASE ReplyUpdates(l) \/ ReplyDamaged(l) \/ ReplyNoResult(l) \/ PollFails(l)
  BY <1>6 DEF ReplyUpdates, ReplyDamaged, Reply, ReplyNoResult, PollFails
<1>7. CASE Worker(l)
  BY <1>7 DEF Worker, WorkerRuns
<1> QED
  BY <1>1, <1>2, <1>3, <1>4, <1>5, <1>6, <1>7 DEF Runs, Fails

(* Nothing else ends the process this way.                                 *)
LEMMA OnlySigint ==
  ASSUME Next, death' = "sigint", death = "none" PROVE SigintKills
<1>1. ASSUME NEW l \in Listeners,
             BotReceives(l) \/ CallRun(l) \/ SetNumThreads(l) \/ Stop(l)
               \/ Runs(l) \/ ReplyUpdates(l) \/ Worker(l) \/ Fails(l)
      PROVE  FALSE
  <2>1. CASE Join(l) \/ SpawnFails(l) \/ CallbackThrows(l) \/ ItemAborts(l)
    BY <2>1 DEF Join, SpawnFails, CallbackThrows, ItemAborts, Unwind, LeaveRun, Die
  <2> QED
    BY <1>1, <2>1, KeepsAlive
<1>2. ~(StopAll \/ SigintHandled \/ Handler \/ Restart)
  BY DEF StopAll, SigintHandled, Handler, HandlerStops, HandlerRestores,
         HandlerUnflags, Restart
<1>4. ~(SetSignalHandler \/ UnsetSignalHandler \/ SetFlag)
  BY DEF SetSignalHandler, UnsetSignalHandler, SetFlag
<1>3. ~Crash
  BY DEF Crash, Die
<1> QED
  BY <1>1, <1>2, <1>3, <1>4 DEF Next

\* In a process with one thread, ctrl-c ends it at once only outside the loop or after
\* a first one, of which the loop has been told.
THEOREM CtrlCGraceful == ASSUME ~OtherThreads PROVE Safe => CtrlCIsGraceful
<1>1. Init => CtrlCInv
  BY TypeInit DEF Init, Each, CtrlCInv, CtrlCOf, Serving
<1>2. Safe => []CtrlCInv
  BY <1>1, CtrlCStep, PTL DEF Safe
<1> DEFINE Kill == death' = "sigint" /\ death = "none" =>
                     \A l \in Listeners : pc[l] \in Serving => disarmed[l]
<1>3. CtrlCInv /\ [Next]_vars => [Kill]_vars
  <2> SUFFICES ASSUME CtrlCInv, Next, death' = "sigint", death = "none",
                      NEW l \in Listeners, pc[l] \in Serving
               PROVE  disarmed[l]
    OBVIOUS
  <2>1. SigintKills
    BY OnlySigint
  <2> QED
    BY <2>1 DEF SigintKills, CtrlCInv, CtrlCOf
<1> QED
  BY <1>2, <1>3, PTL DEF Safe, CtrlCIsGraceful

-----------------------------------------------------------------------------
(* The threads of the pool                                                 *)

\* Unless the program changed num_threads in this run, a run with one thread has made
\* none, before its loop and in it; and it is in a callback only if it has one.
JoinedOf(l) ==
  /\ pc[l] \in {"idle", "arm", "install", "flag"} => threads[l] = <<>>
  /\ pc[l] = "spawn" => num_threads[l] # 1
  /\ pc[l] # "spawn" /\ ~changed[l] /\ num_threads[l] = 1 => threads[l] = <<>>
  /\ pc[l] = "callback" /\ ~changed[l] => num_threads[l] = 1

JoinedInv == TypeInv /\ \A l \in Listeners : JoinedOf(l)

LEMMA JoinedUnwind ==
  ASSUME TypeInv, NEW l \in Listeners, NEW m \in Listeners, JoinedOf(m),
         NEW unjoined, Unwind(l, unjoined)
  PROVE  JoinedOf(m)'
<1>0. /\ pc \in [Listeners -> Locations]
      /\ threads \in [Listeners -> Seq({"running", "returned"})]
      /\ changed \in [Listeners -> BOOLEAN]
  BY DEF TypeInv, TypeOK, RunTypeOK, PoolTypeOK, HistoryTypeOK
<1>1. CASE unjoined # <<>>
  BY <1>1 DEF Unwind, Die, Each, JoinedOf
<1>2. CASE unjoined = <<>>
  <2>1. LeaveRun(l)
    BY <1>2 DEF Unwind
  <2>2. CASE m = l
    BY <1>0, <2>1, <2>2 DEF LeaveRun, Goto, JoinedOf
  <2>3. CASE m # l
    BY <1>0, <2>1, <2>3 DEF LeaveRun, Goto, JoinedOf
  <2> QED
    BY <2>2, <2>3
<1> QED
  BY <1>1, <1>2

LEMMA JoinedListener ==
  ASSUME TypeInv, NEW l \in Listeners, NEW m \in Listeners, JoinedOf(m),
         BotReceives(l) \/ CallRun(l) \/ SetNumThreads(l) \/ Stop(l)
           \/ Runs(l) \/ ReplyUpdates(l) \/ Worker(l) \/ Fails(l)
  PROVE  JoinedOf(m)'
<1>0. /\ pc \in [Listeners -> Locations]
      /\ num_threads \in [Listeners -> Nat \ {0}]
      /\ threads \in [Listeners -> Seq({"running", "returned"})]
      /\ changed \in [Listeners -> BOOLEAN]
  BY DEF TypeInv, TypeOK, RunTypeOK, PoolTypeOK, HistoryTypeOK
<1> USE <1>0 DEF At, Goto
<1>1. CASE BotReceives(l)
  BY <1>1 DEF BotReceives, JoinedOf
<1>2. CASE CallRun(l)
  BY <1>2 DEF CallRun, JoinedOf
<1>3. CASE SetNumThreads(l)
  BY <1>3 DEF SetNumThreads, JoinedOf
<1>4. CASE Stop(l)
  BY <1>4 DEF Stop, JoinedOf
<1>5. CASE ArmGlobal(l)
  BY <1>5 DEF ArmGlobal, JoinedOf
<1>6. CASE InstallHandler(l)
  BY <1>6 DEF InstallHandler, JoinedOf
<1>7. CASE FlagHandler(l)
  BY <1>7 DEF FlagHandler, JoinedOf
<1>8. CASE SpawnThread(l)
  BY <1>8 DEF SpawnThread, JoinedOf
<1>9. CASE LeaveSpawnBlock(l)
  BY <1>9 DEF LeaveSpawnBlock, JoinedOf
<1>10. CASE TestOwn(l)
  BY <1>10 DEF TestOwn, JoinedOf
<1>11. CASE TestGlobal(l)
  BY <1>11 DEF TestGlobal, JoinedOf
<1>12. CASE SendRequest(l)
  BY <1>12 DEF SendRequest, JoinedOf
<1>13. CASE HoldExpires(l)
  BY <1>13 DEF HoldExpires, JoinedOf
<1>14. CASE ReplyEmpty(l)
  BY <1>14 DEF ReplyEmpty, JoinedOf
<1>15. CASE ReadTimesOut(l)
  BY <1>15 DEF ReadTimesOut, Excuse, JoinedOf
<1>16. CASE ExecuteInline(l)
  BY <1>16 DEF ExecuteInline, TakeUpdate, JoinedOf
<1>17. CASE PostToPool(l)
  BY <1>17 DEF PostToPool, TakeUpdate, JoinedOf
<1>18. CASE CallbacksReturn(l)
  BY <1>18 DEF CallbacksReturn, JoinedOf
<1>19. CASE EndOfBatch(l)
  BY <1>19 DEF EndOfBatch, JoinedOf
<1>20. CASE Fault(l)
  BY <1>20 DEF Fault, JoinedOf
<1>21. CASE RestoreHandler(l)
  BY <1>21 DEF RestoreHandler, JoinedOf
<1>22. CASE Unflag(l)
  BY <1>22 DEF Unflag, JoinedOf
<1>23. CASE StopContext(l)
  BY <1>23 DEF StopContext, JoinedOf
<1>24. CASE Join(l)
  BY <1>24, JoinedUnwind DEF Join
<1>25. CASE ReplyUpdates(l)
  BY <1>25 DEF ReplyUpdates, Reply, JoinedOf
<1>26. CASE Worker(l)
  <2>1. PICK i \in DOMAIN threads[l] : WorkerRuns(l, i)
    BY <1>26 DEF Worker
  <2>2. threads'[m] = <<>> <=> threads[m] = <<>>
    BY <2>1 DEF WorkerRuns
  <2> QED
    BY <2>1, <2>2 DEF WorkerRuns, JoinedOf
<1>27. CASE SpawnFails(l)
  BY <1>27, JoinedUnwind DEF SpawnFails
<1>28. CASE PollFails(l)
  BY <1>28 DEF PollFails, JoinedOf
<1>29. CASE ReplyDamaged(l)
  BY <1>29 DEF ReplyDamaged, Reply, JoinedOf
<1>30. CASE ReplyNoResult(l)
  BY <1>30 DEF ReplyNoResult, JoinedOf
<1>31. CASE CallbackThrows(l)
  BY <1>31, JoinedUnwind DEF CallbackThrows
<1>32. CASE ItemThrows(l)
  BY <1>32 DEF ItemThrows, JoinedOf
<1>33. CASE ItemAborts(l)
  BY <1>33 DEF ItemAborts, Die, Each, JoinedOf
<1> QED
  BY <1>1, <1>2, <1>3, <1>4, <1>5, <1>6, <1>7, <1>8, <1>9, <1>10, <1>11,
     <1>12, <1>13, <1>14, <1>15, <1>16, <1>17, <1>18, <1>19, <1>20,
     <1>21, <1>22, <1>23, <1>24, <1>25, <1>26, <1>27, <1>28, <1>29,
     <1>30, <1>31, <1>32, <1>33
     DEF Runs, Fails

LEMMA JoinedStep ==
  JoinedInv /\ [Next]_vars => JoinedInv'
<1> SUFFICES ASSUME JoinedInv, [Next]_vars, NEW m \in Listeners PROVE JoinedOf(m)'
  BY TypeStep DEF JoinedInv
<1>0. TypeInv /\ JoinedOf(m)
  BY DEF JoinedInv
<1>1. ASSUME NEW l \in Listeners,
             BotReceives(l) \/ CallRun(l) \/ SetNumThreads(l) \/ Stop(l)
               \/ Runs(l) \/ ReplyUpdates(l) \/ Worker(l) \/ Fails(l)
      PROVE  JoinedOf(m)'
  BY <1>0, <1>1, JoinedListener
<1>2. CASE SigintKills \/ Crash
  BY <1>2 DEF SigintKills, Crash, Die, Each, JoinedOf
<1>3. CASE StopAll \/ SigintHandled \/ Restart
  BY <1>0, <1>3 DEF StopAll, SigintHandled, Restart, JoinedOf
<1>4. CASE Handler
  BY <1>0, <1>4 DEF Handler, HandlerStops, HandlerRestores, HandlerUnflags, JoinedOf
<1>5. CASE SetSignalHandler \/ UnsetSignalHandler \/ SetFlag
  BY <1>0, <1>5 DEF SetSignalHandler, UnsetSignalHandler, SetFlag, JoinedOf
<1>6. CASE UNCHANGED vars
  BY <1>0, <1>6 DEF JoinedOf
<1> QED
  BY <1>1, <1>2, <1>3, <1>4, <1>5, <1>6 DEF Next

(* Only the unwinding of a run ends the process this way.                  *)
LEMMA OnlyUnwind ==
  ASSUME JoinedInv, Next, death' = "terminate", death = "none"
  PROVE  \E l \in Listeners : pc[l] = "spawn" \/ changed[l]
<1>1. ASSUME NEW l \in Listeners,
             BotReceives(l) \/ CallRun(l) \/ SetNumThreads(l) \/ Stop(l)
               \/ Runs(l) \/ ReplyUpdates(l) \/ Worker(l) \/ Fails(l)
      PROVE  pc[l] = "spawn" \/ changed[l]
  <2>0. JoinedOf(l)
    BY DEF JoinedInv
  <2>1. CASE SpawnFails(l)
    BY <2>1 DEF SpawnFails, At
  <2>2. CASE Join(l)
    <3>1. num_threads[l] = 1 /\ threads[l] # <<>> /\ pc[l] = "join"
      BY <2>2 DEF Join, At, Unwind, LeaveRun
    <3> QED
      BY <2>0, <3>1 DEF JoinedOf
  <2>3. CASE CallbackThrows(l)
    <3>1. threads[l] # <<>> /\ pc[l] = "callback"
      BY <2>3 DEF CallbackThrows, At, Unwind, LeaveRun
    <3> QED
      BY <2>0, <3>1 DEF JoinedOf
  <2>4. ~ItemAborts(l)
    BY DEF ItemAborts, Die
  <2>5. CASE ~(Join(l) \/ SpawnFails(l) \/ CallbackThrows(l))
    BY <1>1, <2>4, <2>5, KeepsAlive
  <2> QED
    BY <2>1, <2>2, <2>3, <2>5
<1>2. ~(StopAll \/ SigintHandled \/ Handler \/ Restart)
  BY DEF StopAll, SigintHandled, Handler, HandlerStops, HandlerRestores,
         HandlerUnflags, Restart
<1>3. ~(SetSignalHandler \/ UnsetSignalHandler \/ SetFlag)
  BY DEF SetSignalHandler, UnsetSignalHandler, SetFlag
<1>4. ~(Crash \/ SigintKills)
  BY DEF Crash, SigintKills, Die
<1> QED
  BY <1>1, <1>2, <1>3, <1>4 DEF Next

\* The threads of a pool are joined on every way out of run(), except when one of them
\* cannot be made and when the program changes their number under the run.
THEOREM PoolIsJoined == Safe => ThreadsAreJoined
<1>1. Init => JoinedInv
  BY TypeInit DEF Init, Each, JoinedInv, JoinedOf
<1>2. Safe => []JoinedInv
  BY <1>1, JoinedStep, PTL DEF Safe
<1> DEFINE Terminates == death = "none" /\ death' = "terminate" =>
                           \E l \in Listeners : pc[l] = "spawn" \/ changed[l]
<1>3. JoinedInv /\ [Next]_vars => [Terminates]_vars
  BY OnlyUnwind
<1> QED
  BY <1>2, <1>3, PTL DEF Safe, ThreadsAreJoined

-----------------------------------------------------------------------------
(* The pool never works.                                                   *)

\* A run has no threads until it makes them, and nothing to do for them while it does;
\* from then on, for the guard was all the work there was, the context is stopped.
PoolOf(l) ==
  /\ pc[l] \in {"idle", "arm", "install", "flag"} => threads[l] = <<>>
  /\ pc[l] = "spawn" => context[l].queue = <<>>
  /\ threads[l] # <<>> => pc[l] = "spawn" \/ context[l].stopped

PoolInv == TypeInv /\ \A l \in Listeners : PoolOf(l)

LEMMA PoolUnwinds ==
  ASSUME TypeInv, NEW l \in Listeners, NEW m \in Listeners, PoolOf(m),
         NEW unjoined, Unwind(l, unjoined)
  PROVE  PoolOf(m)'
<1>0. /\ pc \in [Listeners -> Locations] /\ context \in [Listeners -> Contexts(Nat)]
      /\ threads \in [Listeners -> Seq({"running", "returned"})]
  BY DEF TypeInv, TypeOK, RunTypeOK, PoolTypeOK
<1>1. CASE unjoined # <<>>
  BY <1>1 DEF Unwind, Die, Each, PoolOf
<1>2. CASE unjoined = <<>>
  BY <1>0, <1>2 DEF Unwind, LeaveRun, Goto, PoolOf
<1> QED
  BY <1>1, <1>2

\* The steps that do not touch the pool.
LEMMA PoolUntouched ==
  ASSUME TypeInv, NEW l \in Listeners, NEW m \in Listeners, PoolOf(m),
         \/ BotReceives(l) \/ CallRun(l) \/ SetNumThreads(l) \/ Stop(l)
         \/ ArmGlobal(l) \/ InstallHandler(l) \/ TestOwn(l) \/ TestGlobal(l)
         \/ SendRequest(l) \/ HoldExpires(l) \/ ReplyEmpty(l) \/ ReadTimesOut(l)
         \/ ExecuteInline(l) \/ CallbacksReturn(l) \/ EndOfBatch(l) \/ Fault(l)
         \/ RestoreHandler(l) \/ Unflag(l) \/ PollFails(l) \/ ReplyNoResult(l)
         \/ ReplyUpdates(l) \/ ReplyDamaged(l) \/ ItemThrows(l)
  PROVE  PoolOf(m)'
<1>0. pc \in [Listeners -> Locations]
  BY DEF TypeInv, TypeOK, RunTypeOK
<1>1. CASE BotReceives(l) \/ CallRun(l) \/ SetNumThreads(l) \/ Stop(l)
  BY <1>0, <1>1 DEF BotReceives, CallRun, SetNumThreads, Stop, At, Goto, PoolOf
<1>2. CASE ArmGlobal(l) \/ InstallHandler(l) \/ TestOwn(l) \/ TestGlobal(l)
  BY <1>0, <1>2 DEF ArmGlobal, InstallHandler, TestOwn, TestGlobal, At, Goto, PoolOf
<1>3. CASE SendRequest(l) \/ HoldExpires(l) \/ ReplyEmpty(l) \/ ReadTimesOut(l)
  BY <1>0, <1>3 DEF SendRequest, HoldExpires, ReplyEmpty, ReadTimesOut, At, Goto, PoolOf
<1>4. CASE ExecuteInline(l) \/ CallbacksReturn(l) \/ EndOfBatch(l) \/ Fault(l)
  BY <1>0, <1>4
     DEF ExecuteInline, TakeUpdate, CallbacksReturn, EndOfBatch, Fault, At, Goto, PoolOf
<1>5. CASE RestoreHandler(l) \/ Unflag(l) \/ PollFails(l) \/ ReplyNoResult(l)
  BY <1>0, <1>5 DEF RestoreHandler, Unflag, PollFails, ReplyNoResult, At, Goto, PoolOf
<1>6. CASE ReplyUpdates(l) \/ ReplyDamaged(l) \/ ItemThrows(l)
  BY <1>0, <1>6 DEF ReplyUpdates, ReplyDamaged, Reply, ItemThrows, At, Goto, PoolOf
<1> QED
  BY <1>1, <1>2, <1>3, <1>4, <1>5, <1>6

\* A thread of the pool can only return.
LEMMA WorkerOnlyReturns ==
  ASSUME NEW l \in Listeners, PoolOf(l), NEW i \in DOMAIN threads[l],
         WorkerRuns(l, i)
  PROVE  /\ threads' = [threads EXCEPT ![l][i] = "returned"]
         /\ UNCHANGED <<pc, context, executed>>
<1>1. RunReturns(context[l]) \/ context[l].queue # <<>>
  BY DEF WorkerRuns
<1>2. threads[l] # <<>>
  OBVIOUS
<1>3. RunReturns(context[l])
  BY <1>1, <1>2 DEF PoolOf, RunReturns
<1> QED
  BY <1>3 DEF WorkerRuns

LEMMA PoolListener ==
  ASSUME TypeInv, NEW l \in Listeners, NEW m \in Listeners, PoolOf(l), PoolOf(m),
         BotReceives(l) \/ CallRun(l) \/ SetNumThreads(l) \/ Stop(l)
           \/ Runs(l) \/ ReplyUpdates(l) \/ Worker(l) \/ Fails(l)
  PROVE  PoolOf(m)'
<1>0. /\ pc \in [Listeners -> Locations] /\ context \in [Listeners -> Contexts(Nat)]
      /\ threads \in [Listeners -> Seq({"running", "returned"})]
  BY DEF TypeInv, TypeOK, RunTypeOK, PoolTypeOK
<1>1. CASE FlagHandler(l)
  <2>1. \A k \in Listeners \ {l} : UNCHANGED <<pc[k], context[k], threads[k]>>
    BY <1>0, <1>1 DEF FlagHandler, At, Goto
  <2>2. /\ threads'[l] = <<>> /\ pc'[l] \in {"head", "spawn"}
        /\ context'[l].queue = <<>>
    <3>1. NewContext.queue = <<>> /\ WorkStarted(NewContext).queue = <<>>
      BY DEF NewContext, WorkStarted
    <3> QED
      BY <1>0, <1>1, <3>1 DEF FlagHandler, At, Goto, PoolOf
  <2> QED
    BY <2>1, <2>2 DEF PoolOf
<1>2. CASE SpawnThread(l)
  <2>1. \A k \in Listeners \ {l} : UNCHANGED threads[k]
    BY <1>0, <1>2 DEF SpawnThread
  <2>2. pc[l] = "spawn" /\ UNCHANGED <<pc, context>>
    BY <1>2 DEF SpawnThread, At
  <2> QED
    BY <2>1, <2>2 DEF PoolOf
<1>3. CASE LeaveSpawnBlock(l)
  <2>1. \A k \in Listeners \ {l} : UNCHANGED <<pc[k], context[k], threads[k]>>
    BY <1>0, <1>3 DEF LeaveSpawnBlock, At, Goto
  <2>2. pc[l] = "spawn" /\ pc'[l] = "head" /\ context'[l] = WorkFinished(context[l])
    BY <1>0, <1>3 DEF LeaveSpawnBlock, At, Goto
  <2>3. context[l].work = 1
    <3>1. context[l].queue = <<>> /\ Accounted(l)
      BY <2>2 DEF PoolOf, TypeInv, WorkIsAccounted
    <3> QED
      BY <2>2, <3>1 DEF Accounted
  <2>4. context'[l].stopped
    <3>1. context[l] \in Contexts(Nat)
      BY <1>0
    <3>2. \A c \in Contexts(Nat) : c.work = 1 => WorkFinished(c).stopped = TRUE
      BY DEF WorkFinished, Contexts
    <3> QED
      BY <2>2, <2>3, <3>1, <3>2
  <2> QED
    BY <2>1, <2>2, <2>4 DEF PoolOf
<1>4. CASE PostToPool(l) \/ StopContext(l)
  <2>1. \A k \in Listeners \ {l} : UNCHANGED <<pc[k], context[k], threads[k]>>
    BY <1>0, <1>4 DEF PostToPool, TakeUpdate, StopContext, At, Goto
  <2>2. /\ pc'[l] \in {"batch", "join"} /\ pc[l] \in {"batch", "stop_context"}
        /\ UNCHANGED threads
    BY <1>0, <1>4 DEF PostToPool, TakeUpdate, StopContext, At, Goto
  <2>3. context[l].stopped => context'[l].stopped
    <3>1. \/ \E h : context'[l] = Posted(context[l], h)
          \/ context'[l] = ContextStopped(context[l])
      BY <1>0, <1>4 DEF PostToPool, StopContext
    <3> QED
      BY <1>0, <3>1 DEF Posted, ContextStopped, Contexts
  <2> QED
    BY <2>1, <2>2, <2>3 DEF PoolOf
<1>5. CASE Worker(l)
  <2>1. PICK i \in DOMAIN threads[l] : WorkerRuns(l, i)
    BY <1>5 DEF Worker
  <2>2. threads' = [threads EXCEPT ![l][i] = "returned"] /\ UNCHANGED <<pc, context>>
    BY <2>1, WorkerOnlyReturns
  <2>3. threads'[m] = <<>> <=> threads[m] = <<>>
    BY <1>0, <2>2
  <2> QED
    BY <2>2, <2>3 DEF PoolOf
<1>6. CASE Join(l) \/ SpawnFails(l) \/ CallbackThrows(l)
  BY <1>6, PoolUnwinds DEF Join, SpawnFails, CallbackThrows
<1>7. CASE ItemAborts(l)
  BY <1>7 DEF ItemAborts, Die, Each, PoolOf
<1> QED
  BY <1>1, <1>2, <1>3, <1>4, <1>5, <1>6, <1>7, PoolUntouched DEF Runs, Fails

LEMMA PoolStep == PoolInv /\ [Next]_vars => PoolInv'
<1> SUFFICES ASSUME PoolInv, [Next]_vars, NEW m \in Listeners PROVE PoolOf(m)'
  BY TypeStep DEF PoolInv
<1>1. ASSUME NEW l \in Listeners,
             BotReceives(l) \/ CallRun(l) \/ SetNumThreads(l) \/ Stop(l)
               \/ Runs(l) \/ ReplyUpdates(l) \/ Worker(l) \/ Fails(l)
      PROVE  PoolOf(m)'
  BY <1>1, PoolListener DEF PoolInv
<1>2. CASE SigintKills \/ Crash
  BY <1>2 DEF SigintKills, Crash, Die, Each, PoolOf
<1>3. CASE \/ StopAll \/ SetSignalHandler \/ UnsetSignalHandler \/ SetFlag
           \/ SigintHandled \/ Handler \/ Restart \/ UNCHANGED vars
  <2>1. UNCHANGED <<pc, context, threads>>
    BY <1>3 DEF StopAll, SetSignalHandler, UnsetSignalHandler, SetFlag, SigintHandled,
                Handler, HandlerStops, HandlerRestores, HandlerUnflags, Restart
  <2> QED
    BY <2>1 DEF PoolInv, PoolOf
<1> QED
  BY <1>1, <1>2, <1>3 DEF Next

LEMMA PoolHolds == Safe => []PoolInv
<1>1. Init => PoolInv
  BY TypeInit DEF Init, Each, PoolInv, PoolOf
<1> QED
  BY <1>1, PoolStep, PTL DEF Safe

\* Only a listener in its callback executes.
LEMMA WhoExecutes ==
  ASSUME PoolInv, [Next]_vars, NEW m \in Listeners, executed'[m] # executed[m]
  PROVE  pc[m] = "callback"
<1>1. ASSUME NEW l \in Listeners, CallbacksReturn(l) PROVE pc[m] = "callback"
  BY <1>1 DEF CallbacksReturn, At, PoolInv, TypeInv, TypeOK, HistoryTypeOK
<1>2. ASSUME NEW l \in Listeners, Worker(l) PROVE FALSE
  BY <1>2, WorkerOnlyReturns DEF Worker, PoolInv
<1>3. ASSUME NEW l \in Listeners,
             Join(l) \/ SpawnFails(l) \/ CallbackThrows(l) \/ ItemAborts(l)
      PROVE  FALSE
  BY <1>3 DEF Join, SpawnFails, CallbackThrows, ItemAborts, Unwind, LeaveRun, Die
<1>4. ASSUME NEW l \in Listeners,
             \/ BotReceives(l) \/ CallRun(l) \/ SetNumThreads(l) \/ Stop(l)
             \/ ReplyUpdates(l) \/ ReplyDamaged(l) \/ PollFails(l) \/ ReplyNoResult(l)
             \/ (Runs(l) /\ ~CallbacksReturn(l) /\ ~Join(l) /\ ~ItemAborts(l))
      PROVE  FALSE
  BY <1>4 DEF BotReceives, CallRun, SetNumThreads, Stop, ReplyUpdates, ReplyDamaged, Reply,
              PollFails, ReplyNoResult, Runs, ArmGlobal, InstallHandler, FlagHandler,
              SpawnThread, LeaveSpawnBlock, TestOwn, TestGlobal, SendRequest, HoldExpires,
              ReplyEmpty, ReadTimesOut, ExecuteInline, PostToPool, EndOfBatch, ItemThrows,
              Fault, RestoreHandler, Unflag, StopContext, ItemDone
<1>5. ~(SigintKills \/ Crash)
  BY DEF SigintKills, Crash, Die
<1>6. ~(\/ StopAll \/ SetSignalHandler \/ UnsetSignalHandler \/ SetFlag
        \/ SigintHandled \/ Handler \/ Restart \/ UNCHANGED vars)
  BY DEF StopAll, SetSignalHandler, UnsetSignalHandler, SetFlag, SigintHandled,
         Handler, HandlerStops, HandlerRestores, HandlerUnflags, Restart
<1> QED
  BY <1>1, <1>2, <1>3, <1>4, <1>5, <1>6 DEF Next, Fails

\* No thread of any pool, of however many threads and at whatever point num_threads is
\* changed, ever executes an update.
THEOREM PoolsAreIdle == Safe => OwnThreadExecutes
<1> DEFINE Own == \A l \in Listeners : executed'[l] # executed[l] => pc[l] = "callback"
<1>1. PoolInv /\ [Next]_vars => [Own]_vars
  BY WhoExecutes
<1> QED
  BY <1>1, PoolHolds, PTL DEF Safe, OwnThreadExecutes

\* Every thread count the program asks for makes a pool.
PoolsOnly == \A n \in ThreadRequests : Resolve(n) # 1

NeverCalls(l) == num_threads[l] # 1 /\ pc[l] # "callback"

LEMMA NeverCallsStep ==
  ASSUME PoolsOnly, TypeInv, [Next]_vars, NEW m \in Listeners, NeverCalls(m)
  PROVE  NeverCalls(m)'
<1>0. /\ pc \in [Listeners -> Locations] /\ num_threads \in [Listeners -> Nat \ {0}]
  BY DEF TypeInv, TypeOK, RunTypeOK
<1>1. num_threads'[m] = num_threads[m] \/ \E n \in ThreadRequests : num_threads'[m] = Resolve(n)
  <2>1. ASSUME NEW l \in Listeners,
               BotReceives(l) \/ CallRun(l) \/ Stop(l) \/ Runs(l)
                 \/ ReplyUpdates(l) \/ Worker(l) \/ Fails(l)
        PROVE  num_threads' = num_threads \/ \E cause : Die(cause)
    BY <2>1 DEF BotReceives, CallRun, Stop, ReplyUpdates, Worker, WorkerRuns, Fails, Reply,
         ReplyDamaged, PollFails, ReplyNoResult, CallbackThrows, SpawnFails, Runs, ArmGlobal,
         InstallHandler, FlagHandler, SpawnThread, LeaveSpawnBlock, TestOwn, TestGlobal,
         SendRequest, HoldExpires, ReplyEmpty, ReadTimesOut, ExecuteInline, PostToPool,
         CallbacksReturn, EndOfBatch, ItemThrows, ItemAborts, Fault, RestoreHandler, Unflag,
         StopContext, Join, Unwind, LeaveRun
  <2>2. ASSUME NEW l \in Listeners, SetNumThreads(l)
        PROVE  \/ num_threads'[m] = num_threads[m]
               \/ \E n \in ThreadRequests : num_threads'[m] = Resolve(n)
    BY <1>0, <2>2 DEF SetNumThreads
  <2>3. ASSUME NEW cause, Die(cause)
        PROVE  \E n \in ThreadRequests : num_threads'[m] = Resolve(n)
    BY <2>3 DEF Die
  <2>4. CASE SigintKills \/ Crash
    BY <2>3, <2>4 DEF SigintKills, Crash
  <2>5. CASE \/ StopAll \/ SetSignalHandler \/ UnsetSignalHandler \/ SetFlag
             \/ SigintHandled \/ Handler \/ Restart \/ UNCHANGED vars
    BY <2>5 DEF StopAll, SetSignalHandler, UnsetSignalHandler, SetFlag, SigintHandled,
                Handler, HandlerStops, HandlerRestores, HandlerUnflags, Restart
  <2> QED
    BY <2>1, <2>2, <2>3, <2>4, <2>5 DEF Next
<1>2. pc'[m] # "callback"
  <2>1. ASSUME NEW l \in Listeners, ExecuteInline(l) PROVE pc'[m] # "callback"
    <3>1. m # l
      BY <2>1 DEF ExecuteInline, NeverCalls
    <3> QED
      BY <1>0, <2>1, <3>1 DEF ExecuteInline, Goto, NeverCalls
  <2>2. ASSUME NEW l \in Listeners,
               \/ BotReceives(l) \/ CallRun(l) \/ SetNumThreads(l) \/ Stop(l)
               \/ ReplyUpdates(l) \/ Worker(l) \/ Fails(l)
               \/ (Runs(l) /\ ~ExecuteInline(l))
        PROVE  pc'[m] # "callback"
    BY <1>0, <2>2 DEF BotReceives, CallRun, Stop, SetNumThreads, ReplyUpdates, Worker,
         WorkerRuns, Fails, Reply, Goto, Die, Each, NeverCalls,
         ReplyDamaged, PollFails, ReplyNoResult, CallbackThrows, SpawnFails, Runs, ArmGlobal,
         InstallHandler, FlagHandler, SpawnThread, LeaveSpawnBlock, TestOwn, TestGlobal,
         SendRequest, HoldExpires, ReplyEmpty, ReadTimesOut, PostToPool, CallbacksReturn,
         EndOfBatch, ItemThrows, ItemAborts, Fault, RestoreHandler, Unflag, StopContext, Join,
         Unwind, LeaveRun
  <2>3. CASE SigintKills \/ Crash
    BY <2>3 DEF SigintKills, Crash, Die, Each
  <2>4. CASE \/ StopAll \/ SetSignalHandler \/ UnsetSignalHandler \/ SetFlag
             \/ SigintHandled \/ Handler \/ Restart \/ UNCHANGED vars
    BY <2>4 DEF StopAll, SetSignalHandler, UnsetSignalHandler, SetFlag, SigintHandled,
                Handler, HandlerStops, HandlerRestores, HandlerUnflags, Restart, NeverCalls
  <2> QED
    BY <2>1, <2>2, <2>3, <2>4 DEF Next
<1> QED
  BY <1>1, <1>2 DEF PoolsOnly, NeverCalls

\* A program that only uses pools executes no update whatever, and its listeners have the
\* server forget them all the same (ListenerImplementsHandover).
THEOREM PoolsExecuteNothing ==
  ASSUME PoolsOnly PROVE Safe => [](\A l \in Listeners : executed[l] = {})
<1> DEFINE Inv == \A l \in Listeners : NeverCalls(l) /\ executed[l] = {}
<1>1. Init => Inv
  <2> SUFFICES ASSUME Init, NEW m \in Listeners PROVE NeverCalls(m) /\ executed[m] = {}
    OBVIOUS
  <2>1. num_threads \in [Listeners -> {Resolve(n) : n \in ThreadRequests}]
    BY DEF Init
  <2>2. PICK n \in ThreadRequests : num_threads[m] = Resolve(n)
    BY <2>1
  <2> QED
    BY <2>2 DEF PoolsOnly, Init, Each, NeverCalls
<1>2. PoolInv /\ Inv /\ [Next]_vars => Inv'
  <2> SUFFICES ASSUME PoolInv, Inv, [Next]_vars, NEW m \in Listeners
               PROVE  NeverCalls(m)' /\ executed'[m] = {}
    OBVIOUS
  <2>1. NeverCalls(m)'
    BY NeverCallsStep DEF PoolInv
  <2>2. executed'[m] = executed[m]
    BY WhoExecutes DEF NeverCalls
  <2> QED
    BY <2>1, <2>2
<1>3. Inv => \A l \in Listeners : executed[l] = {}
  OBVIOUS
<1> QED
  BY <1>1, <1>2, <1>3, PoolHolds, PTL DEF Safe
=============================================================================
