---------------------------- MODULE PollListener ----------------------------
(***************************************************************************)
(* The polling listener (listeners/poll.h): poll::run of any number of     *)
(* poll objects in one process, each on a thread of its own; stop() and    *)
(* stop_all(); the SIGINT handler, which runs on any thread; the worker     *)
(* threads of the pool; and the death and restart of the process.          *)
(*                                                                         *)
(* A reply to getUpdates is the interval todo..upto of the ids still to be *)
(* gone through whole, and what there is of an item broken off behind them. *)
(* What one update does to the callbacks is module Callbacks: here          *)
(* execute_callbacks returns, or lets an exception escape that is not a     *)
(* std::exception.                                                         *)
(***************************************************************************)
EXTENDS Telegram, IoContext

CONSTANTS ThreadRequests,  \* values the program gives to set_num_threads
          Cores,           \* std::thread::hardware_concurrency()
          SetsHandlers,    \* whether the program calls set_ and unset_signal_handler()
          OtherThreads     \* FALSE: the listener's thread is the only one of the
                           \* process, so a signal handler runs to its end first

\* base::set_num_threads: 0 asks for one thread per core.
Resolve(n) == IF n # 0 THEN n ELSE IF Cores = 0 THEN 1 ELSE Cores

ASSUME PollListenerAssumption ==
  /\ ThreadRequests \subseteq Nat /\ ThreadRequests # {}
  /\ Cores \in Nat
  /\ SetsHandlers \in BOOLEAN
  /\ OtherThreads \in BOOLEAN
  /\ ~OtherThreads => /\ \A n \in ThreadRequests : Resolve(n) = 1
                      /\ \A l, m \in Listeners : l = m

VARIABLES
  death,          \* what ended the process; "none" while it is alive
  pc,             \* pc[l]: where the thread of l is in poll::run
  num_threads, offset,
  todo, upto, tail,               \* the reply being gone through
  context, threads,               \* run's io_context and the thread pool
  keep_running, keep_running_global,
  sigaction,                      \* disposition of SIGINT
  signal_handler_is_set,
  handling,                       \* where the signal handler is, if it is running
  calling                         \* the program's call of set_ or unset_signal_handler()

(* History: what the properties speak about and the program does not store. *)
VARIABLES
  executed,       \* executed[l]: updates whose callbacks have returned, in any run
  missed,         \* missed[l]: updates never executed but taken, since their item broke off
                  \* behind its id, so that callbacks got a part of them or nothing: in
                  \* this run, or in one before that has acknowledged them
  last,           \* last[l]: the last update of which this run was done: its callbacks
                  \* have returned, or it was posted to the pool
  count,          \* count[l]: how many of them there were in this run
  sinceStop,      \* requests sent since stop() was called in this run; -1: it was not
  sinceStopAll,   \* the same of stop_all()
  disarmed,       \* since the handler was installed by this run it was entered, or
                  \* the program removed it
  changed,        \* set_num_threads() was called during this run
  excused         \* something happened in this run that is to end it

reply   == <<todo, upto, tail>>
pool    == <<context, threads>>
flags   == <<keep_running, keep_running_global>>
handlers == <<handling, calling>>
signals == <<sigaction, signal_handler_is_set, handlers>>
outcome == <<executed, missed>>
seen    == <<last, count>>
asked   == <<sinceStop, sinceStopAll>>
marks   == <<disarmed, changed>>
history == <<outcome, seen, asked, marks, excused>>
process == <<death, num_threads>>

vars == <<server, process, pc, offset, reply, pool, flags, signals, history>>

Locations == {"idle", "arm", "install", "flag", "spawn", "head", "test_global",
              "send", "polling", "expired", "batch", "callback", "fault",
              "restore", "unflag", "stop_context", "join"}

\* From the installation of the handler to its removal at the end of run().
Serving == Locations \ {"idle", "arm", "install", "unflag", "stop_context", "join"}

\* What has arrived of the item behind the last whole one: nothing, its brace, its key
\* "update_id", some of the digits of its id, or the id and perhaps more.
Tails == {"none", "brace", "key", "digits", "id"}

RunTypeOK == /\ pc \in [Listeners -> Locations]
             /\ num_threads \in [Listeners -> Nat \ {0}]
             /\ offset \in [Listeners -> Nat]
             /\ todo \in [Listeners -> Nat]
             /\ upto \in [Listeners -> Nat]
             /\ tail \in [Listeners -> Tails]

PoolTypeOK == /\ context \in [Listeners -> Contexts(Nat)]
              /\ threads \in [Listeners -> Seq({"running", "returned"})]

ControlTypeOK == /\ death \in {"none", "crash", "sigint", "terminate"}
                 /\ keep_running \in [Listeners -> BOOLEAN]
                 /\ keep_running_global \in BOOLEAN
                 /\ sigaction \in {"default", "handler"}
                 /\ signal_handler_is_set \in BOOLEAN
                 /\ handling \in {"none", "stop_all", "restore", "unflag"}
                 /\ calling \in {"none", "set", "unset"}

HistoryTypeOK == /\ executed \in [Listeners -> SUBSET Nat]
                 /\ missed \in [Listeners -> SUBSET Nat]
                 /\ last \in [Listeners -> Nat]
                 /\ count \in [Listeners -> Nat]
                 /\ sinceStop \in [Listeners -> -1..2]
                 /\ sinceStopAll \in [Listeners -> -1..2]
                 /\ disarmed \in [Listeners -> BOOLEAN]
                 /\ changed \in [Listeners -> BOOLEAN]
                 /\ excused \in [Listeners -> BOOLEAN]

TypeOK == ServerTypeOK /\ RunTypeOK /\ PoolTypeOK /\ ControlTypeOK /\ HistoryTypeOK

-----------------------------------------------------------------------------
(* The process starts: static and default initialisation of the members,   *)
(* the program's calls of set_num_threads before run().                    *)

Each(v) == [l \in Listeners |-> v]

Init ==
  /\ ServerInit
  /\ death = "none"
  /\ executed = Each({}) /\ missed = Each({})
  /\ pc = Each("idle")
  /\ num_threads \in [Listeners -> {Resolve(n) : n \in ThreadRequests}]
  /\ offset = Each(0)
  /\ todo = Each(0) /\ upto = Each(0) /\ tail = Each("none")
  /\ context = Each(NewContext) /\ threads = Each(<<>>)
  /\ keep_running = Each(FALSE) /\ keep_running_global = FALSE
  /\ sigaction = "default" /\ signal_handler_is_set = FALSE
  /\ handling = "none" /\ calling = "none"
  /\ last = Each(0) /\ count = Each(0)
  /\ sinceStop = Each(-1) /\ sinceStopAll = Each(-1)
  /\ disarmed = Each(FALSE) /\ changed = Each(FALSE) /\ excused = Each(FALSE)

\* What the server will send again is not missed for good.
Acknowledged(l) == missed[l] \cap 1..confirmed[l]

\* The process ends; of what it held in memory nothing is left, and this is what
\* it will start from.
Die(cause) ==
  /\ death' = cause
  /\ UNCHANGED <<server, executed>>
  /\ missed' = [l \in Listeners |-> Acknowledged(l)]
  /\ pc' = Each("idle")
  /\ num_threads' \in [Listeners -> {Resolve(n) : n \in ThreadRequests}]
  /\ offset' = Each(0)
  /\ todo' = Each(0) /\ upto' = Each(0) /\ tail' = Each("none")
  /\ context' = Each(NewContext) /\ threads' = Each(<<>>)
  /\ keep_running' = Each(FALSE) /\ keep_running_global' = FALSE
  /\ sigaction' = "default" /\ signal_handler_is_set' = FALSE
  /\ handling' = "none" /\ calling' = "none"
  /\ last' = Each(0) /\ count' = Each(0)
  /\ sinceStop' = Each(-1) /\ sinceStopAll' = Each(-1)
  /\ disarmed' = Each(FALSE) /\ changed' = Each(FALSE) /\ excused' = Each(FALSE)

At(l, location) == /\ death = "none"
                   /\ OtherThreads \/ (handling = "none" /\ calling = "none")
                   /\ pc[l] = location

Goto(l, location) == pc' = [pc EXCEPT ![l] = location]

\* A stop that reaches a run which has set the flag it clears is on record.
ClearGlobal ==
  /\ keep_running_global' = FALSE
  /\ sinceStopAll' = [l \in Listeners |->
       IF pc[l] \notin {"idle", "arm"} /\ sinceStopAll[l] = -1 THEN 0 ELSE sinceStopAll[l]]

\* Something that is to end the runs under way.
Excuse == excused' = [l \in Listeners |-> excused[l] \/ pc[l] # "idle"]

\* The listeners in their loops can no longer rely on the handler.
Disarm == disarmed' = [l \in Listeners |-> disarmed[l] \/ pc[l] \in Serving]

\* reply_tree is destroyed.
DropReply(l) == /\ todo' = [todo EXCEPT ![l] = 0]
                /\ upto' = [upto EXCEPT ![l] = 0]
                /\ tail' = [tail EXCEPT ![l] = "none"]

\* run() returns: its locals are destroyed.
LeaveRun(l) ==
  /\ Goto(l, "idle")
  /\ offset' = [offset EXCEPT ![l] = 0]
  /\ DropReply(l)
  /\ missed' = [missed EXCEPT ![l] = Acknowledged(l)]
  /\ context' = [context EXCEPT ![l] = NewContext]
  /\ threads' = [threads EXCEPT ![l] = <<>>]
  /\ last' = [last EXCEPT ![l] = 0]
  /\ count' = [count EXCEPT ![l] = 0]
  /\ sinceStop' = [sinceStop EXCEPT ![l] = -1]
  /\ sinceStopAll' = [sinceStopAll EXCEPT ![l] = -1]
  /\ disarmed' = [disarmed EXCEPT ![l] = FALSE]
  /\ changed' = [changed EXCEPT ![l] = FALSE]
  /\ excused' = [excused EXCEPT ![l] = FALSE]
  /\ UNCHANGED <<server, process, flags, signals, executed>>

\* The same, by the end of run() or by an exception: a std::thread destroyed
\* before it is joined ends the process.
Unwind(l, unjoined) ==
  IF unjoined # <<>> THEN Die("terminate") ELSE LeaveRun(l)

-----------------------------------------------------------------------------
(* poll::run up to its loop.                                               *)

\* Mutated: the flag is as the last run or stop() left it.
CallRunAsLeft(l) ==
  /\ At(l, "idle")
  /\ Goto(l, "arm")
  /\ UNCHANGED <<server, process, offset, reply, pool, flags, signals, history>>

CallRun(l) ==
  /\ At(l, "idle")
  /\ keep_running' = [keep_running EXCEPT ![l] = TRUE]
  /\ Goto(l, "arm")
  /\ UNCHANGED <<server, process, offset, reply, pool, keep_running_global,
                 signals, history>>

ArmGlobal(l) ==
  /\ At(l, "arm")
  /\ keep_running_global' = TRUE
  /\ Goto(l, "install")
  /\ UNCHANGED <<server, process, offset, reply, pool, keep_running, signals, history>>

InstallHandler(l) ==
  /\ At(l, "install")
  /\ sigaction' = "handler"
  /\ Goto(l, "flag")
  /\ UNCHANGED <<server, process, offset, reply, pool, flags,
                 signal_handler_is_set, handlers, history>>

\* Mutated: no work guard is made, but one is ended.
FlagHandlerUnguarded(l) ==
  /\ At(l, "flag")
  /\ signal_handler_is_set' = TRUE
  /\ Goto(l, IF num_threads[l] = 1 THEN "head" ELSE "spawn")
  /\ context' = [context EXCEPT ![l] = NewContext]
  /\ offset' = [offset EXCEPT ![l] = 0]
  /\ UNCHANGED <<server, process, reply, threads, flags, sigaction, handlers, history>>

\* The flag is set, the io_context made, and for a pool its work guard.
FlagHandler(l) ==
  /\ At(l, "flag")
  /\ signal_handler_is_set' = TRUE
  /\ Goto(l, IF num_threads[l] = 1 THEN "head" ELSE "spawn")
  /\ context' = [context EXCEPT ![l] =
                   IF num_threads[l] = 1 THEN NewContext ELSE WorkStarted(NewContext)]
  /\ offset' = [offset EXCEPT ![l] = 0]
  /\ UNCHANGED <<server, process, reply, threads, flags, sigaction, handlers, history>>

SpawnThread(l) ==
  /\ At(l, "spawn")
  /\ Len(threads[l]) # num_threads[l]
  /\ threads' = [threads EXCEPT ![l] = Append(@, "running")]
  /\ UNCHANGED <<server, process, pc, offset, reply, context, flags, signals, history>>

\* The std::thread constructor throws: the system is out of threads.
SpawnFails(l) ==
  /\ At(l, "spawn")
  /\ Len(threads[l]) # num_threads[l]
  /\ Unwind(l, threads[l])

\* Mutated: the work guard lives until the end of run().
LeaveSpawnBlockGuarded(l) ==
  /\ At(l, "spawn")
  /\ Len(threads[l]) = num_threads[l]
  /\ Goto(l, "head")
  /\ UNCHANGED <<server, process, offset, reply, pool, flags, signals, history>>

\* The block that declares the work guard ends, and the guard with it.
LeaveSpawnBlock(l) ==
  /\ At(l, "spawn")
  /\ Len(threads[l]) = num_threads[l]
  /\ context' = [context EXCEPT ![l] = WorkFinished(@)]
  /\ Goto(l, "head")
  /\ UNCHANGED <<server, process, offset, reply, threads, flags, signals, history>>

-----------------------------------------------------------------------------
(* The loop.  Its condition sets each flag again as it reads it, and does  *)
(* not reach the second when the first was clear.                          *)

\* Mutated: || for && in the condition.
TestOwnOr(l) ==
  /\ At(l, "head")
  /\ keep_running' = [keep_running EXCEPT ![l] = TRUE]
  /\ Goto(l, IF keep_running[l] THEN "send" ELSE "test_global")
  /\ UNCHANGED <<server, process, offset, reply, pool, keep_running_global,
                 signals, history>>

TestOwn(l) ==
  /\ At(l, "head")
  /\ keep_running' = [keep_running EXCEPT ![l] = TRUE]
  /\ Goto(l, IF keep_running[l] THEN "test_global" ELSE "restore")
  /\ UNCHANGED <<server, process, offset, reply, pool, keep_running_global,
                 signals, history>>

\* Mutated: a fault or a stop_all() is not looked at.
TestGlobalIgnored(l) ==
  /\ At(l, "test_global")
  /\ keep_running_global' = TRUE
  /\ Goto(l, "send")
  /\ UNCHANGED <<server, process, offset, reply, pool, keep_running, signals, history>>

TestGlobal(l) ==
  /\ At(l, "test_global")
  /\ keep_running_global' = TRUE
  /\ Goto(l, IF keep_running_global THEN "send" ELSE "restore")
  /\ UNCHANGED <<server, process, offset, reply, pool, keep_running, signals, history>>

\* A request more since a stop; past 1 the count says no more than "too many".
Counted(since) == IF since \in 0..1 THEN since + 1 ELSE since

SendRequest(l) ==
  /\ At(l, "send")
  /\ Confirm(l, offset[l])
  /\ Goto(l, "polling")
  /\ sinceStop' = [sinceStop EXCEPT ![l] = Counted(@)]
  /\ sinceStopAll' = [sinceStopAll EXCEPT ![l] = Counted(@)]
  /\ UNCHANGED <<process, offset, reply, pool, flags, signals,
                 outcome, seen, marks, excused>>

\* The first n updates that the server holds arrive, and of the next what rest says.
Reply(l, n, rest) ==
  /\ At(l, "polling")
  /\ Goto(l, "batch")
  /\ todo' = [todo EXCEPT ![l] = confirmed[l] + 1]
  /\ upto' = [upto EXCEPT ![l] = confirmed[l] + n]
  /\ tail' = [tail EXCEPT ![l] = rest]
  /\ UNCHANGED <<server, process, offset, pool, flags, signals, history>>

ReplyUpdates(l) == Pending(l) # {} /\ Reply(l, ReplySize(l), "none")

\* The body breaks off and send_json hands on what the parser has put into the tree
\* by then: each value as it is read, a null for a key that has none yet, and of a
\* number the digits that are there.  (An id of one digit has no shorter one.)
ReplyDamaged(l) ==
  \E n \in 0..(ReplySize(l) - 1), rest \in Tails :
    /\ rest = "digits" => confirmed[l] + n + 1 # 1
    /\ Reply(l, n, rest)

\* A reply without a result, such as an empty body: the range of no items.
ReplyNoResult(l) ==
  /\ At(l, "polling")
  /\ Goto(l, "head")
  /\ UNCHANGED <<server, process, offset, reply, pool, flags, signals, history>>

\* send_json throws: no connection, a status other than 200.
PollFails(l) ==
  /\ At(l, "polling")
  /\ Goto(l, "fault")
  /\ Excuse
  /\ UNCHANGED <<server, process, offset, reply, pool, flags, signals,
                 outcome, seen, asked, marks>>

\* poll_timeout seconds passed with nothing to send.  The server answers with an
\* empty list; the client's read timeout is the same number of seconds.
HoldExpires(l) ==
  /\ At(l, "polling")
  /\ Pending(l) = {}
  /\ Goto(l, "expired")
  /\ UNCHANGED <<server, process, offset, reply, pool, flags, signals, history>>

ReplyEmpty(l) ==
  /\ At(l, "expired")
  /\ Goto(l, "head")
  /\ UNCHANGED <<server, process, offset, reply, pool, flags, signals, history>>

ReadTimesOut(l) ==
  /\ At(l, "expired")
  /\ Goto(l, "fault")
  /\ Excuse
  /\ UNCHANGED <<server, process, offset, reply, pool, flags, signals,
                 outcome, seen, asked, marks>>

-----------------------------------------------------------------------------
(* One pass of the loop over the reply.                                    *)

\* Mutated: one too far, one too short, and back to a smaller id.
NextOffsetFar(update_id, old) == IF update_id + 2 > old THEN update_id + 2 ELSE old
NextOffsetShort(update_id, old) == IF update_id > old THEN update_id ELSE old
NextOffsetBack(update_id, old) == update_id + 1

NextOffset(update_id, old) == IF update_id + 1 > old THEN update_id + 1 ELSE old

\* Whether the item in hand has arrived whole, or at least with its id.
Whole(l)      == todo[l] <= upto[l]
Identified(l) == Whole(l) \/ tail[l] = "id"

\* What line 90 may read as the update_id of the item in hand.
UpdateIds(l) == IF Identified(l) THEN {todo[l]}
                ELSE IF tail[l] = "digits" THEN 1..(todo[l] - 1) ELSE {}

TakeUpdate(l) ==
  /\ At(l, "batch")
  /\ \E update_id \in UpdateIds(l) :
       offset' = [offset EXCEPT ![l] = NextOffset(update_id, @)]

ExecuteInline(l) ==
  /\ TakeUpdate(l)
  /\ num_threads[l] = 1
  /\ Goto(l, "callback")
  /\ UNCHANGED <<server, process, reply, pool, flags, signals, history>>

\* The loop is done with the item in hand.  One with another update's id is nobody's
\* update: its own is still to come.
ItemDone(l) ==
  /\ tail' = [tail EXCEPT ![l] = IF Whole(l) THEN @ ELSE "none"]
  /\ missed' = [missed EXCEPT ![l] =
                  IF Identified(l) /\ ~Whole(l) THEN @ \cup ({todo[l]} \ executed[l]) ELSE @]
  /\ IF Identified(l) THEN /\ last' = [last EXCEPT ![l] = todo[l]]
                           /\ count' = [count EXCEPT ![l] = @ + 1]
                           /\ todo' = [todo EXCEPT ![l] = @ + 1]
                      ELSE UNCHANGED <<last, count, todo>>

\* In the queue an update that is not whole is a 0.
PostToPool(l) ==
  /\ TakeUpdate(l)
  /\ num_threads[l] # 1
  /\ context' = [context EXCEPT ![l] = Posted(@, IF Whole(l) THEN todo[l] ELSE 0)]
  /\ ItemDone(l)
  /\ UNCHANGED <<server, process, pc, upto, threads, flags, signals, executed,
                 asked, marks, excused>>

\* execute_callbacks comes back; what a std::exception cut short does not show, and so
\* neither does an item of which from_json could make nothing.
CallbacksReturn(l) ==
  /\ At(l, "callback")
  /\ executed' = [executed EXCEPT ![l] = IF Whole(l) THEN @ \cup {todo[l]} ELSE @]
  /\ ItemDone(l)
  /\ Goto(l, "batch")
  /\ UNCHANGED <<server, process, offset, upto, pool, flags, signals,
                 asked, marks, excused>>

\* Anything else thrown by a callback passes the loop's handler and ends run().
CallbackThrows(l) == At(l, "callback") /\ Identified(l) /\ Unwind(l, threads[l])

EndOfBatch(l) ==
  /\ At(l, "batch")
  /\ ~Whole(l) /\ tail[l] = "none"
  /\ DropReply(l)
  /\ Goto(l, "head")
  /\ UNCHANGED <<server, process, offset, pool, flags, signals, history>>

\* Line 90: a null is not an int.
ItemThrows(l) ==
  /\ At(l, "batch")
  /\ ~Whole(l) /\ tail[l] = "key"
  /\ DropReply(l)
  /\ Goto(l, "fault")
  /\ Excuse
  /\ UNCHANGED <<server, process, offset, pool, flags, signals,
                 outcome, seen, asked, marks>>

\* Line 90: the operator[] of a const json asserts that the key is there.
ItemAborts(l) ==
  /\ At(l, "batch")
  /\ ~Whole(l) /\ tail[l] = "brace"
  /\ Die("crash")

\* Mutated: the catch block unsets the signal handler too.
FaultRestores(l) ==
  /\ At(l, "fault")
  /\ ClearGlobal
  /\ sigaction' = "default"
  /\ Goto(l, "head")
  /\ UNCHANGED <<server, process, offset, reply, pool, keep_running,
                 signal_handler_is_set, handlers, outcome, seen, sinceStop,
                 marks, excused>>

\* catch(std::exception const &) around the poll
Fault(l) ==
  /\ At(l, "fault")
  /\ ClearGlobal
  /\ Goto(l, "head")
  /\ UNCHANGED <<server, process, offset, reply, pool, keep_running, signals,
                 outcome, seen, sinceStop, marks, excused>>

-----------------------------------------------------------------------------
(* The end of poll::run, and the threads of the pool.                      *)

RestoreHandler(l) ==
  /\ At(l, "restore")
  /\ sigaction' = "default"
  /\ Goto(l, "unflag")
  /\ UNCHANGED <<server, process, offset, reply, pool, flags,
                 signal_handler_is_set, handlers, history>>

Unflag(l) ==
  /\ At(l, "unflag")
  /\ signal_handler_is_set' = FALSE
  /\ Goto(l, "stop_context")
  /\ UNCHANGED <<server, process, offset, reply, pool, flags, sigaction, handlers, history>>

StopContext(l) ==
  /\ At(l, "stop_context")
  /\ context' = [context EXCEPT ![l] = ContextStopped(@)]
  /\ Goto(l, "join")
  /\ UNCHANGED <<server, process, offset, reply, threads, flags, signals, history>>

\* Mutated: the threads are told to leave and not waited for.
JoinNone(l) == At(l, "join") /\ Unwind(l, threads[l])

\* The threads are joined only if num_threads still is not 1.
Join(l) ==
  /\ At(l, "join")
  /\ num_threads[l] # 1 => \A i \in DOMAIN threads[l] : threads[l][i] = "returned"
  /\ Unwind(l, IF num_threads[l] # 1 THEN <<>> ELSE threads[l])

\* Mutated: the thread goes back into run() whenever it returns.
WorkerStays(l, i) ==
  /\ death = "none"
  /\ i \in DOMAIN threads[l]
  /\ context[l].queue # <<>> /\ ~RunReturns(context[l])
  /\ context' = [context EXCEPT ![l] = HandlerRan(@)]
  /\ executed' = [executed EXCEPT ![l] = @ \cup ({Head(context[l].queue)} \ {0})]
  /\ UNCHANGED <<server, process, pc, offset, reply, threads, flags, signals, missed,
                 seen, asked, marks, excused>>

\* A thread in context.run(): it waits for a handler or for run() to return.
WorkerRuns(l, i) ==
  /\ death = "none"
  /\ i \in DOMAIN threads[l]
  /\ threads[l][i] = "running"
  /\ RunReturns(context[l]) \/ context[l].queue # <<>>
  /\ IF RunReturns(context[l])
       THEN /\ threads' = [threads EXCEPT ![l][i] = "returned"]
            /\ UNCHANGED <<context, executed>>
       ELSE /\ context' = [context EXCEPT ![l] = HandlerRan(@)]
            /\ executed' = [executed EXCEPT ![l] = @ \cup ({Head(context[l].queue)} \ {0})]
            /\ UNCHANGED threads
  /\ UNCHANGED <<server, process, pc, offset, reply, flags, signals, missed, seen,
                 asked, marks, excused>>

-----------------------------------------------------------------------------
(* What the program may call: from any thread, or when there is only the   *)
(* listener's own, from a callback and outside run().                      *)

ProgramMayCall ==
  /\ death = "none"
  /\ OtherThreads \/ /\ handling = "none" /\ calling = "none"
                     /\ \A l \in Listeners : \/ pc[l] = "idle"
                                             \/ pc[l] = "callback" /\ Identified(l)

\* Bounds: once in a run, and not while the threads are made, for a count lowered under
\* the loop of line 70 makes it go on for ever.
SetNumThreads(l) ==
  /\ ProgramMayCall
  /\ pc[l] # "spawn" /\ ~changed[l]
  /\ \E n \in ThreadRequests : num_threads' = [num_threads EXCEPT ![l] = Resolve(n)]
  /\ changed' = [changed EXCEPT ![l] = pc[l] # "idle"]
  /\ UNCHANGED <<server, death, pc, offset, reply, pool, flags, signals,
                 outcome, seen, asked, disarmed, excused>>

Stop(l) ==
  /\ ProgramMayCall
  /\ keep_running' = [keep_running EXCEPT ![l] = FALSE]
  /\ sinceStop' = [sinceStop EXCEPT ![l] = IF pc[l] # "idle" /\ @ = -1 THEN 0 ELSE @]
  /\ excused' = [excused EXCEPT ![l] = @ \/ pc[l] # "idle"]
  /\ UNCHANGED <<server, process, pc, offset, reply, pool, keep_running_global,
                 signals, outcome, seen, sinceStopAll, marks>>

StopAll ==
  /\ ProgramMayCall
  /\ ClearGlobal
  /\ Excuse
  /\ UNCHANGED <<server, process, pc, offset, reply, pool, keep_running, signals,
                 outcome, seen, sinceStop, marks>>

\* set_signal_handler() and unset_signal_handler() called by the program: sigaction,
\* then the flag (bound: one such call at a time).
SetSignalHandler ==
  /\ SetsHandlers
  /\ ProgramMayCall
  /\ calling = "none"
  /\ calling' = "set"
  /\ sigaction' = "handler"
  /\ UNCHANGED <<server, process, pc, offset, reply, pool, flags,
                 signal_handler_is_set, handling, history>>

UnsetSignalHandler ==
  /\ SetsHandlers
  /\ ProgramMayCall
  /\ calling = "none"
  /\ calling' = "unset"
  /\ sigaction' = "default"
  /\ Disarm
  /\ UNCHANGED <<server, process, pc, offset, reply, pool, flags,
                 signal_handler_is_set, handling, outcome, seen, asked, changed, excused>>

SetFlag ==
  /\ death = "none"
  /\ calling # "none"
  /\ OtherThreads \/ handling = "none"
  /\ signal_handler_is_set' = (calling = "set")
  /\ calling' = "none"
  /\ UNCHANGED <<server, process, pc, offset, reply, pool, flags, sigaction, handling,
                 history>>

-----------------------------------------------------------------------------
(* Ctrl-C.  SIGINT is blocked on the thread that runs its handler.         *)

SigintHandled ==
  /\ death = "none"
  /\ sigaction = "handler"
  /\ handling = "none"
  /\ handling' = "stop_all"
  /\ Disarm
  /\ UNCHANGED <<server, process, pc, offset, reply, pool, flags, sigaction,
                 signal_handler_is_set, calling, outcome, seen, asked, changed, excused>>

SigintKills ==
  /\ death = "none"
  /\ sigaction = "default"
  /\ OtherThreads \/ handling = "none"
  /\ Die("sigint")

HandlerStops ==
  /\ death = "none"
  /\ handling = "stop_all"
  /\ handling' = "restore"
  /\ ClearGlobal
  /\ Excuse
  /\ UNCHANGED <<server, process, pc, offset, reply, pool, keep_running, sigaction,
                 signal_handler_is_set, calling, outcome, seen, sinceStop, marks>>

HandlerRestores ==
  /\ death = "none"
  /\ handling = "restore"
  /\ handling' = "unflag"
  /\ sigaction' = "default"
  /\ UNCHANGED <<server, process, pc, offset, reply, pool, flags,
                 signal_handler_is_set, calling, history>>

HandlerUnflags ==
  /\ death = "none"
  /\ handling = "unflag"
  /\ handling' = "none"
  /\ signal_handler_is_set' = FALSE
  /\ UNCHANGED <<server, process, pc, offset, reply, pool, flags, sigaction, calling,
                 history>>

-----------------------------------------------------------------------------
(* The process is killed at any point, and started again.                  *)

Crash == death = "none" /\ Die("crash")

Restart == /\ death # "none"
           /\ death' = "none"
           /\ UNCHANGED <<server, num_threads, pc, offset, reply, pool, flags, signals, history>>

BotReceives(l) ==
  /\ Publish(l)
  /\ UNCHANGED <<process, pc, offset, reply, pool, flags, signals, history>>

-----------------------------------------------------------------------------
\* What a run of l does unless something outside it interferes.
Runs(l) ==
  \/ ArmGlobal(l) \/ InstallHandler(l) \/ FlagHandler(l)
  \/ SpawnThread(l) \/ LeaveSpawnBlock(l)
  \/ TestOwn(l) \/ TestGlobal(l) \/ SendRequest(l)
  \/ HoldExpires(l) \/ ReplyEmpty(l) \/ ReadTimesOut(l)
  \/ ExecuteInline(l) \/ PostToPool(l) \/ CallbacksReturn(l)
  \/ EndOfBatch(l) \/ ItemThrows(l) \/ ItemAborts(l) \/ Fault(l)
  \/ RestoreHandler(l) \/ Unflag(l) \/ StopContext(l) \/ Join(l)

Fails(l) == \/ SpawnFails(l) \/ PollFails(l) \/ ReplyDamaged(l) \/ ReplyNoResult(l)
            \/ CallbackThrows(l)

Handler == HandlerStops \/ HandlerRestores \/ HandlerUnflags

Worker(l) == \E i \in DOMAIN threads[l] : WorkerRuns(l, i)

Next ==
  \/ \E l \in Listeners :
       \/ BotReceives(l) \/ CallRun(l) \/ SetNumThreads(l) \/ Stop(l)
       \/ Runs(l) \/ ReplyUpdates(l) \/ Worker(l) \/ Fails(l)
  \/ StopAll \/ SetSignalHandler \/ UnsetSignalHandler \/ SetFlag
  \/ SigintHandled \/ SigintKills \/ Handler
  \/ Crash \/ Restart

\* Threads are scheduled whatever signals interrupt them, callbacks return whatever
\* they call before, a hold ends after poll_timeout, and a
\* server that is asked again and again in the end answers with what it has.
Fairness ==
  /\ \A l \in Listeners : /\ SF_vars(Runs(l))
                          /\ WF_vars(Worker(l))
                          /\ SF_vars(ReplyUpdates(l))
  /\ WF_vars(Handler)
  /\ WF_vars(SetFlag)

Safe == Init /\ [][Next]_vars

Spec == Safe /\ Fairness

-----------------------------------------------------------------------------
(* Properties.                                                             *)

\* The server is told to forget an update (the offset of line 82) only when its
\* callbacks have returned, whatever throws, dies or restarts in between; or when its
\* own item broke off behind its id, in the run that took it and acknowledged it.  The
\* callbacks then have got a part of it or nothing, and nobody is told (sender.h:430,
\* base.h:327).  No other update is lost to a bot that executes inline, and none
\* for the damage of another.
AckedWasExecuted ==
  \A l \in Listeners : \A u \in 1..confirmed[l] : u \in executed[l] \/ u \in missed[l]

\* Once stop() is called on a run, at most one more getUpdates is sent by it,
\* the one already past the test of line 79, whatever other listeners do.
StopIsPrompt == \A l \in Listeners : sinceStop[l] <= 1

\* The same of stop_all(), called by the program, the signal handler or a fault.
StopAllIsPrompt == \A l \in Listeners : sinceStopAll[l] <= 1

\* Ctrl-C ends the process at once only when every listener in its loop was
\* interrupted before, or its program has removed the handler: otherwise the first one
\* lets the loop finish, wherever between sigaction and the flag it arrives.
CtrlCIsGraceful ==
  [][death' = "sigint" /\ death = "none" =>
       \A l \in Listeners : pc[l] \in Serving => disarmed[l]]_vars

\* A std::thread of the pool is destroyed before it is joined, which ends the process,
\* only when the system has no thread left to give or the program changed num_threads
\* under the run: every other way out of run() joins them all.
ThreadsAreJoined ==
  [][death = "none" /\ death' = "terminate" =>
       \E l \in Listeners : pc[l] = "spawn" \/ changed[l]]_vars

\* A run leaves its loop only for something that happened in it: a stop(), a stop_all()
\* or a poll that failed.  A flag left clear before it began, or by another test of it,
\* does not end it.
EndsForCause == \A l \in Listeners : pc[l] = "restore" => excused[l]

\* A run whose stop() was called returns.
StopReturns == \A l \in Listeners : sinceStop[l] >= 0 ~> pc[l] = "idle"

\* A run that stop_all() reached returns.
StopAllReturns == \A l \in Listeners : sinceStopAll[l] >= 0 ~> pc[l] = "idle"

\* What the bot has received is executed while its listener runs, unless its own item
\* broke off behind its id: a reply that breaks off in any other place delays it at most.
Delivered ==
  \A l \in Listeners, u \in 1..MaxUpdate :
    u <= issued[l] /\ pc[l] # "idle"
      ~> u \in executed[l] \cup missed[l] \/ pc[l] = "idle"

\* Seen from the callbacks and the server, the listener is an UpdateDelivery:
\* in order and at most once in a session, forgotten only when executed, or when it
\* was in that session that it got no further than to the listener.
Delivery == INSTANCE UpdateDelivery WITH Bots <- Listeners, forgotten <- confirmed

ImplementsDelivery == Delivery!Spec

\* Inline or with a pool, and if num_threads is changed between two updates of a reply,
\* it is an UpdateHandover: it skips no update, takes none twice in a session, and its
\* next request acknowledges all that it took and nothing else.
Handover == INSTANCE UpdateHandover WITH Bots <- Listeners, forgotten <- confirmed

ImplementsHandover == Handover!Spec

\* Nobody but the thread in run() executes anything: a pool has stopped before the first
\* update is posted to it (poll.h:76), and one that is posted by a run whose num_threads
\* was changed finds no thread.  So what is left out of this module, callbacks of a pool
\* that throw or overtake each other, does not happen.
OwnThreadExecutes ==
  [][\A l \in Listeners : executed'[l] # executed[l] => pc[l] = "callback"]_vars

-----------------------------------------------------------------------------
(* What the documentation says and the code does not do.                   *)

\* poll.h:68: the work guard keeps the pool's threads from running out of work,
\* so the context of a listener in its loop is not stopped.
PoolKeepsRunning ==
  \A l \in Listeners : pc[l] = "polling" /\ num_threads[l] # 1 => ~context[l].stopped
=============================================================================
