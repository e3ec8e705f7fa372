# libtelegram in TLA+

TLA+ modules of [libtelegram](../src/README.md), a header-only C++ library for
Telegram bots, with model-checking instances for TLC and proofs for TLAPS.

    tlc -workers 2 -config PollSolo.cfg MCPollListener     # any run below
    tlapm PollDeliveryProofs.tla                           # any *Proofs module

Paths below are relative to the repository's root, and `poll.h`, `base.h`,
`fcgi.h` and `sender.h` are under `include/libtelegram/`.

## The system

| Part | State it keeps | Operations | Talks to |
|---|---|---|---|
| polling listener (`listeners/poll.h`) | `keep_running` per object; `keep_running_global` and `signal_handler_is_set` static; in `run()`: offset, `io_context`, thread pool | `run`, `stop`, `stop_all`, `set_signal_handler`, `unset_signal_handler`, `is_signal_handler_set`, `signal_handler` | sender (getUpdates), callbacks, SIGINT disposition of the process, Boost.Asio |
| listener base (`listeners/base.h`) | ten callback slots, `num_threads` | `set_`/`unset_callback_*`, `set_num_threads`, `execute_callbacks` | the program's callbacks, `types` |
| FastCGI listener (`listeners/fcgi.h`) | nothing of its own; acceptor and service in `run()` | `run`, `handle_request`, `handle_request_async` | Boost.CGI, callbacks |
| sender (`sender.h`) | endpoint and token, constant after construction | `send_json` and its three reply wrappers, `send_message` with its splitting, about 60 API calls | Bot API over HTTPS |
| types (`types/`) | none | `from_json` of 24 types, `make_optional_from_json`, `make_optional_vector_from_json`, `make_shared_from_json`; `file`'s download | json, sender, callbacks |
| reply markup (`types/reply_markup/`) | the keyboard being built | constructors, `get` | sender |
| Bot API, Boost.Asio, Boost.CGI, httplib, json, urdl | external or vendored | | |

How they interact: the program makes a sender and one or more listeners, sets
callbacks and calls `run()`. A polling listener asks getUpdates through its sender
with the offset of the last update plus one, which also acknowledges everything
below; it runs the callbacks on its own thread when `num_threads` is 1 and posts
them to an `io_context` otherwise. Callbacks send with a sender, possibly the
listener's, and may call `stop()`, set callbacks, or throw. SIGINT is handled by
`stop_all()`. Several polling listeners run on a thread each (README:240). A FastCGI
listener is started by a web server, which opens a connection for each update that
Telegram posts; it answers, then runs the callbacks, then accepts again.

What is hard in it, and what makes each part correct:

* **Acknowledgement.** The offset is advanced before an update is executed and sent
  after the whole batch. Whatever is thrown, lost or killed in between, no update may
  be acknowledged that was not executed, and callbacks must see updates in order. One
  that reaches the listener broken off behind its id is the exception the code makes:
  it must be the only one.
  *`AckedWasExecuted`, `ImplementsDelivery`, `ImplementsHandover`, `Delivered`.*
* **Stopping.** The loop's condition sets the flags again as it reads them, other
  threads, the signal handler and other listeners write them. A stop must not be lost
  between the test and the next one, and the run must get through its joins.
  *`StopIsPrompt`, `StopAllIsPrompt`, `StopReturns`, `StopAllReturns`.*
* **Signals.** One disposition of SIGINT for the process, changed by every listener
  and by the handler itself. *`CtrlCIsGraceful`.*
* **The pool.** Threads leave `io_context::run()` when there is no work.
  *`PoolKeepsRunning`, which does not hold; `OwnThreadExecutes`, which does.*
* **Callbacks that change callbacks**, from inside a callback or another thread, in
  the middle of a dispatch. *`EveryoneIsTold`, `CallsFollowOrder`, `UnsetIsHonoured`,
  `DispatchEnds`.*
* **The end of a run.** Flags of one run must neither end nor keep the next, and only
  what happened in a run may end it. *`EndsForCause`.*
* **The pool's threads** must be joined on every way out. *`ThreadsAreJoined`.*
* **A text in several messages.** Each piece is a request of its own that can fail,
  time out, or be delivered after it timed out; what an operation comes back with must
  tell whether it was carried out. *`PiecesInOrder`, `ReturnedIsDone`,
  `ImplementsPosting`, `SendReturns`.*
* **Reading an answer.** An exception stands for the absence of an optional part, and
  is thrown and caught any number of types further in: the part left out must be the
  damaged one, the smallest around it, and nothing else. *`OnlyDamagedIsLost`,
  `NoHalfReadValue`, `RefusedForCause`, `AsSenderAssumes`; `AnswersAreRead` does not
  hold.*
* **A bot that answers.** The callback of an inline listener sends, so that the
  failures of the sender, of the poll and of the process meet in it. *`AckedWasAnswered`,
  `AnswersInOrder`, `ImplementsAnswering`, `CallbacksComeBack`.*
* **Answering before executing.** The FastCGI listener answers first, so that Telegram
  does not post an update again whatever the callbacks do. What is repeated must be
  what was not heard, and what is answered must be executed. *`RepeatedOnlyIfUnheard`,
  `AnsweredIsExecuted`, `ImplementsPush`.*
* **Two accepts.** Each way through a request, refusals and hang-ups included, must come
  back to the re-accept or end the run, as a failed accept does; and a thread that waits for a header runs
  other handlers, other requests included, below which it then waits. *`TwoAccepts`,
  `ObjectsAreReused`, `RequestsAreAnswered`; `ThreadsDoNotBlock` does not hold.*

`PROJECT.json` lists the hazards at their lines with the properties that cover them.

## Modules

`X <- Y` reads "X extends Y".

| Module | What it is |
|---|---|
| `Telegram` | the Bot API's queue of updates per bot, external: updates are received, a request's offset forgets those below it |
| `IoContext` | `boost::asio::io_context`, external: queue, outstanding work, stopped |
| `PollListener` <- `Telegram`, `IoContext` | poll.h with the part of base.h and sender.h it runs through |
| `UpdateDelivery` | the abstract specification of an inline listener: updates are executed in order, and forgotten when they were, or when they were missed in the session that took them; `PollListener` instantiates it as `Delivery`, and `Bot`, with answering for executing, as `Answering` |
| `UpdateHandover` | the abstract specification of any polling listener, with a pool too: updates are taken without a gap, each once in a run, and what was taken is forgotten; `PollListener` instantiates it as `Handover` |
| `Callbacks` | the slots of base.h and `execute_callbacks` |
| `Types` | the tables of the types: which items each `from_json` reads, and how |
| `Api` <- `Types` | the table of sender.h's operations: how the answer of each is read |
| `JsonReader` | `from_json` and its helpers as a stack machine over such a table |
| `AnswerReader` <- `JsonReader`, `Api` | the two put together: what a sender reads, and what `Sender` assumes of it |
| `Sender` <- `Api` | every operation of the sender: its request or requests, and what comes of them |
| `Posting` <- `Api` | the abstract specification of a call: its text gets to the server piece by piece, and the caller knows; `Sender` instantiates it as `Posted` |
| `Bot` <- `PollListener` | the composition of `PollListener` with an instance `S` of `Sender`: the callback answers |
| `FcgiListener` | fcgi.h with the acceptor, the reads and the commit of Boost.CGI it runs through, and the web server |
| `UpdatePush` | the abstract specification of a FastCGI listener towards Telegram and the callbacks: answered, then executed, once each; `FcgiListener` instantiates it as `Push` |
| `MCPollListener`, `MCCallbacks`, `MCSender`, `MCTypes`, `MCBot`, `MCFcgiListener` | the instances TLC checks |
| `PollListenerProofs`, `PollDeliveryProofs`, `PollStopProofs`, `CallbacksProofs`, `SenderProofs`, `JsonReaderProofs`, `BotProofs`, `FcgiListenerProofs` | the theorems |

### PollListener and the code

`pc[l]` is where the thread of listener `l` is in `run()`; between two values lies
one access to something that other threads also touch.

| `pc` | poll.h | Actions |
|---|---|---|
| idle | before 57, after 124 | `CallRun`: `keep_running = true`, line 60 |
| arm | 61 | `ArmGlobal` |
| install, flag | 62, 138-148 | `InstallHandler` (sigaction), `FlagHandler` (the flag) |
| spawn | 63-76 | `SpawnThread`, `SpawnFails`, `LeaveSpawnBlock` (the guard of line 68 dies) |
| head, test_global | 79 | `TestOwn`, `TestGlobal`: two exchanges, the second only if the first was true |
| send, polling, expired | 80-86 | `SendRequest`; `ReplyUpdates`, `ReplyDamaged`, `ReplyNoResult`, `PollFails`; `HoldExpires`, then `ReplyEmpty` or `ReadTimesOut` |
| batch, callback | 86-102 | `ExecuteInline`, `PostToPool`; `CallbacksReturn`, `CallbackThrows`; `ItemThrows`, `ItemAborts` (line 90); `EndOfBatch` |
| fault | 103-106 | `Fault`: `stop_all()` |
| restore, unflag | 108, 149-159 | `RestoreHandler`, `Unflag` |
| stop_context, join | 109-116 | `StopContext`, `Join` |

Around it: `Stop` and `StopAll` at any moment from any thread; the signal handler as
`SigintHandled`, `HandlerStops`, `HandlerRestores`, `HandlerUnflags`, which run on
any thread between any two steps of a run; `SigintKills` when the disposition is the
default; `SetSignalHandler` and `UnsetSignalHandler` with `SetFlag`, the program's own
calls (`calling` is such a call between its two writes; `SetsHandlers` says whether
the program makes them); `WorkerRuns`, a pool thread in `io_context::run()`;
`SetNumThreads`, from any thread before a run and during it; `Crash` and `Restart`.
`Die` says what is left of the process: the server's queue and the record of what was
executed.

`OtherThreads = FALSE` is the process with one listener and no further thread, as
in `examples/`: the handler then runs to its end before the listener goes on, and
the program's calls come from a callback or from outside of `run()`. `TRUE` is every other program.

A reply is the interval `todo..upto` of the ids of the items that arrived whole, and
`tail`, what there is of one more. `send_json` catches the exception of the parser and
hands on its tree (sender.h:426-432), into which every value was written as it was read
(json.hpp:6145-6225, where `parse_error` only throws). So the cut decides:

| Cut | `tail` | What the loop makes of it |
|---|---|---|
| between two items | none | a shorter batch (`EndOfBatch`), and no fault |
| behind an item's `{` | brace | line 90 asserts that a const object has the key (json.hpp:21427): the process aborts (`ItemAborts`) |
| behind `"update_id"` | key | the key has a null, which is no int: line 90 throws (`ItemThrows`), the fault ends the run |
| in the digits of the id | digits | a number at the end of the input is a number: line 90 reads a smaller id, `std::max` keeps the offset, nobody is called |
| behind the id | id | the offset advances past the update; what `from_json` throws is caught in base.h:327, so that its callback may not be called; the loop goes on, and the next request acknowledges the update |

With `NDEBUG` line 90 has no assertion and reads what is not there; no build file of the
repository defines it, and the model leaves it out. A cut body gets to the parser when its
length was not announced (neither Content-Length nor chunks) or when a server or proxy
sends it so; otherwise httplib reports an error, which is `PollFails`. A body cut before
there is a `result` is `ReplyNoResult`.

An item cut behind its id may still call callbacks, those for the whole JSON among them,
with what there is of it. What is thrown inside `execute_callbacks` and is a
`std::exception` is caught there, and is part of `CallbacksReturn`.

History variables are read by properties only. `executed` is what the callbacks have
seen; `missed` is what the loop took by an item broken off behind its id and has never
executed, in this run, or before and acknowledged: what an ended run did not acknowledge
comes again and is struck from it; `last` and `count` are the last update that this run was done with, and their
number: its callbacks have returned or would have, or it was posted to the pool.
`sinceStop` and `sinceStopAll` count the requests sent since
the call was made on a run that had begun, which is why a stop before line 60 does not
count. `disarmed` is set for the listeners in their loops when the signal handler is
entered or the program removes it; `changed` by `set_num_threads` during a run;
`excused` by everything that is meant to end a run.

A callback on the pool never runs in this model, and so throws nothing there: the
context of a pool has stopped before the first post. `pool_stops` shows that it can be;
that it always is, so that nothing is left out here, is `OwnThreadExecutes`, proved for any
pool as `PoolsAreIdle`.

### Callbacks and the code

`Order` is the order of the slots in base.h:303-407. For each, `Look` is the test of
the slot with the search for its part and, for a native slot, `from_json`
(base.h:322-327); `Call` is `operator()`. Nothing guards a slot, so assigning one
that is being called is a data race: `raced` records it, and the model then takes
every outcome: the old function, an empty one (`CallFindsNothing`), the end of the
process (`Dies`). `callback_raw` is the FastCGI listener's: `CallbackRaw` there.

### Sender and the code

Each call of an operation is a process of its own, since senders keep no state
(README:242). What is asked is an operation of `Api`, and for those with a text its
size in bytes and the set of places between its characters. The recursion of lines
516-527 is the loop `Split`, `Serialise`, `Post`, answer, `NextPiece`, which other
operations go through once. `NoAnswer` leaves the request with the server, which may
still carry it out (`Delivers` after `phase = "returned"`). The server answers 200
exactly when it delivers, which is the Bot API's convention for failed requests.

`Api` gives each operation the wrapper that reads its answer: `parse`
(`send_json_and_parse`), `parse_vector` and `get_bool`. What a wrapper may come back
with is `Outcomes`, which `Answer` chooses from; that it is nothing else is
`AsSenderAssumes`, checked where the reading itself is modelled, in `MCTypes`.

### Types, JsonReader and the code

A type of `Types` is the sequence of items its `from_json` reads, in their order. An
item is read in one of six ways: `need` (`tree.at(...)` of a scalar), `part` (the same
of an object), `plain` (an optional scalar), `maybe` (an optional or shared object),
`list` (an optional vector) and `each` (a vector read in a loop). `JsonReader` keeps
the C++ stack of `from_json` calls; an array is one frame, whose elements are read one
after the other.

| C++ | Action |
|---|---|
| a scalar that is there (optional.h:34-69) | `ReadScalar` |
| an object that is there | `Enter`; at its end `Leave`, in an array perhaps `NextElement` |
| an optional scalar, object or vector that is not there | `Absent` |
| `at` of what is not there: `json::out_of_range` | `Missing` |
| what is of another type: `json::type_error`; for a vector, nothing (optional.h:76) | `Wrong`; `NotAList` |
| the exception passes a `from_json`, or is caught (optional.h:30, 85; shared.h:20) | `Unwind`; `Catch` |
| it reaches the wrapper (sender.h:448-492) or `execute_callbacks` | `Escape` |
| an answer without `result` (sender.h:443) | `NoResult` |

What is damaged is decided item by item as it is read, up to `MaxDamage`. `damaged` and
`lost` are history: what was damaged, with the stack around it, and the parts left out.
The comments of the wrappers speak of `std::domain_error`; what is thrown and caught is
`json::out_of_range`.

### Bot and the code

`Bot` is `examples/echo.cpp` with `set_num_threads(1)`, which the example leaves out
(see `pool_stops`). `CallbackBegins` is `ExecuteInline` and gives the update the next
call of the sender, `CallbackSends` a step of it, and `CallbackEnds`, `CallbacksReturn`,
waits for its return: what `PollListener` takes for granted, that callbacks return, is
not assumed here but follows from `Sender` (`CallbacksComeBack`). Of an item broken off
behind its id the callback may be called or not: `CallbackEnds` then comes without a
call made, and without the id there is none. `ServerActs` lets the
server get to any request at any time. A call that the end of the process cuts short
stays where it was, for ever, and what it had sent stays with the server.

### FcgiListener and the code

Boost.CGI's acceptor sends every accept and every handler of an accepted request
through one strand, whatever `num_threads` is. `strand` is what waits on it:
`DoAcceptTask`, or the object of an accepted request. `at` is where the handler that
has it is (`current` is its object):

| `at` | Code | Actions |
|---|---|---|
| idle | fcgi.h:27-48; acceptor_service_impl.hpp:212-265 | `Run`: two calls of `async_accept`; `DoAccept`; `HandleAccept` |
| load | fcgi.h:63-71; fcgi_request_service.ipp:177-267 | `Load`, `LoadBreaksOff` |
| refuse | fcgi.h:66-86 | `CommitArrives`, `CommitUnheard`, `CommitFails`: the commits at lines 70, 74 and 85 |
| commit | fcgi.h:88; commit.hpp:15-50 | the same three: the commit of an update |
| raw, execute | fcgi.h:90-93 | `CallbackRaw`, `CallbackRawThrows`; `ExecuteCallbacks`, `CallbackThrows` |
| reaccept | fcgi.h:98-103 | `Reaccept`: `do_accept` is posted to the strand |
| finish | acceptor_service_impl.hpp:265-272 | `Finish`: the object goes from `running` to `waiting` |

An accept that is done (`Accept`, `AcceptFails`) is dispatched to the strand. While the
handler reads a record (`Reading`: the load, and the close of a request that is not
read to its end) its thread runs other handlers of the `io_context`, and being on
the strand already it runs a dispatched one at once: `Dispatch` puts the reader on
`suspended` and begins with the new object. When the wait is over only because
another thread ran the end of the read, nothing wakes this one (`Stall`); it goes on
if it gets to run the end of a read of the handler below (`Wake`).

Around it: `Send`, a connection for a request that is not answered yet; `HangUp` at
any moment, also on what is in the backlog or in hand; `Kill`. `Throw` is an exception
that leaves `service.run()`: fcgi.h:49-56 catches it on the main thread only. History
variables: `executed`, `unheard` and `excused`.

Taken for granted: records' headers come in one piece, a POST has its CONTENT_LENGTH,
connections are not kept (FCGI_KEEP_CONN), and threads can be created.

## Runs

| Run | Instance | Checks | Distinct states |
|---|---|---|---|
| `solo` | one inline listener, no other thread, 3 updates, 2 per reply | `AckedWasExecuted`, `CtrlCIsGraceful`, `ImplementsDelivery`, `ImplementsHandover`, `Delivered` | 89,867 |
| `threads` | one listener, inline or a pool of 2, other threads, 1 update | `TypeOK`, `EndsForCause`, `StopIsPrompt`, `StopAllIsPrompt`, `ThreadsAreJoined`, `OwnThreadExecutes`, `ImplementsHandover`, `StopReturns`, `StopAllReturns` | 318,740 |
| `callbacks` | all nine slots, four of them changing | `TypeOK`, `EveryoneIsTold`, `CallsFollowOrder`, `UnsetIsHonoured`, `DispatchEnds` | 39,624 |
| `sender` | two calls, fourteen requests: every wrapper, texts of up to three pieces | `TypeOK`, `PiecesInOrder`, `ReturnedIsDone`, `ImplementsPosting`, `SendReturns` | 48,400 |
| `types` | every answer of sender.h, three kinds of update, two types only programs read; two damaged items | `TypeOK`, `OnlyDamagedIsLost`, `NoHalfReadValue`, `RefusedForCause`, `AsSenderAssumes` | 632,848 |
| `bot` | one inline bot, 2 updates, two calls with texts of two pieces | `AckedWasAnswered`, `AnswersInOrder`, `ImplementsAnswering`, `CallbacksComeBack` | 853,931 |
| `fcgi` | one update and one other request, each sent up to twice, 1 or 2 threads | `TypeOK`, `RepeatedOnlyIfUnheard`, `AnsweredIsExecuted`, `TwoAccepts`, `ObjectsAreReused`, `ImplementsPush`, `RequestsAreAnswered` | 226,782 |

`threads` and `bot` take two to two and a half minutes, `solo` half a one, the others seconds.
What they show: `solo`, that no update is lost or executed twice in a run, whatever fails and
wherever replies break off, but for one whose own item broke off behind its id, and
that one only if the run that took it also acknowledged it; `threads`,
that every stop is obeyed at the next test, every run ends that is stopped and none
that is not, and that with a pool, too, a request acknowledges what was taken and no more,
though the pool never executes it; `callbacks`, that a dispatch reaches who is set and only them; `sender`,
that what comes back tells what was done; `types`, that damage costs what it must and
no more; `bot`, that these promises add up: an update is forgotten only when its
sender has been answered, or the bot knows that it may not have been, or it came broken
off behind its id in the run that acknowledged it; and none is answered
twice in a run or before an earlier one; `fcgi`, that every
way through a request comes back to the accept, and answers and callbacks match.

and the runs that end in a counterexample, each a statement of the repository that
the code does not keep:

| Run | Statement | What happens |
|---|---|---|
| `pool_stops` | poll.h:68, the guard prevents "the threads from running out of work" | the guard is destroyed at the end of the block, before anything is posted; the context stops, and what is posted is never run, though it is acknowledged |
| `pair_stop_all` | poll.h:134, `stop_all()` "will stop ALL polling listeners globally" | the first listener to test the one flag sets it again; the others never see the stop |
| `sender_cuts` | sender.h:518, "the first allowed number of characters" | `substr` counts bytes; a character cut in two makes `json::dump` throw |
| `fcgi_blocks` | README:48, "it can service many connections from Telegram simultaneously without blocking" | `run_one` (fcgi_request_service.ipp:504) waits for any event; when another thread ran the one it was for, the strand is held for ever |
| `answers_lost` | sender.h:1443, "Get a chat member by id"; chat_member.h:23, "status" | chat_member.h:47 requires a field `type`, which the server calls `status`; the exception is taken for the absence of the whole result, so `get_chat_member` and `get_chat_administrators` never return one |

Met on the way, without a run:

* `poll_timeout` is both how long the server may hold a poll (poll.h:84) and the
  client's read timeout (line 85): on a quiet bot an empty answer races an exception
  that ends `run()`, where README:266 promises to run "as long as there are no fatal
  errors". `EndsForCause` counts it as a failed poll.
* An update whose item in a reply is cut behind its id is acknowledged without its message
  callback having been called, and neither the program nor the run is told
  (sender.h:430 and base.h:327 write to `std::cerr`). `AckedWasExecuted` and its like
  except that update, and show that it is the only one.
* An item cut right behind its `{` aborts the process at poll.h:90, by an assertion, which
  `run()` cannot catch.
* Of several listeners in a process, one that returns takes the handler away from those
  still polling (poll.h:108), against README:279.
* A commit to a FastCGI connection that is gone throws (commit.hpp:20), which ends
  `run()`, or the process with more than one thread, against README:73.
* `echo.cpp` and `echo_json.cpp` do not set one thread, and so run with a pool, whose
  context stops (`pool_stops`).
* What is thrown in the loop and is not a `std::exception` skips poll.h:108 and leaves
  the handler installed, against README:284.
* All FastCGI handlers share one strand, so "multiple simultaneous requests" (README:71)
  are worked off one after the other with any `num_threads`.
* The inline forms of the live location operations read a message where the Bot API
  answers `True`; `send_video` tests `duration` before it sends width and height.
* Stated nowhere: if a pool thread cannot be created the ones that exist are destroyed
  joinable, and the process terminates, as it does at the end of a run (line 116) whose
  `num_threads` another thread has set from a pool to 1; the last batch before a stop is not
  acknowledged and comes again to the next run (the refinement allows it: at most once
  in a *session*); after SIGINT between lines 145 and 146 `is_signal_handler_set()` is
  true with no handler installed; `get_bool` throws for an answer without `result`
  where the other wrappers return nothing.

### Bounds, and why they are enough

* `MaxUpdate` and `Limit`: 3 updates in replies of 2 give a full batch, a rest, a
  batch cut after or in any item, and an update that arrives while another batch is worked
  on. The control reads ids only by comparison with the offset. Of an id cut in its digits any
  smaller one may be left (the shorter prefix is one of them). The stop properties do
  not depend on updates; `threads` has 1 so that the pool gets something posted. What a
  pool does with a reply of several updates, between which `num_threads` may change, is
  left to the proof of `ImplementsHandover`, for any number of updates and threads.
* `Cores = 2`: `set_num_threads(0)` is a pool of two threads, enough for one to
  return while the other runs.
* Listeners are independent but for the two static variables and SIGINT. What two of
  them do to each other is in `pair_stop_all`; `StopIsPrompt`, the stop that holds for
  each of several, is proved for any number.
* `set_num_threads` is called at most once in a run and not while the threads are made: a
  count lowered under the loop of line 70 makes it go on for ever. One call of
  `set_` or `unset_signal_handler` at a time.
* `sinceStop` and `sinceStopAll` stop at 2, which is already a violation.
* One activation of the signal handler at a time: SIGINT is blocked on the thread that
  runs it; a second on another thread meanwhile repeats the same three writes.
* `Changing` in `callbacks`: a slot before all, both forms of one part, and the last;
  the other slots differ from these in the name of the part only.
* `sender`: `Limit` 2 and characters of up to 2 bytes; texts of 0 to 5 bytes have
  none, one, two and three pieces, ends at and beside the limit, and a cut inside and
  beside a wide character.
  The other operations are one of each wrapper, and of each that needs a text: `Sender`
  sees no other difference between them.
* `types`: objects below `MaxDepth = 2` frames have no optional object of their own, so that
  a message's reply has parts and its reply none; an exception can still pass two types
  on its way. Two damaged items (`MaxDamage`) are one that is lost and another that must
  be told from it; that the properties hold for any depth and damage is proved.
* `bot`: 2 updates in one reply and a call for each, so that one answer can be late for the
  other; texts of two pieces, so that an answer can be cut short. `MaxCalls` ends a
  behaviour in which updates are answered again; more calls are covered by the proofs.
* `fcgi`: `MaxAttempts = 2` makes four connections compete for the two accepts, and
  gives Telegram a second try after every way an answer can be lost. `MaxObjects = 3`
  is one more than `ObjectsAreReused` allows. More threads than two differ from two
  only in how many can miss an event, and one is enough to hold the strand.

The deadlock check is on for the listeners. It is off in `callbacks`, where undefined
behaviour may end the process, and in `sender` and `types`, where everything may have
been returned.

### Fairness

* `SF(Runs(l))`: the thread of a run is scheduled, callbacks return, and a poll on
  which nothing arrives ends after `poll_timeout`, by the server's empty reply or the
  client's read timeout. It is strong because signals and calls that interrupt the
  thread disable its step meanwhile, and may come again and again. A poll may always end
  in `PollFails`, but need not.
* `WF(Worker(l))`, `WF(Handler)` and `WF(SetFlag)`: pool threads, the signal handler and
  the program's calls are scheduled.
* `SF(ReplyUpdates(l))`: a server that is asked again and again answers in the end.
  Replies that break off anywhere or have no result at all may come in
  between any number of times. No stop property depends on it but through the
  end of the poll itself: a request always ends, by answer, error or timeout.
* No fairness for calls by the program, signals, crashes, restarts and incoming
  updates. `Delivered` is therefore about a listener that is running, and is
  discharged when it stops.
* `Callbacks`: `WF(Dispatch)`, callbacks return. `Sender`: `WF(Sends(c))`, a wait ends
  with the read timeout of 30 seconds at the latest (sender.h:70, 396).
* `Bot`: `SF(BotRuns(l))` and `WF(Handler)`, as in its parts, but that a callback goes on
  only if its call does. None for the server, nor for its replies to getUpdates: that
  a call ends when nobody answers is the read timeout, a step of the call itself.
* `JsonReader` states no fairness: only safety is asked of it.
* `FcgiListener`: `WF(OnStrand)`, what is on the strand gets a thread, callbacks return,
  and the web server sends a request to its end or hangs up; `WF(Accepts)`, a connection
  is accepted if an accept is outstanding. None for `Stall` and `Wake`, for requests,
  hang-ups, failed accepts, runs and kills.

## Proofs

All theorems are for every value of the constants that satisfies the named
assumptions (`TelegramAssumption`, `PollListenerAssumption`, `CallbacksAssumption`,
`SenderAssumption`, `ReaderAssumption`, `BotAssumption`, `FcgiAssumption`): any number of listeners, thread counts, updates
and reply sizes; any slots that change; any calls, operations, texts and limit; any
table of types and any damage; any number of bots and answers; any requests, attempts and request objects. TLC checks each property on the small instance first
(`BotTypeOK` only in its parts).

| Theorem | Says | Inductive invariant |
|---|---|---|
| `PollListenerProofs!TypeCorrect` | `Safe => []TypeOK` | `TypeInv` |
| `PollListenerProofs!WorkCorrect` | the work count of each context is its queue plus its guard | `TypeInv` |
| `PollDeliveryProofs!NoUpdateLost` | `AckedWasExecuted`, with its exception for an item broken off behind its id, if callbacks run inline | `DeliveryInv` |
| `PollDeliveryProofs!ListenerImplementsDelivery` | the refinement `Safe => ImplementsDelivery`, if callbacks run inline | `DeliveryInv` |
| `PollDeliveryProofs!ListenerImplementsHandover` | the refinement `Safe => ImplementsHandover` | `HandoverInv` |
| `PollStopProofs!StopPrompt` | `StopIsPrompt`, any number of listeners | `StopInv` |
| `PollStopProofs!StopAllPrompt` | `StopAllIsPrompt`, one listener | `StopAllInv` |
| `PollStopProofs!CtrlCGraceful` | `CtrlCIsGraceful`, one thread | `CtrlCInv` |
| `PollStopProofs!EndHasCause` | `EndsForCause`, one listener | `CauseInv` |
| `PollStopProofs!PoolIsJoined` | `ThreadsAreJoined`, any number of listeners | `JoinedInv` |
| `PollStopProofs!PoolsAreIdle` | `OwnThreadExecutes`, any number of listeners | `PoolInv` |
| `PollStopProofs!PoolsExecuteNothing` | no update is executed by a program that only uses pools | `PoolInv` |
| `CallbacksProofs!TypeCorrect` | `Spec => []TypeOK` | its `TypeInv` |
| `CallbacksProofs!InOrder` | `CallsFollowOrder` | `OrderInv` |
| `CallbacksProofs!NobodyPassedOver` | `EveryoneIsTold` | `ToldInv` |
| `CallbacksProofs!UnsetHonoured` | `UnsetIsHonoured` | `FoundInv` |
| `SenderProofs!TypeCorrect` | `Safe => []TypeOK` | `TypeOK` itself |
| `SenderProofs!TextInOrder` | `PiecesInOrder` | `SendInv` |
| `SenderProofs!AskedIsDone` | `ReturnedIsDone` | `SendInv` |
| `SenderProofs!CallsArePostings` | the refinement `Safe => ImplementsPosting` | `SendInv`, `PostInv` |
| `JsonReaderProofs!TypeCorrect` | `Spec => []TypeOK` | `TypeOK` itself |
| `JsonReaderProofs!LossIsDamage` | `OnlyDamagedIsLost` | `LossInv` |
| `JsonReaderProofs!ValueIsWhole` | `NoHalfReadValue` | `LossInv` |
| `JsonReaderProofs!RefusalHasCause` | `RefusedForCause` | `LossInv` |
| `JsonReaderProofs!AnswersAreAsAssumed` | `AsSenderAssumes` | `Uncaught` |
| `BotProofs!BotTypeCorrect` | `BotSafe => []BotTypeOK` | `LinkInv` |
| `BotProofs!NoAnswerLost` | `AckedWasAnswered`, if callbacks run inline | `LinkInv`, and `NoUpdateLost` |
| `BotProofs!BotAnswers` | the refinement `BotSafe => ImplementsAnswering`, if callbacks run inline | `AnswerInv` |
| `BotProofs!InOrder` | `AnswersInOrder` | `LinkInv` |
| `BotProofs!BotKeepsPromises` | `ImplementsDelivery`, `ImplementsHandover` and the sender's `ImplementsPosting` in the composition, if callbacks run inline | `LinkInv` |
| `FcgiListenerProofs!TypeCorrect` | `Safe => []TypeOK` | its `TypeInv` |
| `FcgiListenerProofs!AcceptsKept` | `TwoAccepts` | `IInv` |
| `FcgiListenerProofs!ObjectsReused` | `ObjectsAreReused` | `IInv` |
| `FcgiListenerProofs!RepeatOnlyUnheard` | `RepeatedOnlyIfUnheard` | `IInv` |
| `FcgiListenerProofs!AnsweredExecuted` | `AnsweredIsExecuted` | `IInv` |
| `FcgiListenerProofs!ListenerImplementsPush` | the refinement `Safe => ImplementsPush` | `IInv` |

Why the invariants are what they are:

* `TypeInv` adds the accounting of work to `TypeOK`: that `work` is a natural number
  cannot be seen from the types, for a handler and the guard both count it down. It
  equals the queue's length plus one while the guard lives (`pc = "spawn"`).
* `DeliveryInv` relates the offset to the batch: everything below the offset was had
  (`Had`: executed or missed) or is the update in hand, everything below the server's
  mark was had, so was everything in front of the item in hand, `last` is behind `todo`,
  a broken item is one of the updates that the bot has received and the next behind the
  whole ones, and outside a batch the offset has no update in hand. The
  assumption `InlineOnly` is needed: with a pool the property is false (`pool_stops`).
* `HandoverInv` needs no `InlineOnly`: whatever `num_threads` is, or becomes between two
  updates, the offset is one past the last update taken (one past the update in hand while
  its callbacks run; if nothing was taken yet, an id cut in its digits has not moved it past
  what the server forgot), a reply begins with the update that is due, and while a
  request is under way the server has forgotten exactly what the run had taken.
* `PoolInv`: a run has no threads before it makes them, nothing is queued while it does, and so
  the end of the guard is the end of all work (`TypeInv`): a context with
  threads is stopped from then on. A thread in it can only return (`WorkerOnlyReturns`).
* `StopInv`: a stop on record is still to be read in the flag, or the loop has been
  left; once a request was sent after it, the loop is past its test.
* `StopAllInv` is the same for the global flag. `OneListenerOnly` is needed: two
  listeners take each other's stops (`pair_stop_all`).
* `CauseInv`: a flag that is clear under a run was cleared in it, since line 60 and line 61
  have set them. `OneListenerOnly` is needed: the test of one listener that ends takes
  place after the stop and before another's run.
* `CtrlCInv`: a listener in its loop has its handler installed or was disarmed.
  `~OtherThreads` is needed: another listener's return removes the handler too.
* `JoinedInv`: unless `num_threads` was changed in this run, a run with one thread has made
  none, and only such a run is ever in a callback, from which an exception could escape.
* `OrderInv`: every call made is of a slot the offer has reached, so the next is behind
  them all. `ToldInv`: what is steady is set, and was told if the offer is past it or
  has entered it. `FoundInv`: what is about to be called is there or was assigned since.
* `LossInv` follows the exception under way: the frames still on the stack are the outer ones
  of some damaged item, nothing optional is between them and it, and every other
  damaged item has been left out (`OneLeads`); when there is none, all have (`AllSeen`).
* `LinkInv` puts the invariants of the two parts together with `Link`: the callback of an
  update is in the call made for it, if it is called at all, and every update executed has
  a call that has returned. A step of `Bot` is a step or stutter of `PollListener` (`PollStep`) and one of `Sender`
  (`CallStep`), so `NoUpdateLost` and the lemmas of `SenderProofs`, taken
  through an instance, hold in it; with `Link` they give `NoAnswerLost`. `AnswerInv` adds
  `DeliveryInv`; `Unmade`: a call that was not made has done nothing, so that no update
  is answered by being given a number; and `MissedIsPast`: what was missed is behind what is in
  hand, so that no answer is one to it. An update is answered when its call comes back, a
  step of the sender, while the listener's `last` follows later; the refinement maps
  `last` to the update in hand from the one to the other (`Replied`). Unanswered is what was
  missed and not answered all the same, by a callback that a part of it was enough for.
* `SendInv`: the delivered pieces are contiguous and reach to `to` if the server has
  delivered the piece in hand and to `from` if not; a call goes on to the next piece
  only from a delivered one. `PostInv` adds, for the refinement, that
  what is sent is one piece of a text not yet sent whole (`PieceInv`).
* `Uncaught`: an exception gets out of the functions that catch none and of no other. With
  the table of operations it is what `Sender` takes for granted, for any schema of types.
* `IInv` of `FcgiListener`: each request object that was made is in exactly one place
  (`OnePlace`, `SomePlace`): out of use, with an accept outstanding, on the strand, in
  hand, or suspended. With `TwoAccepts` this bounds the objects: one is made only when
  none is out of use, and so only while fewer than two are anywhere. For the answers, a
  connection that was seen is never open again under the same attempt (`OpenInv`,
  `KnownInv`), what is being refused is no update or its sender has gone (`RefuseInv`),
  and the calls of the callbacks for an update are counted against its answers,
  heard and unheard (`RepeatInv`). `ServedInv` says that what is answered as an
  update is one: the object of the handler that runs is not accepted on anew by a
  handler nested in it. That makes every step of an answer one of `UpdatePush` (`PushStep`).

Model-checked only: everything under fairness (`Delivered`, `StopReturns`,
`StopAllReturns`, `DispatchEnds`, `SendReturns`, `CallbacksComeBack`,
`RequestsAreAnswered`), since liveness is outside the prover's reach. Every invariant
and every action property of the passing runs is proved. The counterexamples of the other
runs are about one instance, but for that of the pool (`PoolsExecuteNothing`).

## Not modelled

* **In the FastCGI listener**: kept connections, headers that come in pieces, a POST
  without CONTENT_LENGTH (whose load throws), threads that cannot be created, and the
  assignment of callbacks meanwhile, which is in `Callbacks`. The listener is disabled
  with Boost 1.70 and later (config.h:16, README:34).
* **Reply markup**: each type writes its fields into the tree of a request. It keeps no state
  between calls, and fails only where `std::get` throws in a constructor, on a content of
  another type than the button's.
* **Formatting and transport of requests**: which parameters an operation writes, and how;
  the boundaries of a multipart body.
* **`types::file`'s download**: opens one stream and copies it.
* **Vendored libraries** (`json.hpp`, `httplib.h`, `urdl`, most of `boost/cgi`): third-party,
  and most of the lines in the repository. What the listeners and the sender rely on is in
  the outcomes of their actions, in `IoContext`, and for the acceptor, reads and commit
  of Boost.CGI in `FcgiListener`. What the map covers is therefore a small share of all lines,
  though nearly all of poll.h, fcgi.h and the control of base.h and sender.h.
* **Other examples and the webhook script**: they set up the same parts as `Bot`, or a
  FastCGI listener; the script calls `setWebhook`.
* In poll.h: the build with `TELEGRAM_NO_SIGNAL_HANDLER`, what line 90 reads with `NDEBUG`
  of an item without `update_id`, and the overflow of `update_id + 1`
  at 2^31 - 1; ids are natural numbers.
* With a pool, a callback that throws: no callback is ever run there (`PoolsExecuteNothing`).

## How it was built

1. `Telegram`, `IoContext`, `PollListener`, `UpdateDelivery`; type, delivery and stop
   theorems.
2. `Callbacks`; `Sender`; their theorems.
3. `FcgiListener` and its theorems.
4. `Api`, and with it every operation of the sender.
5. `Types` and `JsonReader`: the exceptions that stand for absence; their theorems.
6. The program's own calls of `set_` and `unset_signal_handler` and of `set_num_threads`
   during a run, in `PollListener`; `ThreadsAreJoined` and `EndsForCause`, proved.
7. `Bot`, the composition of the listener with the sender, and the theorem that no answer is lost.
8. The abstract specifications `UpdatePush`, `Posting` and `UpdateHandover`, and the proofs that
   the listeners and the sender implement them; that a bot answers as its listener delivers; that a pool never works; and what the reader
   of answers owes the sender.

What could follow: `Bot` with a FastCGI listener in the place of the polling one; update
ids at the width of an int.
