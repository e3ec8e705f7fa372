----------------------------- MODULE IoContext ------------------------------
(***************************************************************************)
(* boost::asio::io_context as the listeners use it: a queue of handlers, a *)
(* count of outstanding work (queued handlers and work guards) and the     *)
(* stopped flag.  The library is external; these operators say what its    *)
(* calls do to a context c, each under the library's own lock, so each is  *)
(* one atomic change.                                                      *)
(*                                                                         *)
(* The rule everything hangs on: a context whose work count falls to zero  *)
(* stops itself, run() then returns in every thread, and nothing posted    *)
(* afterwards is run, for nothing calls restart().                         *)
(***************************************************************************)
EXTENDS Integers, Sequences

Contexts(H) == [work : Nat, stopped : BOOLEAN, queue : Seq(H)]

NewContext == [work |-> 0, stopped |-> FALSE, queue |-> <<>>]

\* make_work_guard
WorkStarted(c) == [c EXCEPT !.work = @ + 1]

\* the destructor of a work guard, and the end of every handler
WorkFinished(c) == [c EXCEPT !.work = @ - 1, !.stopped = @ \/ c.work = 1]

\* io_context::stop
ContextStopped(c) == [c EXCEPT !.stopped = TRUE]

\* boost::asio::post
Posted(c, h) == [c EXCEPT !.work = @ + 1, !.queue = Append(@, h)]

\* A thread in run() leaves it: the context is stopped, or there is no work.
RunReturns(c) == c.stopped \/ c.work = 0

\* A thread in run() takes the oldest handler and runs it to its end.
HandlerRan(c) == WorkFinished([c EXCEPT !.queue = Tail(@)])
=============================================================================
