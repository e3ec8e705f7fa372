---------------------------- MODULE FcgiListener ----------------------------
(***************************************************************************)
(* fcgi::run (listeners/fcgi.h) with what it runs through in Boost.CGI: two *)
(* accepts outstanding, the strand that every accept and every handler goes *)
(* through, request objects that are used again, and a read of a record's  *)
(* header that runs other handlers of the io_context while it waits.       *)
(*                                                                         *)
(* On the other side the web server opens a connection for each request and *)
(* may hang up on it at any time; Telegram posts an update again until an   *)
(* answer reaches it.  Connections are not kept (no FCGI_KEEP_CONN), headers *)
(* of records come in one piece, and a POST has its CONTENT_LENGTH.         *)
(***************************************************************************)
EXTENDS Integers, Sequences, FiniteSets

CONSTANTS
  Updates,      \* what Telegram posts
  Strays,       \* requests of anybody else: not a POST, or no json
  Threads,      \* the values of num_threads
  MaxAttempts,  \* bound: how often a request is sent
  MaxObjects,   \* bound: request objects made in one run
  NoConnection  \* of an object that has none

Requests == Updates \cup Strays
Connections == [request : Requests, attempt : 1..MaxAttempts]
Objects == 1..MaxObjects

ASSUME FcgiAssumption == /\ Updates \cap Strays = {}
                         /\ Threads \subseteq Nat \ {0}
                         /\ MaxAttempts \in Nat
                         /\ MaxObjects \in Nat
                         /\ NoConnection \notin Connections

VARIABLES
  attempts,   \* attempts[r]: how often r was sent
  open,       \* connections the web server has open
  backlog,    \* connections nobody has accepted yet
  finished    \* requests whose sender has its answer

web == <<attempts, open, backlog, finished>>

VARIABLES
  life,       \* of the listener's process
  threads,    \* num_threads of this run
  strand,     \* what waits on strand_: DoAccept, or the object to be handled
  at,         \* where the handler that runs on the strand is, or "idle"
  current,    \* the object it handles, or DoAccept if there is none
  suspended,  \* handlers that wait below it, on the same thread
  stalled,    \* it waits for an event, and what it waited for has been
  created,    \* request objects made
  waiting,    \* waiting_requests_
  running,    \* running_requests_
  accepting,  \* objects with an async_accept outstanding
  connection  \* connection[o]: what object o was accepted on

handler == <<at, current, suspended, stalled>>
objects == <<created, waiting, running, accepting, connection>>

VARIABLES     \* history, for properties only
  executed,   \* executed[r]: times the callbacks were called for r
  unheard,    \* unheard[r]: answers to r that were written and never arrived
  excused     \* updates in hand, answered and not executed, when the process ended

history == <<executed, unheard, excused>>
vars == <<web, life, threads, strand, handler, objects, history>>

DoAcceptTask == 0

Stages == {"idle", "load", "commit", "refuse", "raw", "execute", "reaccept", "finish"}

\* Where records are read: load, and the close of a request that is not read to its end.
Reading == {"load", "refuse"}
Suspensions == [object : Objects, at : Reading]

TypeOK ==
  /\ attempts \in [Requests -> 0..MaxAttempts]
  /\ open \subseteq Connections
  /\ backlog \subseteq Connections
  /\ finished \subseteq Requests
  /\ life \in {"down", "running", "returned", "terminated"}
  /\ threads \in Threads
  /\ strand \in Seq(0..MaxObjects)
  /\ at \in Stages
  /\ current \in 0..MaxObjects
  /\ suspended \in Seq(Suspensions)
  /\ stalled \in BOOLEAN
  /\ created \in 0..MaxObjects
  /\ waiting \in Seq(Objects)
  /\ running \subseteq Objects
  /\ accepting \subseteq Objects
  /\ connection \in [Objects -> Connections \cup {NoConnection}]
  /\ executed \in [Requests -> Nat]
  /\ unheard \in [Requests -> Nat]
  /\ excused \subseteq Requests

NoConnections == [o \in Objects |-> NoConnection]

Init == /\ attempts = [r \in Requests |-> 0]
        /\ open = {} /\ backlog = {} /\ finished = {}
        /\ life = "down"
        /\ threads \in Threads
        /\ strand = <<>> /\ at = "idle" /\ current = DoAcceptTask
        /\ suspended = <<>> /\ stalled = FALSE
        /\ created = 0 /\ waiting = <<>> /\ running = {} /\ accepting = {}
        /\ connection = NoConnections
        /\ executed = [r \in Requests |-> 0]
        /\ unheard = [r \in Requests |-> 0]
        /\ excused = {}

-----------------------------------------------------------------------------
(* The web server and those behind it.                                     *)

Send(r) ==
  /\ r \notin finished
  /\ \A c \in open : c.request # r
  /\ attempts[r] < MaxAttempts
  /\ attempts' = [attempts EXCEPT ![r] = @ + 1]
  /\ LET c == [request |-> r, attempt |-> attempts[r] + 1]
     IN open' = open \cup {c} /\ backlog' = backlog \cup {c}
  /\ UNCHANGED <<finished, life, threads, strand, handler, objects, history>>

\* A time limit is up, or a client has gone; the connection stays in the backlog or
\* with the listener.
HangUp(c) ==
  /\ c \in open
  /\ open' = open \ {c}
  /\ UNCHANGED <<attempts, backlog, finished, life, threads, strand, handler,
                 objects, history>>

-----------------------------------------------------------------------------
(* The listener's process.                                                 *)

\* The web server starts it, and run() makes two calls of async_accept.
Run(n) ==
  /\ life # "running"
  /\ life' = "running"
  /\ threads' = n
  /\ strand' = <<DoAcceptTask, DoAcceptTask>>
  /\ UNCHANGED <<web, handler, objects, history>>

\* With the service go all its objects, and the connections they hold are closed.
\* What nobody has accepted stays in the backlog of the web server's socket.
End(how) ==
  /\ life' = how
  /\ open' = open \ {connection[o] : o \in running}
  /\ strand' = <<>> /\ at' = "idle" /\ current' = DoAcceptTask
  /\ suspended' = <<>> /\ stalled' = FALSE
  /\ created' = 0 /\ waiting' = <<>> /\ running' = {} /\ accepting' = {}
  /\ connection' = NoConnections
  /\ excused' = IF at \in {"raw", "execute"}
                  THEN excused \cup {connection[current].request} ELSE excused
  /\ UNCHANGED <<attempts, backlog, finished, threads>>

\* An exception leaves service.run(): on the main thread run() catches it and
\* returns, on any other thread it is std::terminate.
Throw == End(IF threads = 1 THEN "returned" ELSE "terminated")

Kill == life = "running" /\ End("down") /\ UNCHANGED <<executed, unheard>>

-----------------------------------------------------------------------------
(* acceptor_service_impl: the strand, which one thread has at a time.       *)

\* Mutated: objects out of use are not looked for.
DoAcceptNew ==
  /\ at = "idle" /\ strand # <<>>
  /\ Head(strand) = DoAcceptTask
  /\ strand' = Tail(strand)
  /\ created' = created + 1
  /\ running' = running \cup {created'}
  /\ accepting' = accepting \cup {created'}
  /\ UNCHANGED <<web, life, threads, handler, waiting, connection, history>>

\* do_accept: the oldest object that waits for use, or a new one.
DoAccept ==
  /\ at = "idle" /\ strand # <<>>
  /\ Head(strand) = DoAcceptTask
  /\ strand' = Tail(strand)
  /\ \E o \in Objects :
       /\ IF waiting = <<>>
            THEN o = created + 1 /\ created' = o /\ UNCHANGED waiting
            ELSE o = Head(waiting) /\ waiting' = Tail(waiting) /\ UNCHANGED created
       /\ running' = running \cup {o}
       /\ accepting' = accepting \cup {o}
  /\ UNCHANGED <<web, life, threads, handler, connection, history>>

\* handle_accept of o is dispatched to the strand.  It waits there if another thread
\* has the strand; the thread that has it and reads a record calls it at once.
Dispatch(o) ==
  \/ /\ at = "idle" \/ threads > 1
     /\ strand' = Append(strand, o)
     /\ UNCHANGED handler
  \/ /\ at \in Reading
     /\ suspended' = <<[object |-> current, at |-> at]>> \o suspended
     /\ current' = o /\ at' = "load" /\ stalled' = FALSE
     /\ UNCHANGED strand

\* The accept of object o is done.
Accept(o, c) ==
  /\ o \in accepting
  /\ c \in backlog
  /\ backlog' = backlog \ {c}
  /\ accepting' = accepting \ {o}
  /\ connection' = [connection EXCEPT ![o] = c]
  /\ Dispatch(o)
  /\ UNCHANGED <<attempts, open, finished, life, threads, created, waiting, running, history>>

\* Mutated: a failed accept is given up.
AcceptGivenUp(o) ==
  /\ o \in accepting
  /\ accepting' = accepting \ {o}
  /\ UNCHANGED <<web, life, threads, strand, handler, created, waiting, running,
                 connection, history>>

\* The accept ends with an error, which handle_accept does not look at.
AcceptFails(o) ==
  /\ o \in accepting
  /\ accepting' = accepting \ {o}
  /\ Dispatch(o)
  /\ UNCHANGED <<web, life, threads, created, waiting, running, connection, history>>

HandleAccept ==
  /\ at = "idle" /\ strand # <<>>
  /\ Head(strand) # DoAcceptTask
  /\ strand' = Tail(strand)
  /\ at' = "load"
  /\ current' = Head(strand)
  /\ UNCHANGED <<web, life, threads, suspended, stalled, objects, history>>

-----------------------------------------------------------------------------
(* handle_request.                                                         *)

Client == connection[current]

\* Mutated: the answer waits for the callbacks.
CallbacksFirst(stage) == CASE stage = "load" -> "raw"
                           [] stage = "raw" -> "execute"
                           [] stage = "execute" -> "commit"
                           [] OTHER -> "reaccept"

\* Mutated: the good commit is returned as the others are.
CommitReturned(stage) == IF stage = "load" THEN "commit" ELSE "reaccept"

\* Mutated: a request that is refused is left at that.
RefusalReturns(stage) == CASE stage = "load" -> "commit"
                           [] stage = "commit" -> "raw"
                           [] stage = "raw" -> "execute"
                           [] stage = "execute" -> "reaccept"
                           [] OTHER -> "finish"

\* What an update goes through; behind a refusal nothing is left to do.
After(stage) == CASE stage = "load" -> "commit"
                  [] stage = "commit" -> "raw"
                  [] stage = "raw" -> "execute"
                  [] OTHER -> "reaccept"

\* What is ready to be read of a request may be all of it, hung up or not.
Load ==
  /\ at = "load" /\ ~ stalled
  /\ Client # NoConnection
  /\ at' = IF Client.request \in Updates THEN After("load") ELSE "refuse"
  /\ UNCHANGED <<web, life, threads, strand, current, suspended, stalled, objects, history>>

\* The connection breaks off in the middle, or there is none.
LoadBreaksOff ==
  /\ at = "load" /\ ~ stalled
  /\ Client \notin open
  /\ at' = "refuse"
  /\ UNCHANGED <<web, life, threads, strand, current, suspended, stalled, objects, history>>

\* The header is read by another thread, while this one waits in run_one.
Stall ==
  /\ at \in Reading /\ ~ stalled
  /\ threads > 1
  /\ stalled' = TRUE
  /\ UNCHANGED <<web, life, threads, strand, at, current, suspended, objects, history>>

\* It gets to run the end of a read of the handler below.
Wake ==
  /\ stalled /\ suspended # <<>>
  /\ stalled' = FALSE
  /\ UNCHANGED <<web, life, threads, strand, at, current, suspended, objects, history>>

\* The commit of an answer, which arrives.
CommitArrives ==
  /\ at \in {"commit", "refuse"} /\ ~ stalled
  /\ Client \in open
  /\ open' = open \ {Client}
  /\ finished' = finished \cup {Client.request}
  /\ at' = After(at)
  /\ UNCHANGED <<attempts, backlog, life, threads, strand, current, suspended, stalled,
                 objects, history>>

\* The web server has hung up, and the answer is written to nobody.
CommitUnheard ==
  /\ at \in {"commit", "refuse"} /\ ~ stalled
  /\ Client \notin open \cup {NoConnection}
  /\ unheard' = IF at = "commit" THEN [unheard EXCEPT ![Client.request] = @ + 1] ELSE unheard
  /\ at' = After(at)
  /\ UNCHANGED <<web, life, threads, strand, current, suspended, stalled, objects,
                 executed, excused>>

\* The web server has hung up, and the commit throws.
CommitFails ==
  /\ at \in {"commit", "refuse"} /\ ~ stalled
  /\ Client \notin open
  /\ Throw
  /\ UNCHANGED <<executed, unheard>>

CallbackRaw ==
  /\ at = "raw"
  /\ at' = After(at)
  /\ UNCHANGED <<web, life, threads, strand, current, suspended, stalled, objects, history>>

\* Nothing is around the call of callback_raw.
CallbackRawThrows == at = "raw" /\ Throw /\ UNCHANGED <<executed, unheard>>

Executed == executed' = [executed EXCEPT ![Client.request] = @ + 1]

ExecuteCallbacks ==
  /\ at = "execute"
  /\ Executed
  /\ at' = After(at)
  /\ UNCHANGED <<web, life, threads, strand, current, suspended, stalled, objects,
                 unheard, excused>>

\* What a callback throws and is no std::exception.
CallbackThrows == at = "execute" /\ Executed /\ Throw /\ UNCHANGED unheard

-----------------------------------------------------------------------------
(* handle_request_async, and the end of handle_accept.                     *)

\* Mutated: do_accept is dispatched and so runs at once, on the strand as it is.
ReacceptNow ==
  /\ at = "reaccept"
  /\ at' = "finish"
  /\ created < MaxObjects
  /\ created' = created + 1
  /\ running' = running \cup {created'}
  /\ accepting' = accepting \cup {created'}
  /\ UNCHANGED <<web, life, threads, strand, current, suspended, stalled, waiting,
                 connection, history>>

\* do_accept is posted, and runs when this handler has left the strand.
Reaccept ==
  /\ at = "reaccept"
  /\ at' = "finish"
  /\ strand' = Append(strand, DoAcceptTask)
  /\ UNCHANGED <<web, life, threads, current, suspended, stalled, objects, history>>

\* The object is out of use; the connection was closed by the commit.  The thread is
\* back where it waited, and looks whether the header it waited for is there.
Finish ==
  /\ at = "finish"
  /\ IF suspended = <<>>
       THEN at' = "idle" /\ current' = DoAcceptTask /\ UNCHANGED suspended
       ELSE at' = Head(suspended).at /\ current' = Head(suspended).object
              /\ suspended' = Tail(suspended)
  /\ running' = running \ {current}
  /\ connection' = [connection EXCEPT ![current] = NoConnection]
  /\ waiting' = Append(waiting, current)
  /\ UNCHANGED <<web, life, threads, strand, stalled, created, accepting, history>>

-----------------------------------------------------------------------------
OnStrand == \/ DoAccept \/ HandleAccept
            \/ Load \/ LoadBreaksOff
            \/ CommitArrives \/ CommitUnheard \/ CommitFails
            \/ CallbackRaw \/ CallbackRawThrows
            \/ ExecuteCallbacks \/ CallbackThrows
            \/ Reaccept \/ Finish

Accepts == \E o \in Objects, c \in backlog : Accept(o, c)

Next == \/ \E r \in Requests : Send(r)
        \/ \E c \in open : HangUp(c)
        \/ \E n \in Threads : Run(n)
        \/ Kill
        \/ OnStrand
        \/ Accepts
        \/ \E o \in Objects : AcceptFails(o)
        \/ Stall \/ Wake

Safe == Init /\ [][Next]_vars

\* A thread is there for what the strand has to do, callbacks return, the web server
\* sends a request to its end or hangs up, and connections are accepted.
Spec == Safe /\ WF_vars(OnStrand) /\ WF_vars(Accepts)

-----------------------------------------------------------------------------
(* Properties.                                                             *)

\* fcgi.h:88: Telegram's answer is committed before the callbacks, so that it "won't
\* resend even if callbacks crash".  An update whose callbacks are called again, after
\* whatever was thrown, killed or hung up, is one whose answer did not arrive.
RepeatedOnlyIfUnheard ==
  \A r \in Updates : executed[r] > 1 => unheard[r] >= executed[r] - 1

\* An update that Telegram has its answer to, and so will not post again, had its
\* callbacks called, unless the listener is at it or ended when it was.
AnsweredIsExecuted ==
  \A r \in Updates \cap finished :
    \/ executed[r] > 0
    \/ r \in excused
    \/ at \in {"raw", "execute"} /\ Client.request = r

\* However requests come, are refused or hung up on, the listener that runs goes on
\* with the two accepts of fcgi.h:30 (lines 74, 85, 95 all return to line 101).
TwoAccepts ==
  life = "running" =>
    Cardinality(accepting) + Len(strand) + Len(suspended)
      + (IF at \in {"idle", "finish"} THEN 0 ELSE 1) = 2

\* A request object is given out again only after the request it was used for
\* has come to its end, and two are enough (do_accept runs after handle_accept has
\* put its object back, since it is posted to the same strand).
ObjectsAreReused ==
  /\ created <= 2
  /\ \A i \in DOMAIN waiting : waiting[i] \notin running

\* Seen by Telegram and from the callbacks, the listener is an UpdatePush: one answer,
\* one call of the callbacks, however connections, threads and failures interleave.
Push == INSTANCE UpdatePush WITH
  up <- life = "running",
  heard <- finished \cap Updates,
  unheard <- [u \in Updates |-> unheard[u]],
  executed <- [u \in Updates |-> executed[u]],
  owed <- IF at \in {"raw", "execute"} THEN {Client.request} ELSE {}

ImplementsPush == Push!Spec

Waits(c) == c \in open /\ life = "running"

\* With one thread, the sender of a request has its answer in the end, or gives up, or
\* the listener comes to its end; no request is left lying.
RequestsAreAnswered ==
  \A c \in Connections : threads = 1 /\ Waits(c) ~> ~ Waits(c)

\* README:48: the listener "can service many connections from Telegram simultaneously
\* without blocking": with any number of threads, none of them waits for ever.
ThreadsDoNotBlock ==
  \A c \in Connections : Waits(c) ~> ~ Waits(c)
=============================================================================
