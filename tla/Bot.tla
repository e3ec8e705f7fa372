-------------------------------- MODULE Bot --------------------------------
(***************************************************************************)
(* A bot as in examples/echo.cpp with set_num_threads(1): an inline polling *)
(* listener whose callback answers each update, on the listener's thread,   *)
(* with one call of its sender, and that calls nothing else.  The callback  *)
(* comes back when that call does, with a value or with an exception, which *)
(* execute_callbacks catches.                                              *)
(*                                                                         *)
(* Calls are numbered in the order in which they are made.  A call that the *)
(* end of the process cuts short goes no further, but what it had sent is    *)
(* with the server, which may get to it later.                             *)
(***************************************************************************)
EXTENDS PollListener

CONSTANTS message_length_limit,
          Answers,    \* what an update may be answered with
          MaxCalls    \* bound: calls made for a listener in a behaviour

BotCalls == Listeners \X (1..MaxCalls)

VARIABLES phase, answer, from, to, request, result, chat  \* of Sender, for each call

VARIABLES made,      \* made[l]: how many calls there were
          update     \* update[c]: what the call is an answer to, 0 before it is made

S == INSTANCE Sender WITH Calls <- BotCalls, Requests <- Answers,
      Limit <- message_length_limit, asked <- answer

\* An answer has a text: echo.cpp writes one of its own around what it has received.
ASSUME BotAssumption ==
  /\ MaxCalls \in Nat
  /\ S!SenderAssumption
  /\ \A r \in Answers : r.size # 0

posts   == <<phase, answer, from, to, request, result, chat>>
botVars == <<vars, posts, made, update>>

BotTypeOK == /\ TypeOK /\ S!TypeOK
             /\ made \in [Listeners -> 0..MaxCalls]
             /\ update \in [BotCalls -> Nat]

BotInit == /\ Init
           /\ S!Init
           /\ made = [l \in Listeners |-> 0]
           /\ update = [c \in BotCalls |-> 0]

-----------------------------------------------------------------------------
\* The call in which the callback of l is.
Current(l) == <<l, made[l]>>

\* execute_callbacks has an item, and the call that the callback will answer it with a
\* number.
CallbackBegins(l) ==
  /\ made[l] < MaxCalls
  /\ ExecuteInline(l)
  /\ made' = [made EXCEPT ![l] = @ + 1]
  /\ update' = [update EXCEPT ![<<l, made[l] + 1>>] = todo[l]]
  /\ UNCHANGED posts

\* A step of the send_message that the callback calls.  Without the whole id there is no
\* message behind it, and nothing to call the callback with.
CallbackSends(l) ==
  /\ At(l, "callback")
  /\ Identified(l)
  /\ S!Begin(Current(l)) \/ S!Sends(Current(l))
  /\ UNCHANGED <<vars, made, update>>

\* The callback is back; or it was not called, for from_json made no message of what
\* there is of the item.
CallbackEnds(l) ==
  /\ CallbacksReturn(l)
  /\ \/ Identified(l) /\ phase[Current(l)] = "returned"
     \/ ~Whole(l) /\ phase[Current(l)] = "idle"
  /\ UNCHANGED <<posts, made, update>>

\* A step of the run outside of the callback.
Polls(l) ==
  /\ Runs(l)
  /\ "callback" \notin {pc[l], pc'[l]}
  /\ UNCHANGED <<posts, made, update>>

Answered(l) ==
  /\ ReplyUpdates(l)
  /\ UNCHANGED <<posts, made, update>>

\* What happens to the bot, its polls and its process.  main() may call run() again;
\* that it ends instead is a Crash.
Happens ==
  /\ \/ \E l \in Listeners :
          BotReceives(l) \/ CallRun(l) \/ (Fails(l) /\ pc[l] # "callback")
     \/ SigintHandled \/ SigintKills \/ Handler
     \/ Crash \/ Restart
  /\ UNCHANGED <<posts, made, update>>

\* The server gets to a message, also when its sender has given up or died.
ServerActs(c) ==
  /\ S!Delivers(c) \/ S!Refuses(c)
  /\ UNCHANGED <<vars, made, update>>

BotRuns(l) == CallbackBegins(l) \/ CallbackSends(l) \/ CallbackEnds(l) \/ Polls(l)

BotNext == \/ \E l \in Listeners : BotRuns(l) \/ Answered(l)
           \/ Happens
           \/ \E c \in BotCalls : ServerActs(c)

BotSafe == BotInit /\ [][BotNext]_botVars

\* The listener's thread is scheduled whatever signals interrupt it, and a hold and a read
\* end at their timeouts.  Callbacks are not taken to come back, nor the server to answer.
BotSpec == /\ BotSafe
           /\ \A l \in Listeners : SF_botVars(BotRuns(l))
           /\ WF_botVars(Handler /\ UNCHANGED <<posts, made, update>>)

-----------------------------------------------------------------------------
(* Properties.                                                             *)

\* The call c was made, and its callback knows what became of it: it came back with
\* the whole answer in the chat, or with an exception.
Settled(c) ==
  /\ phase[c] = "returned"
  /\ \/ result[c] = "exception"
     \/ chat[c] # <<>> /\ chat[c][Len(chat[c])].to = answer[c].size

\* An update that the server is told to forget (poll.h:82) was answered whole, or its
\* callback was told by an exception that it may not be, or its own item broke off behind
\* its id in the run that acknowledged it: a crash, ctrl-c or failed request, between the
\* polls or between the pieces of an answer, loses no answer, and a reply that breaks
\* off loses that one at most.
AckedWasAnswered ==
  \A l \in Listeners : \A u \in 1..confirmed[l] :
    \/ u \in missed[l]
    \/ \E k \in 1..made[l] : update[<<l, k>>] = u /\ Settled(<<l, k>>)

\* Answers get into the chat in the order of the updates, unless the earlier one's call
\* was given up: by an exception (the read timeout of sender.h:396) or with the process.
AnswersInOrder ==
  [][\A l \in Listeners : \A j, k \in 1..MaxCalls :
       j < k /\ chat[<<l, k>>] # <<>> /\ chat'[<<l, j>>] # chat[<<l, j>>]
         => result[<<l, j>>] = "exception" \/ phase[<<l, j>>] # "returned"]_botVars

\* The updates whose answers are settled, whole in the chat or known to be in doubt; and
\* whether that in hand is one, though its callback has still to come back.
answered == [l \in Listeners |->
               {update[<<l, k>>] : k \in {j \in 1..made[l] : Settled(<<l, j>>)}}]

Replied(l) == pc[l] = "callback" /\ Settled(Current(l))

lastAnswered  == [l \in Listeners |-> IF Replied(l) THEN todo[l] ELSE last[l]]
answersInRun  == [l \in Listeners |-> IF Replied(l) THEN count[l] + 1 ELSE count[l]]

unanswered == [l \in Listeners |-> missed[l] \ answered[l]]

\* Towards the people who write to it a bot is what its listener is towards its callback:
\* in a run it answers updates in the order of their coming and none twice, and the
\* server forgets none whose answer is not settled but those that came broken off.
Answering == INSTANCE UpdateDelivery WITH Bots <- Listeners, forgotten <- confirmed,
  executed <- answered, missed <- unanswered, last <- lastAnswered, count <- answersInRun

ImplementsAnswering == Answering!Spec

\* A callback comes back, whatever the server does about its answer: what PollListener
\* assumes of callbacks, Sender keeps for this one.
CallbacksComeBack ==
  \A l \in Listeners : pc[l] = "callback" ~> pc[l] # "callback"
=============================================================================
