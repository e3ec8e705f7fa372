------------------------------- MODULE Sender -------------------------------
(***************************************************************************)
(* The operations of a sender (sender.h), each a request to the server and  *)
(* the reading of its answer.  A text that send_message is called with and  *)
(* that is longer than message_length_limit bytes is cut and sent as        *)
(* several messages, one request after the other.  Senders keep no state,   *)
(* so calls differ in nothing but what they ask: they are made from any     *)
(* threads, one after the other or at the same time.                        *)
(*                                                                         *)
(* What is asked is the operation and its text: a number of bytes and the   *)
(* places between its characters.  A piece of it is an interval of bytes.   *)
(* For an operation without a text it is one piece, however long.  A        *)
(* request given up by the client is still under way, and the server may    *)
(* get to it later or never.                                                *)
(***************************************************************************)
EXTENDS Api, Integers

CONSTANTS Calls,     \* the calls made in a behaviour
          Requests,  \* what they are made with
          Limit      \* message_length_limit, in bytes

\* between: a character of UTF-8 text begins or ends there.
ASSUME SenderAssumption ==
  /\ Limit \in Nat \ {0}
  /\ Requests \subseteq [operation : Operations, size : Nat, between : SUBSET Nat]
  /\ \A r \in Requests : {0, r.size} \subseteq r.between

VARIABLES
  phase,     \* phase[c]: where the call is
  asked,     \* what it was called with
  from, to,  \* the piece being sent; what is before it was sent earlier
  request,   \* the last request: whether the server has seen to it
  result     \* what the call comes back with

\* history: chat[c] is the pieces of what was asked that the server carried out
VARIABLE chat

vars == <<phase, asked, from, to, request, result, chat>>

Phases == {"idle", "split", "serialise", "post", "waiting", "answered", "returned"}

TypeOK == /\ phase \in [Calls -> Phases]
          /\ asked \in [Calls -> Requests]
          /\ from \in [Calls -> Nat]
          /\ to \in [Calls -> Nat]
          /\ request \in [Calls -> {"none", "sent", "delivered", "refused"}]
          /\ result \in [Calls -> {"none", "value", "nothing", "exception"}]
          /\ chat \in [Calls -> Seq([from : Nat, to : Nat])]

Init == /\ phase = [c \in Calls |-> "idle"]
        /\ asked \in [Calls -> Requests]
        /\ from = [c \in Calls |-> 0] /\ to = [c \in Calls |-> 0]
        /\ request = [c \in Calls |-> "none"]
        /\ result = [c \in Calls |-> "none"]
        /\ chat = [c \in Calls |-> <<>>]

Goto(c, p) == phase' = [phase EXCEPT ![c] = p]

ReturnWith(c, r) == Goto(c, "returned") /\ result' = [result EXCEPT ![c] = r]

-----------------------------------------------------------------------------
(* The call.                                                               *)

Empty(r) == NeedsText(r.operation) /\ r.size = 0

Begin(c) ==
  /\ phase[c] = "idle"
  /\ IF Empty(asked[c]) THEN ReturnWith(c, "nothing")
                        ELSE Goto(c, "split") /\ UNCHANGED result
  /\ UNCHANGED <<asked, from, to, request, chat>>

\* Mutated: the last piece ends where what is left is longer than the limit.
PieceEndBack(r, start) ==
  IF Cuts(r.operation) /\ r.size - start > Limit THEN start + Limit
                                                  ELSE r.size - start - Limit

\* Mutated: a piece is cut behind the limit.
PieceEndPast(r, start) ==
  IF Cuts(r.operation) /\ r.size - start > Limit THEN start + Limit + 1 ELSE r.size

\* The end of the next piece: the limit, or the end of the text.
PieceEnd(r, start) ==
  IF Cuts(r.operation) /\ r.size - start > Limit THEN start + Limit ELSE r.size

Split(c) ==
  /\ phase[c] = "split"
  /\ to' = [to EXCEPT ![c] = PieceEnd(asked[c], from[c])]
  /\ Goto(c, "serialise")
  /\ UNCHANGED <<asked, from, request, result, chat>>

\* json::dump throws when the piece begins or ends inside a character.
Serialise(c) ==
  /\ phase[c] = "serialise"
  /\ IF {from[c], to[c]} \subseteq asked[c].between
       THEN Goto(c, "post") /\ UNCHANGED result
       ELSE ReturnWith(c, "exception")
  /\ UNCHANGED <<asked, from, to, request, chat>>

Post(c) ==
  /\ phase[c] = "post"
  /\ Goto(c, "waiting")
  /\ request' = [request EXCEPT ![c] = "sent"]
  /\ UNCHANGED <<asked, from, to, result, chat>>

NoConnection(c) ==
  /\ phase[c] = "post"
  /\ ReturnWith(c, "exception")
  /\ UNCHANGED <<asked, from, to, request, chat>>

-----------------------------------------------------------------------------
(* The server, which answers with status 200 exactly when it delivers.      *)

Delivers(c) ==
  /\ request[c] = "sent"
  /\ request' = [request EXCEPT ![c] = "delivered"]
  /\ chat' = [chat EXCEPT ![c] = Append(@, [from |-> from[c], to |-> to[c]])]
  /\ UNCHANGED <<phase, asked, from, to, result>>

Refuses(c) ==
  /\ request[c] = "sent"
  /\ request' = [request EXCEPT ![c] = "refused"]
  /\ UNCHANGED <<phase, asked, from, to, result, chat>>

-----------------------------------------------------------------------------
(* What send_json comes back with, and what is made of it.                 *)

\* Mutated: a call that has had no answer goes on.
NoAnswerGoesOn(c) ==
  /\ phase[c] = "waiting"
  /\ Goto(c, "answered")
  /\ result' = [result EXCEPT ![c] = "nothing"]
  /\ UNCHANGED <<asked, from, to, request, chat>>

\* Mutated: there is no read timeout.
NoAnswerWaits(c) ==
  /\ phase[c] = "waiting"
  /\ request[c] # "sent"
  /\ ReturnWith(c, "exception")
  /\ UNCHANGED <<asked, from, to, request, chat>>

\* The connection is lost, or the read times out, whatever the server has done
\* or will do about the request.
NoAnswer(c) ==
  /\ phase[c] = "waiting"
  /\ ReturnWith(c, "exception")
  /\ UNCHANGED <<asked, from, to, request, chat>>

\* Mutated: the reply to a request that failed is handed on as any other.
RefusedReturned(c) ==
  /\ phase[c] = "waiting"
  /\ request[c] = "refused"
  /\ Goto(c, "answered")
  /\ result' = [result EXCEPT ![c] = "nothing"]
  /\ UNCHANGED <<asked, from, to, request, chat>>

\* A status other than 200.
Refused(c) ==
  /\ phase[c] = "waiting"
  /\ request[c] = "refused"
  /\ ReturnWith(c, "exception")
  /\ UNCHANGED <<asked, from, to, request, chat>>

\* The body has the result, or so much of it that it can be read as one; or it is
\* empty, damaged or without a result.
Answer(c) ==
  /\ phase[c] = "waiting"
  /\ request[c] = "delivered"
  /\ \E r \in Outcomes(asked[c].operation.wrapper) :
       /\ result' = [result EXCEPT ![c] = r]
       /\ Goto(c, IF r = "exception" THEN "returned" ELSE "answered")
  /\ UNCHANGED <<asked, from, to, request, chat>>

\* The body is json but not an object: reply_tree["ok"] throws.
AnswerNoObject(c) ==
  /\ phase[c] = "waiting"
  /\ request[c] = "delivered"
  /\ ReturnWith(c, "exception")
  /\ UNCHANGED <<asked, from, to, request, chat>>

\* What came back for a piece is disregarded unless it is the last.
NextPiece(c) ==
  /\ phase[c] = "answered"
  /\ to[c] < asked[c].size
  /\ from' = [from EXCEPT ![c] = to[c]]
  /\ result' = [result EXCEPT ![c] = "none"]
  /\ request' = [request EXCEPT ![c] = "none"]
  /\ Goto(c, "split")
  /\ UNCHANGED <<asked, to, chat>>

Return(c) ==
  /\ phase[c] = "answered"
  /\ to[c] = asked[c].size
  /\ Goto(c, "returned")
  /\ UNCHANGED <<asked, from, to, request, result, chat>>

-----------------------------------------------------------------------------
Sends(c) == \/ Split(c) \/ Serialise(c) \/ Post(c) \/ NoConnection(c)
            \/ NoAnswer(c) \/ Refused(c) \/ Answer(c) \/ AnswerNoObject(c)
            \/ NextPiece(c) \/ Return(c)

Next == \E c \in Calls : Begin(c) \/ Sends(c) \/ Delivers(c) \/ Refuses(c)

Safe == Init /\ [][Next]_vars

\* A call that was made goes on, each wait ending with the read timeout at the latest.
Spec == Safe /\ \A c \in Calls : WF_vars(Sends(c))

-----------------------------------------------------------------------------
(* Properties.                                                             *)

Contiguous(pieces) ==
  \A i \in DOMAIN pieces :
    pieces[i].from = IF i = 1 THEN 0 ELSE pieces[i - 1].to

\* However late the server gets to a request, what it delivers of a text is the
\* text's beginning, in order and nothing twice: send_message never goes on behind
\* a piece it does not know to be delivered (the exceptions of sender.h:404, 418).
PiecesInOrder == \A c \in Calls : Contiguous(chat[c])

\* A call that comes back without an exception, whatever it comes back with, was
\* carried out, and a text whole, though send_message looks at the result of none of
\* the pieces but the last; only a call without the text it needs was never made.
ReturnedIsDone ==
  \A c \in Calls :
    phase[c] = "returned" /\ result[c] # "exception" /\ ~Empty(asked[c])
      => chat[c] # <<>> /\ chat[c][Len(chat[c])].to = asked[c].size

\* Whatever is lost, late or refused, a call is a Posting: it sends no piece before the
\* server has seen to the one before it, none longer than the limit and none once it
\* has come back, and comes back without an exception only when all has got there.
OutcomeOf(c) == IF phase[c] # "returned" THEN "open"
                ELSE IF result[c] = "exception" \/ Empty(asked[c]) THEN "failed"
                ELSE "done"

Posted == INSTANCE Posting WITH
  pending <- [c \in Calls |-> request[c] = "sent"],
  outcome <- [c \in Calls |-> OutcomeOf(c)]

ImplementsPosting == Posted!Spec

\* A call comes back.
SendReturns == \A c \in Calls : phase[c] = "split" ~> phase[c] = "returned"

\* sender.h:518: what is cut off is a number of characters, so that no character
\* is cut in two.
CutsBetweenCharacters ==
  \A c \in Calls : phase[c] = "serialise" => to[c] \in asked[c].between
=============================================================================
