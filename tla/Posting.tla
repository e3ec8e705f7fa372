------------------------------ MODULE Posting ------------------------------
(***************************************************************************)
(* What a call of the sender promises, with splitting, encoding, connections *)
(* and answers left out: what was asked gets to the server from its         *)
(* beginning, piece behind piece, each short enough and none sent before    *)
(* the server has seen to the one before it; a call that is done has        *)
(* brought all of it there, and of one that failed at most one more piece    *)
(* is carried out.                                                         *)
(***************************************************************************)
EXTENDS Api, Integers

CONSTANTS Calls, Requests, Limit

VARIABLES asked,    \* what the call was made with
          chat,     \* the pieces of it that were carried out
          pending,  \* a piece is with the server, or on the way
          outcome   \* "open", "done" or "failed"

vars == <<asked, chat, pending, outcome>>

Init == /\ asked \in [Calls -> Requests]
        /\ chat = [c \in Calls |-> <<>>]
        /\ pending = [c \in Calls |-> FALSE]
        /\ outcome = [c \in Calls |-> "open"]

Reach(c) == IF chat[c] = <<>> THEN 0 ELSE chat[c][Len(chat[c])].to

Whole(c) == chat[c] # <<>> /\ Reach(c) = asked[c].size

Ask(c) ==
  /\ outcome[c] = "open" /\ ~ pending[c]
  /\ ~ Whole(c)
  /\ NeedsText(asked[c].operation) => asked[c].size # 0
  /\ pending' = [pending EXCEPT ![c] = TRUE]
  /\ UNCHANGED <<asked, chat, outcome>>

\* The next piece, whose end is e, is carried out.
Show(c, e) ==
  /\ pending[c]
  /\ e <= asked[c].size
  /\ e > Reach(c) \/ chat[c] = <<>>
  /\ Cuts(asked[c].operation) => e - Reach(c) <= Limit
  /\ chat' = [chat EXCEPT ![c] = Append(@, [from |-> Reach(c), to |-> e])]
  /\ pending' = [pending EXCEPT ![c] = FALSE]
  /\ UNCHANGED <<asked, outcome>>

\* The server refuses it.
Drop(c) ==
  /\ pending[c]
  /\ pending' = [pending EXCEPT ![c] = FALSE]
  /\ UNCHANGED <<asked, chat, outcome>>

Done(c) ==
  /\ outcome[c] = "open" /\ ~ pending[c]
  /\ Whole(c)
  /\ outcome' = [outcome EXCEPT ![c] = "done"]
  /\ UNCHANGED <<asked, chat, pending>>

\* The caller is told by an exception, or it had no text to send.
Fail(c) ==
  /\ outcome[c] = "open"
  /\ outcome' = [outcome EXCEPT ![c] = "failed"]
  /\ UNCHANGED <<asked, chat, pending>>

Next == \E c \in Calls :
          \/ Ask(c) \/ Drop(c) \/ Done(c) \/ Fail(c)
          \/ \E e \in 0..asked[c].size : Show(c, e)

Spec == Init /\ [][Next]_vars
=============================================================================
