------------------------------ MODULE Telegram ------------------------------
(***************************************************************************)
(* The Bot API server, as poll.h and sender.h use it: one queue of updates *)
(* per bot, read with getUpdates.  It is external code; what is stated here *)
(* is what poll::run relies on.  An update is its update_id, and ids are    *)
(* handed out in sequence from 1.                                          *)
(*                                                                         *)
(* Sending offset n tells the server that everything below n was received: *)
(* those updates are forgotten and never sent again.                       *)
(***************************************************************************)
EXTENDS Integers

CONSTANTS Listeners,   \* the poll objects of the program, each with its own bot
          MaxUpdate,   \* bound: updates a bot receives in a behaviour
          Limit        \* most updates in one reply (the API's default is 100)

ASSUME TelegramAssumption == MaxUpdate \in Nat /\ Limit \in Nat \ {0}

VARIABLES issued,      \* issued[l]: id of the last update the bot of l received
          confirmed    \* confirmed[l]: updates up to this id are forgotten

server == <<issued, confirmed>>

ServerTypeOK == /\ issued \in [Listeners -> 0..MaxUpdate]
                /\ confirmed \in [Listeners -> Nat]

ServerInit == /\ issued = [l \in Listeners |-> 0]
              /\ confirmed = [l \in Listeners |-> 0]

\* The updates the server still holds for the bot of l.
Pending(l) == (confirmed[l] + 1)..issued[l]

\* How many of them one reply carries.
ReplySize(l) ==
  IF issued[l] - confirmed[l] <= Limit THEN issued[l] - confirmed[l] ELSE Limit

\* Somebody writes to the bot of l.
Publish(l) == /\ issued[l] < MaxUpdate
              /\ issued' = [issued EXCEPT ![l] = @ + 1]
              /\ UNCHANGED confirmed

\* The server reads the offset of a request from l.
Confirm(l, offset) ==
  /\ confirmed' = [confirmed EXCEPT ![l] = IF offset - 1 > @ THEN offset - 1 ELSE @]
  /\ UNCHANGED issued
=============================================================================
