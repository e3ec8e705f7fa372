----------------------------- MODULE Callbacks ------------------------------
(***************************************************************************)
(* The callbacks of a listener (listeners/base.h): the slots that set_ and *)
(* unset_ fill and empty, and execute_callbacks, which offers one update   *)
(* to each slot in turn.                                                   *)
(*                                                                         *)
(* A slot is looked at, and called a moment later, after the part of the   *)
(* update it wants was found and, for a native slot, parsed.  Slots change *)
(* while this goes on: a callback may set or unset any of them, its own    *)
(* included, and so may another thread at any time.  Nothing guards a slot:*)
(* one that is assigned while it is called, or while what it held is still *)
(* running, is undefined behaviour, and then the old function is run, or   *)
(* std::function finds itself empty and throws, or the process dies.       *)
(*                                                                         *)
(* What stands in a slot is not told apart, only whether something does;   *)
(* the no-ops a listener is born with count.                               *)
(***************************************************************************)
EXTENDS Integers, Sequences

CONSTANT Changing   \* the slots the program sets and unsets

\* The slots in the order execute_callbacks goes through them.
Order == <<"json", "message_json", "message", "edited_json", "edited",
           "inline_json", "chosen_inline_json", "query_callback_json", "query_callback">>

Slots == {Order[i] : i \in DOMAIN Order}

ASSUME CallbacksAssumption == Changing \subseteq Slots

\* The slots that get a type made by from_json.
Native == {"message", "edited", "query_callback"}

\* The part of an update a slot gets.
Part == [s \in Slots |->
  CASE s = "json" -> "update"
    [] s \in {"message_json", "message"} -> "message"
    [] s \in {"edited_json", "edited"} -> "edited_message"
    [] s = "inline_json" -> "inline_query"
    [] s = "chosen_inline_json" -> "chosen_inline_result"
    [] s \in {"query_callback_json", "query_callback"} -> "callback_query"]

\* An update holds one part besides itself; from_json may throw on it.
Updates == [part : {Part[s] : s \in Slots}, wellformed : BOOLEAN]

VARIABLES
  set,        \* the slots that hold a function
  update,     \* the update being offered
  at,         \* index in Order of the slot it is offered to
  phase,      \* "idle", "look", "call" (found, not called yet), "inside", "dead"
  raced,      \* the slot was assigned since it was looked at
  calls,      \* the slots called with this update, in order
  steady      \* the slots set at every moment since the update arrived

vars == <<set, update, at, phase, raced, calls, steady>>

TypeOK == /\ set \subseteq Slots
          /\ update \in Updates
          /\ at \in 1..Len(Order) + 1
          /\ phase \in {"idle", "look", "call", "inside", "dead"}
          /\ raced \in BOOLEAN
          /\ calls \in Seq(Slots)
          /\ steady \subseteq Slots

Init == /\ set = Slots
        /\ update \in Updates
        /\ at = Len(Order) + 1
        /\ phase = "idle"
        /\ raced = FALSE
        /\ calls = <<>>
        /\ steady = {}

Holds(u, part) == part \in {"update", u.part}

-----------------------------------------------------------------------------
(* execute_callbacks                                                       *)

Begin == /\ phase = "idle"
         /\ update' \in Updates
         /\ at' = 1
         /\ phase' = "look"
         /\ calls' = <<>>
         /\ steady' = set
         /\ UNCHANGED <<set, raced>>

\* Mutated: the slot after the next one is taken.
AdvanceTwice == /\ phase' = "look"
                /\ at' = at + 2

\* The offer passes to the next slot.
Advance == /\ phase' = "look"
           /\ at' = at + 1

\* An empty slot, a part that is not there and a part that cannot be parsed (its
\* exception is caught around this slot) leave the update to the next slot.
Wanted(s) == /\ s \in set
             /\ Holds(update, Part[s])
             /\ s \in Native => update.wellformed

Look == /\ phase = "look"
        /\ at <= Len(Order)
        /\ IF Wanted(Order[at]) THEN phase' = "call" /\ UNCHANGED at ELSE Advance
        /\ raced' = FALSE
        /\ UNCHANGED <<set, update, calls, steady>>

\* operator() of the slot.
Call == /\ phase = "call"
        /\ phase' = "inside"
        /\ calls' = Append(calls, Order[at])
        /\ UNCHANGED <<set, update, at, raced, steady>>

\* Mutated: the slot is looked at again, as it has changed.
CallFindsNothingRetries == /\ phase = "call"
                           /\ Order[at] \notin set
                           /\ phase' = "look"
                           /\ UNCHANGED <<set, update, at, raced, calls, steady>>

\* Emptied since it was looked at, it may throw bad_function_call, which is caught.
CallFindsNothing == /\ phase = "call"
                    /\ Order[at] \notin set
                    /\ Advance
                    /\ UNCHANGED <<set, update, raced, calls, steady>>

\* Mutated: one try around all slots; the slot is offered again after its callback has
\* changed it; a message's native callback is nested in the test for its json one.
ReturnEndsAll == /\ phase = "inside"
                 /\ phase' = "look"
                 /\ at' = Len(Order) + 1
                 /\ UNCHANGED <<set, update, raced, calls, steady>>

ReturnAgain == /\ phase = "inside"
               /\ phase' = "look"
               /\ at' = IF raced THEN at ELSE at + 1
               /\ UNCHANGED <<set, update, raced, calls, steady>>

ReturnNested == /\ phase = "inside"
                /\ phase' = IF Order[at] = "message_json" THEN "call" ELSE "look"
                /\ at' = at + 1
                /\ UNCHANGED <<set, update, raced, calls, steady>>

\* The callback returns or throws a std::exception: both end this slot only.
Return == /\ phase = "inside"
          /\ Advance
          /\ UNCHANGED <<set, update, raced, calls, steady>>

\* The callback throws anything else: it leaves execute_callbacks.
Escape == /\ phase = "inside"
          /\ phase' = "idle"
          /\ UNCHANGED <<set, update, at, raced, calls, steady>>

\* What was called, or runs, was destroyed under it.
Dies == /\ phase \in {"call", "inside"}
        /\ raced
        /\ phase' = "dead"
        /\ UNCHANGED <<set, update, at, raced, calls, steady>>

End == /\ phase = "look"
       /\ at > Len(Order)
       /\ phase' = "idle"
       /\ UNCHANGED <<set, update, at, raced, calls, steady>>

-----------------------------------------------------------------------------
(* set_callback_* and unset_callback_*; unset_callback_message and the     *)
(* other groups, and unset_callbacks, are one Unset after the other.  They *)
(* come from a callback or from another thread.                            *)

Assigned(s) == raced' = (raced \/ (phase \in {"call", "inside"} /\ s = Order[at]))

Set(s) == /\ phase # "dead"
          /\ set' = set \cup {s}
          /\ Assigned(s)
          /\ UNCHANGED <<update, at, phase, calls, steady>>

Unset(s) == /\ phase # "dead"
            /\ set' = set \ {s}
            /\ Assigned(s)
            /\ steady' = steady \ {s}
            /\ UNCHANGED <<update, at, phase, calls>>

Dispatch == Look \/ Call \/ CallFindsNothing \/ Return \/ End

Next == Begin \/ Dispatch \/ Escape \/ Dies \/ \E s \in Changing : Set(s) \/ Unset(s)

\* The dispatching thread runs and callbacks return.
Spec == Init /\ [][Next]_vars /\ WF_vars(Dispatch)

-----------------------------------------------------------------------------
(* Properties.                                                             *)

\* A slot that is set all along and wants the update has been called with it when
\* execute_callbacks returns, whatever the callbacks before it threw, set or unset.
EveryoneIsTold ==
  phase = "look" /\ at > Len(Order) =>
    \A s \in steady :
      Holds(update, Part[s]) /\ (s \in Native => update.wellformed) =>
        \E i \in DOMAIN calls : calls[i] = s

\* No slot gets an update twice, and each gets it after those before it in Order,
\* the whole update first and a message's json before its native form.
CallsFollowOrder ==
  \A i, j \in DOMAIN calls : i < j =>
    \E m, n \in DOMAIN Order : m < n /\ Order[m] = calls[i] /\ Order[n] = calls[j]

\* A callback whose unset_ has returned is not entered, by the update in hand either:
\* its slot is looked at right before it is called, and only an assignment by another
\* thread that falls in between goes unseen.
UnsetIsHonoured ==
  [][phase' = "inside" /\ phase # "inside" => Order[at] \in set \/ raced]_vars

\* An update is offered to the last slot, or leaves by an exception, or ends the process:
\* callbacks that set and unset each other cannot keep execute_callbacks going.
DispatchEnds == phase # "idle" ~> phase \in {"idle", "dead"}
=============================================================================
