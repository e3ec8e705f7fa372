----------------------------- MODULE UpdatePush -----------------------------
(***************************************************************************)
(* What a FastCGI listener promises those who post updates to it, with      *)
(* connections, threads and request objects left out: it answers an update  *)
(* and then owes its callbacks one call; it answers nothing else until it   *)
(* has paid, and only the end of its process lets it off.  No answer to an  *)
(* update is heard after another was: what is still answered then, nobody   *)
(* hears.                                                                  *)
(***************************************************************************)
EXTENDS Integers

CONSTANT Updates

VARIABLES up,        \* the listener's process runs
          heard,     \* updates whose answer has arrived
          unheard,   \* unheard[u]: answers to u that were given and did not arrive
          executed,  \* executed[u]: times the callbacks were called for u
          owed       \* what was answered and is not executed yet: {} or {u}

vars == <<up, heard, unheard, executed, owed>>

Init == /\ up = FALSE
        /\ heard = {}
        /\ unheard = [u \in Updates |-> 0]
        /\ executed = [u \in Updates |-> 0]
        /\ owed = {}

Start == up = FALSE /\ up' = TRUE /\ UNCHANGED <<heard, unheard, executed, owed>>

AnswerHeard(u) == /\ up /\ owed = {}
                  /\ u \notin heard
                  /\ heard' = heard \cup {u}
                  /\ owed' = {u}
                  /\ UNCHANGED <<up, unheard, executed>>

AnswerUnheard(u) == /\ up /\ owed = {}
                    /\ unheard' = [unheard EXCEPT ![u] = @ + 1]
                    /\ owed' = {u}
                    /\ UNCHANGED <<up, heard, executed>>

\* A callback may bring the process down.
Execute(u) == /\ owed = {u}
              /\ executed' = [executed EXCEPT ![u] = @ + 1]
              /\ owed' = {}
              /\ up' \in BOOLEAN
              /\ UNCHANGED <<heard, unheard>>

End == /\ up /\ up' = FALSE
       /\ owed' = {}
       /\ UNCHANGED <<heard, unheard, executed>>

Next == \/ Start \/ End
        \/ \E u \in Updates : AnswerHeard(u) \/ AnswerUnheard(u) \/ Execute(u)

Spec == Init /\ [][Next]_vars
=============================================================================
