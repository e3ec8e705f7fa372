--------------------------- MODULE UpdateDelivery ---------------------------
(***************************************************************************)
(* What a listener that executes callbacks on its own thread promises its  *)
(* bot, with the program's control left out: within a session (one run of  *)
(* the listener) the callbacks see the updates in the order the bot         *)
(* received them and each at most once, and the server is never told to     *)
(* forget an update whose callbacks have not returned, but for one that     *)
(* they missed, because it reached the listener in part.  A later session   *)
(* sees again what the server was not yet told to forget, and what an        *)
(* earlier one missed is then an update like any other.                    *)
(***************************************************************************)
EXTENDS Integers

CONSTANT Bots

VARIABLES issued,      \* issued[b]: id of the last update bot b received
          forgotten,   \* forgotten[b]: the server forgot updates up to this id
          executed,    \* executed[b]: updates whose callbacks have returned
          missed,      \* missed[b]: updates taken for executed that were not
          last,        \* last[b]: the last update executed in this session
          count        \* count[b]: how many executions there were in it

vars == <<issued, forgotten, executed, missed, last, count>>

Init == /\ issued = [b \in Bots |-> 0]
        /\ forgotten = [b \in Bots |-> 0]
        /\ executed = [b \in Bots |-> {}]
        /\ missed = [b \in Bots |-> {}]
        /\ last = [b \in Bots |-> 0]
        /\ count = [b \in Bots |-> 0]

Receive(b) == /\ issued' = [issued EXCEPT ![b] = @ + 1]
              /\ UNCHANGED <<forgotten, executed, missed, last, count>>

\* The listener is done with an update that is behind those it has had.
Take(b, u) == /\ u \in (last[b] + 1)..issued[b]
              /\ u > forgotten[b]
              /\ last' = [last EXCEPT ![b] = u]
              /\ count' = [count EXCEPT ![b] = @ + 1]
              /\ UNCHANGED <<issued, forgotten>>

Execute(b) == \E u \in 1..issued[b] :
                /\ Take(b, u)
                /\ executed' = [executed EXCEPT ![b] = @ \cup {u}]
                /\ UNCHANGED missed

Miss(b) == \E u \in 1..issued[b] :
             /\ Take(b, u)
             /\ missed' = [missed EXCEPT ![b] = @ \cup ({u} \ executed[b])]
             /\ UNCHANGED executed

Forget(b) == \E u \in forgotten[b]..issued[b] :
               /\ (forgotten[b] + 1)..u \subseteq executed[b] \cup missed[b]
               /\ forgotten' = [forgotten EXCEPT ![b] = u]
               /\ UNCHANGED <<issued, executed, missed, last, count>>

\* One session ends and another begins; when the program dies, all of them.
NewSession == \E B \in SUBSET Bots :
                /\ last' = [b \in Bots |-> IF b \in B THEN 0 ELSE last[b]]
                /\ count' = [b \in Bots |-> IF b \in B THEN 0 ELSE count[b]]
                /\ missed' = [b \in Bots |->
                     IF b \in B THEN missed[b] \cap 1..forgotten[b] ELSE missed[b]]
                /\ UNCHANGED <<issued, forgotten, executed>>

Next == \/ \E b \in Bots : Receive(b) \/ Execute(b) \/ Miss(b) \/ Forget(b)
        \/ NewSession

Spec == Init /\ [][Next]_vars
=============================================================================
