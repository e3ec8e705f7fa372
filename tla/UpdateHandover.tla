--------------------------- MODULE UpdateHandover ---------------------------
(***************************************************************************)
(* What a polling listener promises its bot whether it calls the callbacks  *)
(* itself or leaves that to a pool of threads, with the program's control,   *)
(* the requests and the pool left out: in a session (one run of the          *)
(* listener) it takes the updates one behind the other, without a gap, from *)
(* the first that the server holds, and a request lets the server forget    *)
(* just what was taken before it.                                          *)
(***************************************************************************)
EXTENDS Integers

CONSTANT Bots

VARIABLES issued,      \* issued[b]: id of the last update bot b received
          forgotten,   \* forgotten[b]: the server forgot updates up to this id
          last,        \* last[b]: the last update taken in this session, 0 for none
          count        \* count[b]: how many were taken in it

vars == <<issued, forgotten, last, count>>

Init == /\ issued = [b \in Bots |-> 0]
        /\ forgotten = [b \in Bots |-> 0]
        /\ last = [b \in Bots |-> 0]
        /\ count = [b \in Bots |-> 0]

Receive(b) == /\ issued' = [issued EXCEPT ![b] = @ + 1]
              /\ UNCHANGED <<forgotten, last, count>>

Due(b) == 1 + IF last[b] = 0 THEN forgotten[b] ELSE last[b]

Take(b) == /\ Due(b) <= issued[b]
           /\ last' = [last EXCEPT ![b] = Due(b)]
           /\ count' = [count EXCEPT ![b] = @ + 1]
           /\ UNCHANGED <<issued, forgotten>>

Forget(b) == /\ last[b] # 0
             /\ forgotten' = [forgotten EXCEPT ![b] = last[b]]
             /\ UNCHANGED <<issued, last, count>>

\* One session ends and another begins; when the program dies, all of them.
NewSession == \E B \in SUBSET Bots :
                /\ last' = [b \in Bots |-> IF b \in B THEN 0 ELSE last[b]]
                /\ count' = [b \in Bots |-> IF b \in B THEN 0 ELSE count[b]]
                /\ UNCHANGED <<issued, forgotten>>

Next == \/ \E b \in Bots : Receive(b) \/ Take(b) \/ Forget(b)
        \/ NewSession

Spec == Init /\ [][Next]_vars
=============================================================================
