------------------------- MODULE FcgiListenerProofs -------------------------
(***************************************************************************)
(* The FastCGI listener: where each request object is, that the two accepts *)
(* are always there, and what an update's answer says of its callbacks; for *)
(* any requests, attempts, numbers of threads and bounds on objects.        *)
(***************************************************************************)
EXTENDS FcgiListener, FiniteSetTheorems, TLAPS

USE DEF vars, web, handler, objects, history, DoAcceptTask

InHand(r) == at \in {"raw", "execute"} /\ Client.request = r

One(p) == IF p THEN 1 ELSE 0

\* What is over leaves nothing behind.
DownInv == life # "running" => /\ at = "idle" /\ strand = <<>>
                               /\ accepting = {} /\ running = {}
                               /\ created = 0 /\ waiting = <<>> /\ suspended = <<>>

\* The handler that runs has an object, and a connection where it looks at it.
HandlerInv == /\ at = "idle" <=> current = 0
              /\ at = "idle" => suspended = <<>>
              /\ at \in {"commit", "raw", "execute"} => Client \in Connections

TypeInv == TypeOK /\ DownInv /\ HandlerInv

\* The steps of the listener, one by one.
Step == \/ \E r \in Requests : Send(r)
        \/ \E c \in open : HangUp(c)
        \/ \E n \in Threads : Run(n)
        \/ Kill \/ DoAccept \/ HandleAccept
        \/ Load \/ LoadBreaksOff
        \/ CommitArrives \/ CommitUnheard \/ CommitFails
        \/ CallbackRaw \/ CallbackRawThrows
        \/ ExecuteCallbacks \/ CallbackThrows
        \/ Reaccept \/ Finish
        \/ \E o \in Objects, c \in backlog : Accept(o, c)
        \/ \E o \in Objects : AcceptFails(o)
        \/ Stall \/ Wake

LEMMA NextIsStep == Next => Step
BY DEF Next, Step, OnStrand, Accepts

LEMMA Incremented ==
  ASSUME NEW f \in [Requests -> Nat], NEW r \in Requests
  PROVE  [f EXCEPT ![r] = @ + 1] \in [Requests -> Nat]
OBVIOUS

\* A sequence with an element put before it, and with its first taken off.
LEMMA Put == ASSUME NEW S, NEW s \in Seq(S), NEW x \in S
             PROVE  /\ <<x>> \o s \in Seq(S)
                    /\ DOMAIN (<<x>> \o s) = 1..Len(s) + 1
                    /\ Len(<<x>> \o s) = Len(s) + 1 /\ Len(s) \in Nat
                    /\ DOMAIN s = 1..Len(s)
                    /\ (<<x>> \o s)[1] = x
                    /\ \A i \in 1..Len(s) : (<<x>> \o s)[i + 1] = s[i]
OBVIOUS

LEMMA TypeInit == Init => TypeInv
<1> SUFFICES ASSUME Init PROVE TypeInv
  OBVIOUS
<1>1. attempts \in [Requests -> 0..MaxAttempts]
  BY FcgiAssumption DEF Init
<1>2. connection \in [Objects -> Connections \cup {NoConnection}]
  BY DEF Init, NoConnections
<1>3. executed \in [Requests -> Nat] /\ unheard \in [Requests -> Nat]
  BY DEF Init
<1>4. strand \in Seq(0..MaxObjects) /\ waiting \in Seq(Objects) /\ suspended \in Seq(Suspensions)
  BY DEF Init
<1>5. stalled \in BOOLEAN
  BY Zenon DEF Init
<1>6. created \in 0..MaxObjects /\ current \in 0..MaxObjects /\ at \in Stages
  BY FcgiAssumption DEF Init, Stages
<1>7. DownInv /\ HandlerInv
  BY DEF Init, DownInv, HandlerInv
<1> QED
  BY <1>1, <1>2, <1>3, <1>4, <1>5, <1>6, <1>7 DEF Init, TypeInv, TypeOK

\* Every way the process ends.
LEMMA TypeEnd == ASSUME TypeInv, NEW how \in {"down", "returned", "terminated"}, End(how),
                        executed' \in [Requests -> Nat], unheard' = unheard
                 PROVE  TypeInv'
<1>1. excused' \subseteq Requests
  BY DEF End, TypeInv, TypeOK, HandlerInv, Client, Connections
<1>2. connection' \in [Objects -> Connections \cup {NoConnection}]
  BY DEF End, NoConnections
<1>3. open' \subseteq Connections /\ created' \in 0..MaxObjects /\ current' \in 0..MaxObjects
  BY FcgiAssumption DEF End, TypeInv, TypeOK
<1>4. strand' \in Seq(0..MaxObjects) /\ waiting' \in Seq(Objects)
  BY DEF End
<1>5. DownInv' /\ HandlerInv'
  BY DEF End, DownInv, HandlerInv
<1>6. suspended' \in Seq(Suspensions)
  BY DEF End
<1>7. stalled' \in BOOLEAN
  BY Zenon DEF End
<1> QED
  BY <1>1, <1>2, <1>3, <1>4, <1>5, <1>6, <1>7 DEF End, TypeInv, TypeOK, Stages

LEMMA TypeStep == TypeInv /\ [Next]_vars => TypeInv'
<1> SUFFICES ASSUME TypeInv, [Next]_vars PROVE TypeInv'
  OBVIOUS
<1> USE FcgiAssumption DEF TypeInv, TypeOK, DownInv, HandlerInv, Client, Stages
<1>1. ASSUME NEW r \in Requests, Send(r) PROVE TypeInv'
  <2>1. [request |-> r, attempt |-> attempts[r] + 1] \in Connections
    BY <1>1 DEF Send, Connections
  <2>2. attempts' \in [Requests -> 0..MaxAttempts]
    BY <1>1 DEF Send
  <2> QED
    BY <1>1, <2>1, <2>2 DEF Send
<1>2. ASSUME NEW c \in open, HangUp(c) PROVE TypeInv'
  BY <1>2 DEF HangUp
<1>3. ASSUME NEW n \in Threads, Run(n) PROVE TypeInv'
  <2>1. strand' \in Seq(0..MaxObjects)
    BY <1>3 DEF Run
  <2> QED
    BY <1>3, <2>1 DEF Run
<1>4. ASSUME NEW how \in {"down", "returned", "terminated"}, End(how),
             executed' \in [Requests -> Nat], unheard' = unheard
      PROVE  TypeInv'
  BY <1>4, TypeEnd
<1>5. ASSUME Throw, executed' \in [Requests -> Nat], unheard' = unheard
      PROVE  TypeInv'
  BY <1>5, <1>4 DEF Throw
<1>6. CASE Kill
  BY <1>6, <1>4 DEF Kill
<1>7. CASE DoAccept
  <2>1. strand' \in Seq(0..MaxObjects)
    BY <1>7 DEF DoAccept
  <2>4. waiting' \in Seq(Objects)
    <3>1. CASE waiting = <<>>
      <4>1. waiting' = waiting
        BY <1>7, <3>1 DEF DoAccept
      <4> QED
        BY <4>1
    <3>2. CASE waiting # <<>>
      <4>1. waiting' = Tail(waiting)
        BY <1>7, <3>2 DEF DoAccept
      <4> QED
        BY <4>1, <3>2
    <3> QED
      BY <3>1, <3>2
  <2>2. /\ created' \in 0..MaxObjects /\ running' \subseteq Objects
        /\ accepting' \subseteq Objects
    BY <1>7 DEF DoAccept, Objects
  <2>3. life = "running"
    BY <1>7 DEF DoAccept
  <2> QED
    BY <1>7, <2>1, <2>2, <2>3, <2>4 DEF DoAccept
<1>8. CASE HandleAccept
  <2>1. strand' \in Seq(0..MaxObjects) /\ Head(strand) \in 0..MaxObjects
    BY <1>8 DEF HandleAccept
  <2>2. life = "running"
    BY <1>8 DEF HandleAccept
  <2> QED
    BY <1>8, <2>1, <2>2 DEF HandleAccept
<1>9. CASE Load
  <2>1. Client \in Connections
    BY <1>9 DEF Load, Objects
  <2> QED
    BY <1>9, <2>1 DEF Load, After
<1>10. CASE LoadBreaksOff
  BY <1>10 DEF LoadBreaksOff
<1>11. CASE CommitArrives
  <2>3. Client \in Connections
    BY <1>11 DEF CommitArrives
  <2>1. Client.request \in Requests
    BY <2>3 DEF Connections
  <2>2. at' \in {"raw", "reaccept"}
    BY <1>11 DEF CommitArrives, After
  <2> QED
    BY <1>11, <2>1, <2>2, <2>3 DEF CommitArrives
<1>12. CASE CommitUnheard
  <2>4. Client \in Connections
    BY <1>12, FcgiAssumption DEF CommitUnheard, Objects
  <2>3. Client.request \in Requests
    BY <2>4 DEF Connections
  <2>1. unheard' \in [Requests -> Nat]
    BY <1>12, <2>3, Incremented DEF CommitUnheard
  <2>2. at' \in {"raw", "reaccept"} /\ (at' = "raw" => at = "commit")
    BY <1>12 DEF CommitUnheard, After
  <2> QED
    BY <1>12, <2>1, <2>2 DEF CommitUnheard
<1>13. CASE CommitFails
  BY <1>13, <1>5 DEF CommitFails
<1>14. CASE CallbackRaw
  BY <1>14 DEF CallbackRaw, After
<1>15. CASE CallbackRawThrows
  BY <1>15, <1>5 DEF CallbackRawThrows
<1>16. at = "execute" /\ Executed => executed' \in [Requests -> Nat]
  <2> SUFFICES ASSUME at = "execute", Executed PROVE executed' \in [Requests -> Nat]
    OBVIOUS
  <2>1. Client.request \in Requests
    BY DEF Connections
  <2> QED
    BY <2>1, Incremented DEF Executed
<1>17. CASE ExecuteCallbacks
  BY <1>17, <1>16 DEF ExecuteCallbacks, After
<1>18. CASE CallbackThrows
  BY <1>18, <1>5, <1>16 DEF CallbackThrows
<1>19. CASE Reaccept
  <2>1. strand' \in Seq(0..MaxObjects)
    BY <1>19 DEF Reaccept
  <2>2. life = "running"
    BY <1>19 DEF Reaccept
  <2> QED
    BY <1>19, <2>1, <2>2 DEF Reaccept
<1>20. CASE Finish
  <2>1. current \in Objects /\ life = "running"
    BY <1>20 DEF Finish, Objects
  <2>2. waiting' \in Seq(Objects)
    BY <1>20, <2>1 DEF Finish
  <2>3. connection' \in [Objects -> Connections \cup {NoConnection}]
    BY <1>20 DEF Finish
  <2>4. CASE suspended = <<>>
    <3>1. suspended' = <<>> /\ current' = 0 /\ at' = "idle" /\ UNCHANGED stalled
      BY <1>20, <2>4 DEF Finish
    <3> QED
      BY <1>20, <2>1, <2>2, <2>3, <3>1 DEF Finish
  <2>5. CASE suspended # <<>>
    <3>1. Head(suspended) \in Suspensions /\ Tail(suspended) \in Seq(Suspensions)
      BY <2>5
    <3>2. Head(suspended).object \in Objects /\ Head(suspended).at \in {"load", "refuse"}
      BY <3>1 DEF Suspensions, Reading
    <3>3. /\ suspended' \in Seq(Suspensions)
          /\ current' \in Objects /\ at' \in {"load", "refuse"} /\ UNCHANGED stalled
      BY <1>20, <2>5, <3>1, <3>2 DEF Finish
    <3>4. current' \in 0..MaxObjects /\ current' # 0
      BY <3>3 DEF Objects
    <3> QED
      BY <1>20, <2>1, <2>2, <2>3, <3>3, <3>4 DEF Finish
  <2> QED
    BY <2>4, <2>5
\* The strand and the handler, when handle_accept is dispatched.
<1>24. ASSUME NEW o \in Objects, o \in accepting, Dispatch(o)
       PROVE  /\ life = "running"
              /\ strand' \in Seq(0..MaxObjects)
              /\ \/ current' = current /\ at' = at /\ suspended' = suspended
                 \/ current' = o /\ at' = "load"
              /\ suspended' \in Seq(Suspensions)
              /\ o \in 0..MaxObjects /\ o # 0
  <2>1. life = "running" /\ o \in 0..MaxObjects /\ o # 0
    BY <1>24 DEF Objects
  <2>2. CASE strand' = Append(strand, o) /\ UNCHANGED handler
    <3>1. strand' \in Seq(0..MaxObjects)
      BY <2>1, <2>2
    <3>2. current' = current /\ at' = at /\ suspended' = suspended
      BY <2>2
    <3> QED
      BY <2>1, <3>1, <3>2
  <2>3. CASE /\ at \in Reading
             /\ suspended' = <<[object |-> current, at |-> at]>> \o suspended
             /\ current' = o /\ at' = "load" /\ stalled' = FALSE
             /\ UNCHANGED strand
    <3>4. UNCHANGED strand /\ current' = o /\ at' = "load" /\ at # "idle"
      BY <2>3 DEF Reading
    <3>1. current \in Objects
      BY <2>3 DEF Reading, Objects
    <3>2. [object |-> current, at |-> at] \in Suspensions
      BY <3>1, <2>3 DEF Suspensions
    <3>3. suspended' \in Seq(Suspensions)
      BY <3>2, <2>3, Put
    <3> QED
      BY <3>3, <3>4, <2>1
  <2> QED
    BY <1>24, <2>2, <2>3 DEF Dispatch
<1>27. ASSUME NEW o \in Objects, Dispatch(o) PROVE stalled' \in BOOLEAN
  <2>1. stalled' = stalled \/ stalled' = FALSE
    BY <1>27, Zenon DEF Dispatch
  <2> QED
    BY <2>1, Zenon
<1>21. ASSUME NEW o \in Objects, NEW c \in backlog, Accept(o, c) PROVE TypeInv'
  <2>1. o \in accepting /\ Dispatch(o)
    BY <1>21 DEF Accept
  <2>2. connection' \in [Objects -> Connections \cup {NoConnection}]
    BY <1>21 DEF Accept
  <2>3. \/ current' = current /\ at' = at /\ suspended' = suspended
        \/ current' = o /\ at' = "load"
    BY <2>1, <1>24
  <2>4. at' \in {"commit", "raw", "execute"} => Client' \in Connections
    <3> SUFFICES ASSUME at' \in {"commit", "raw", "execute"} PROVE Client' \in Connections
      OBVIOUS
    <3>1. current' = current /\ at \in {"commit", "raw", "execute"}
      BY <2>3
    <3>2. current \in Objects /\ c \in Connections
      BY <3>1 DEF Objects
    <3>3. connection'[current] = IF current = o THEN c ELSE connection[current]
      BY <1>21, <3>2 DEF Accept
    <3> QED
      BY <3>1, <3>2, <3>3
  <2>5. HandlerInv' /\ DownInv'
    <3>1. life' = "running"
      BY <1>21, <2>1, <1>24 DEF Accept
    <3>2. at' = "idle" <=> current' = 0
      BY <2>1, <2>3, <1>24
    <3>3. at' = "idle" => suspended' = <<>>
      BY <2>3
    <3> QED
      BY <3>1, <3>2, <3>3, <2>4
  <2> QED
    BY <1>21, <2>1, <2>2, <2>5, <1>24, <1>27 DEF Accept
<1>22. ASSUME NEW o \in Objects, AcceptFails(o) PROVE TypeInv'
  <2>1. o \in accepting /\ Dispatch(o)
    BY <1>22 DEF AcceptFails
  <2> QED
    BY <1>22, <2>1, <1>24, <1>27 DEF AcceptFails
<1>25. CASE Stall
  BY <1>25 DEF Stall
<1>26. CASE Wake
  BY <1>26 DEF Wake
<1>23. CASE UNCHANGED vars
  BY <1>23
<1> QED
  BY <1>1, <1>2, <1>3, <1>6, <1>7, <1>8, <1>9, <1>10, <1>11, <1>12, <1>13, <1>14,
     <1>15, <1>17, <1>18, <1>19, <1>20, <1>21, <1>22, <1>23, <1>25, <1>26, NextIsStep DEF Step

-----------------------------------------------------------------------------
(* Where the objects are.                                                  *)

LEMMA Behind == ASSUME NEW S, NEW s \in Seq(S), s # <<>>
                PROVE  /\ DOMAIN s = 1..Len(s) /\ DOMAIN Tail(s) = 1..Len(s) - 1
                       /\ Len(s) \in Nat \ {0} /\ Head(s) = s[1]
                       /\ \A i \in 1..Len(s) - 1 : Tail(s)[i] = s[i + 1]
OBVIOUS

LEMMA Appended == ASSUME NEW S, NEW s \in Seq(S), NEW x \in S
                  PROVE  /\ DOMAIN s = 1..Len(s) /\ DOMAIN Append(s, x) = 1..Len(s) + 1
                         /\ Len(s) \in Nat
                         /\ \A i \in 1..Len(s) : Append(s, x)[i] = s[i]
                         /\ Append(s, x)[Len(s) + 1] = x
OBVIOUS

\* An object is in one place: waiting, to be accepted on, on the strand, in hand, or
\* in the hands of a handler that is suspended.
Bounded == /\ \A o \in accepting \cup running \cup {current} : o <= created
           /\ \A i \in DOMAIN strand : strand[i] <= created
           /\ \A i \in DOMAIN suspended : suspended[i].object <= created
           /\ \A i \in DOMAIN waiting : waiting[i] <= created

AcceptingApart == \A o \in accepting : /\ o # current
                                       /\ \A i \in DOMAIN strand : strand[i] # o
                                       /\ \A i \in DOMAIN suspended : suspended[i].object # o
                                       /\ \A i \in DOMAIN waiting : waiting[i] # o

StrandApart == \A i \in DOMAIN strand :
                 strand[i] # 0 =>
                   /\ strand[i] # current
                   /\ \A j \in DOMAIN strand : j # i => strand[j] # strand[i]
                   /\ \A j \in DOMAIN waiting : waiting[j] # strand[i]

WaitingApart == \A i \in DOMAIN waiting :
                  /\ waiting[i] # current /\ waiting[i] \notin running
                  /\ \A j \in DOMAIN waiting : j # i => waiting[j] # waiting[i]

SuspendedApart == \A i \in DOMAIN suspended :
                    /\ suspended[i].object # current
                    /\ \A j \in DOMAIN suspended :
                         j # i => suspended[j].object # suspended[i].object
                    /\ \A j \in DOMAIN strand : strand[j] # suspended[i].object
                    /\ \A j \in DOMAIN waiting : waiting[j] # suspended[i].object

OnePlace == Bounded /\ AcceptingApart /\ StrandApart /\ WaitingApart /\ SuspendedApart

\* No object gets lost.
In(s, o) == \E i \in DOMAIN s : s[i] = o

Under(o) == \E i \in DOMAIN suspended : suspended[i].object = o

SomePlace == \A o \in 1..created :
               o \in accepting \/ o = current \/ Under(o) \/ In(strand, o) \/ In(waiting, o)

\* The parts of the state that say where an object is.
place == <<strand, current, suspended, created, waiting, running, accepting>>

\* t is s without its first element, or with x behind it.
Popped(s, t) == /\ 1 \in DOMAIN s
                /\ \A i \in DOMAIN t : /\ i \in Nat /\ i + 1 # 1 /\ i + 1 \in DOMAIN s
                                       /\ t[i] = s[i + 1]

Pushed(s, t, x) == \A i \in DOMAIN t : \/ i \in DOMAIN s /\ i # Len(s) + 1 /\ t[i] = s[i]
                                       \/ i = Len(s) + 1 /\ t[i] = x

\* t is s with x before it.
Stacked(s, t, x) == \A i \in DOMAIN t : /\ i \in Nat
                                        /\ \/ i = 1 /\ t[i] = x
                                           \/ i # 1 /\ i - 1 \in DOMAIN s /\ t[i] = s[i - 1]

LEMMA OnePlaceStep == TypeInv /\ OnePlace /\ [Next]_vars => OnePlace'
<1> SUFFICES ASSUME TypeInv, OnePlace, [Next]_vars PROVE OnePlace'
  OBVIOUS
<1> USE DEF OnePlace
<1>a. /\ strand \in Seq(0..MaxObjects) /\ waiting \in Seq(Objects)
      /\ suspended \in Seq(Suspensions)
      /\ 0 \in 0..MaxObjects /\ Objects \subseteq 0..MaxObjects
  BY FcgiAssumption DEF TypeInv, TypeOK, Objects
<1>c. \A i \in DOMAIN suspended : suspended[i].object \in Nat \ {0}
  <2>1. \A i \in DOMAIN suspended : suspended[i] \in Suspensions
    BY DEF TypeInv, TypeOK
  <2> QED
    BY <2>1 DEF Suspensions, Objects
<1>b. /\ created \in Nat /\ current \in Nat
      /\ running \subseteq Nat \ {0} /\ accepting \subseteq Nat \ {0}
      /\ \A i \in DOMAIN strand : strand[i] \in Nat
      /\ \A i \in DOMAIN waiting : waiting[i] \in Nat \ {0}
      /\ \A i \in DOMAIN suspended : suspended[i].object \in Nat \ {0}
  BY FcgiAssumption, <1>c DEF TypeInv, TypeOK, Objects
<1>1. CASE UNCHANGED place
  BY <1>1 DEF place, Bounded, AcceptingApart, StrandApart, WaitingApart, SuspendedApart
<1>2. ASSUME NEW how \in {"down", "returned", "terminated"}, End(how) PROVE OnePlace'
  BY <1>2 DEF End, Bounded, AcceptingApart, StrandApart, WaitingApart, SuspendedApart
<1>3. CASE Throw
  BY <1>3, <1>2 DEF Throw
<1>4. ASSUME NEW n \in Threads, Run(n) PROVE OnePlace'
  <2>1. DOMAIN strand' = 1..2 /\ strand'[1] = 0 /\ strand'[2] = 0
    BY <1>4 DEF Run
  <2>2. /\ waiting' = <<>> /\ running' = {} /\ accepting' = {}
        /\ current' = 0 /\ created' = 0 /\ suspended' = <<>>
    BY <1>4 DEF Run, TypeInv, DownInv, HandlerInv
  <2> QED
    BY <2>1, <2>2 DEF Bounded, AcceptingApart, StrandApart, WaitingApart, SuspendedApart
<1>5. CASE DoAccept
  <2>1. PICK o \in Objects :
          /\ IF waiting = <<>>
               THEN o = created + 1 /\ created' = o /\ UNCHANGED waiting
               ELSE o = Head(waiting) /\ waiting' = Tail(waiting) /\ UNCHANGED created
          /\ running' = running \cup {o}
          /\ accepting' = accepting \cup {o}
    BY <1>5 DEF DoAccept
  <2>2. strand' = Tail(strand) /\ strand # <<>> /\ at = "idle" /\ Head(strand) = 0
    BY <1>5 DEF DoAccept
  <2>3. Popped(strand, strand') /\ strand[1] = 0
    BY <2>2, <1>a, Behind DEF Popped
  <2>4. current = 0 /\ current' = 0 /\ o \in Nat \ {0}
    BY <1>5, <2>2 DEF DoAccept, TypeInv, HandlerInv, Objects
  <2>5. /\ running' = running \cup {o} /\ accepting' = accepting \cup {o}
        /\ DOMAIN suspended = {} /\ suspended' = suspended
    BY <1>5, <2>1, <2>2 DEF DoAccept, TypeInv, HandlerInv
  <2>6. CASE waiting = <<>>
    <3>1. /\ DOMAIN waiting = {} /\ DOMAIN waiting' = {}
          /\ created' = created + 1 /\ o = created + 1
      BY <2>1, <2>6
    <3>10. Bounded'
      BY <1>b, <2>3, <2>4, <2>5, <3>1 DEF Bounded, Popped
    <3>11. AcceptingApart'
      BY <1>b, <2>3, <2>4, <2>5, <3>1 DEF Bounded, AcceptingApart, Popped
    <3>12. StrandApart'
      BY <1>b, <2>3, <2>4, <2>5, <3>1 DEF StrandApart, Popped
    <3>13. WaitingApart'
      BY <1>b, <2>3, <2>4, <2>5, <3>1 DEF WaitingApart, Popped
    <3>14. SuspendedApart'
      BY <2>5 DEF SuspendedApart
    <3> QED
      BY <3>10, <3>11, <3>12, <3>13, <3>14
  <2>7. CASE waiting # <<>>
    <3>1. waiting' = Tail(waiting) /\ created' = created /\ o = Head(waiting)
      BY <2>1, <2>7
    <3>2. Popped(waiting, waiting') /\ o = waiting[1] /\ created' = created
      BY <3>1, <2>7, <1>a, Behind DEF Popped
    <3>10. Bounded'
      BY <1>b, <2>3, <2>4, <2>5, <3>2 DEF Bounded, Popped
    <3>11. AcceptingApart'
      BY <1>b, <2>3, <2>4, <2>5, <3>2 DEF StrandApart, WaitingApart, AcceptingApart, Popped
    <3>12. StrandApart'
      BY <1>b, <2>3, <2>4, <2>5, <3>2 DEF StrandApart, Popped
    <3>13. WaitingApart'
      BY <1>b, <2>3, <2>4, <2>5, <3>2 DEF WaitingApart, Popped
    <3>14. SuspendedApart'
      BY <2>5 DEF SuspendedApart
    <3> QED
      BY <3>10, <3>11, <3>12, <3>13, <3>14
  <2> QED
    BY <2>6, <2>7
<1>6. CASE HandleAccept
  <2>1. strand' = Tail(strand) /\ strand # <<>> /\ at = "idle" /\ Head(strand) # 0
    BY <1>6 DEF HandleAccept
  <2>2. Popped(strand, strand') /\ strand[1] # 0 /\ Head(strand) = strand[1]
    BY <2>1, <1>a, Behind DEF Popped
  <2>3. /\ current = 0 /\ current' = strand[1]
        /\ DOMAIN suspended = {}
        /\ UNCHANGED <<suspended, created, waiting, running, accepting>>
    BY <1>6, <2>1, <2>2 DEF HandleAccept, TypeInv, HandlerInv
  <2>10. Bounded'
    BY <1>b, <2>2, <2>3 DEF Bounded, Popped
  <2>11. AcceptingApart'
    BY <1>b, <2>2, <2>3 DEF AcceptingApart, Popped
  <2>12. StrandApart'
    BY <1>b, <2>2, <2>3 DEF StrandApart, Popped
  <2>13. WaitingApart'
    BY <1>b, <2>2, <2>3 DEF StrandApart, WaitingApart, Popped
  <2>14. SuspendedApart'
    BY <2>3 DEF SuspendedApart
  <2> QED
    BY <2>10, <2>11, <2>12, <2>13, <2>14
<1>7. CASE Reaccept
  <2>1. /\ strand' = Append(strand, 0)
        /\ UNCHANGED <<current, suspended, created, waiting, running, accepting>>
    BY <1>7 DEF Reaccept
  <2>2. Pushed(strand, strand', 0)
    BY <2>1, <1>a, Appended DEF Pushed
  <2>3. UNCHANGED <<current, suspended, created, waiting, running, accepting>>
    BY <2>1
  <2>10. Bounded'
    BY <1>b, <2>2, <2>3 DEF Bounded, Pushed
  <2>11. AcceptingApart'
    BY <1>b, <2>2, <2>3 DEF AcceptingApart, Pushed
  <2>12. StrandApart'
    BY <1>b, <2>2, <2>3 DEF StrandApart, Pushed
  <2>13. WaitingApart'
    BY <1>b, <2>2, <2>3 DEF WaitingApart, Pushed
  <2>14. SuspendedApart'
    BY <1>b, <2>2, <2>3 DEF SuspendedApart, Pushed
  <2> QED
    BY <2>10, <2>11, <2>12, <2>13, <2>14
<1>8. CASE Finish
  <2>1. waiting' = Append(waiting, current) /\ current \in Objects
    BY <1>8 DEF Finish, TypeInv, TypeOK, HandlerInv, Objects
  <2>2. Pushed(waiting, waiting', current)
    BY <2>1, <1>a, Appended DEF Pushed
  <2>3. /\ running' = running \ {current} /\ current # 0
        /\ UNCHANGED <<strand, created, accepting>>
    BY <1>8, <2>1 DEF Finish, Objects
  <2>4. CASE suspended = <<>>
    <3>1. current' = 0 /\ DOMAIN suspended = {} /\ suspended' = suspended
      BY <1>8, <2>4 DEF Finish
    <3>10. Bounded'
      BY <1>b, <2>2, <2>3, <3>1 DEF Bounded, Pushed
    <3>11. AcceptingApart'
      BY <1>b, <2>2, <2>3, <3>1 DEF AcceptingApart, Pushed
    <3>12. StrandApart'
      BY <1>b, <2>2, <2>3, <3>1 DEF StrandApart, Pushed
    <3>13. WaitingApart'
      BY <1>b, <2>2, <2>3, <3>1 DEF WaitingApart, Pushed
    <3>14. SuspendedApart'
      BY <3>1 DEF SuspendedApart
    <3> QED
      BY <3>10, <3>11, <3>12, <3>13, <3>14
  <2>5. CASE suspended # <<>>
    <3>1. suspended' = Tail(suspended) /\ current' = Head(suspended).object
      BY <1>8, <2>5 DEF Finish
    <3>2. /\ Popped(suspended, suspended') /\ 1 \in DOMAIN suspended
          /\ current' = suspended[1].object
      BY <3>1, <2>5, <1>a, Behind DEF Popped
    <3>10. Bounded'
      BY <1>b, <2>2, <2>3, <3>2 DEF Bounded, Pushed, Popped
    <3>11. AcceptingApart'
      BY <1>b, <2>2, <2>3, <3>2 DEF AcceptingApart, Pushed, Popped
    <3>12. StrandApart'
      BY <1>b, <2>2, <2>3, <3>2 DEF StrandApart, SuspendedApart, Pushed
    <3>13. WaitingApart'
      BY <1>b, <2>2, <2>3, <3>2 DEF WaitingApart, SuspendedApart, Pushed
    <3>14. SuspendedApart'
      BY <1>b, <2>2, <2>3, <3>2 DEF SuspendedApart, Pushed, Popped
    <3> QED
      BY <3>10, <3>11, <3>12, <3>13, <3>14
  <2> QED
    BY <2>4, <2>5
<1>9. ASSUME NEW o \in Objects, o \in accepting, Dispatch(o), accepting' = accepting \ {o},
             UNCHANGED <<created, waiting, running>>
      PROVE  OnePlace'
  <2>2. /\ o \in accepting /\ accepting' = accepting \ {o}
        /\ UNCHANGED <<created, waiting, running>>
    BY <1>9
  <2>3. CASE strand' = Append(strand, o) /\ UNCHANGED <<current, suspended>>
    <3>1. Pushed(strand, strand', o)
      BY <2>3, <1>9, <1>a, Appended DEF Pushed
    <3>2. UNCHANGED <<current, suspended>>
      BY <2>3
    <3>10. Bounded'
      BY <1>b, <2>2, <3>1, <3>2 DEF Bounded, Pushed
    <3>11. AcceptingApart'
      BY <1>b, <2>2, <3>1, <3>2 DEF AcceptingApart, Pushed
    <3>12. StrandApart'
      BY <1>b, <2>2, <3>1, <3>2 DEF AcceptingApart, StrandApart, Pushed
    <3>13. WaitingApart'
      BY <1>b, <2>2, <3>1, <3>2 DEF WaitingApart, Pushed
    <3>14. SuspendedApart'
      BY <1>b, <2>2, <3>1, <3>2 DEF AcceptingApart, SuspendedApart, Pushed
    <3> QED
      BY <3>10, <3>11, <3>12, <3>13, <3>14
  <2>4. CASE /\ at \in Reading
             /\ suspended' = <<[object |-> current, at |-> at]>> \o suspended
             /\ current' = o
             /\ UNCHANGED strand
    <3>1. PICK x : x = [object |-> current, at |-> at]
      OBVIOUS
    <3>2. x \in Suspensions /\ x.object = current
      BY <2>4, <3>1 DEF Suspensions, TypeInv, TypeOK, HandlerInv, Reading, Objects
    <3>3. suspended' = <<x>> \o suspended
      BY <2>4, <3>1
    <3>4. Stacked(suspended, suspended', x)
      BY <3>2, <3>3, <1>a, Put DEF Stacked
    <3>5. current # 0 /\ current' = o /\ UNCHANGED strand
      BY <2>4 DEF TypeInv, HandlerInv, Reading
    <3>10. Bounded'
      BY <1>b, <2>2, <3>2, <3>4, <3>5 DEF Bounded, Stacked
    <3>11. AcceptingApart'
      BY <1>b, <2>2, <3>2, <3>4, <3>5 DEF AcceptingApart, Stacked
    <3>12. StrandApart'
      BY <1>b, <2>2, <3>2, <3>4, <3>5 DEF AcceptingApart, StrandApart
    <3>13. WaitingApart'
      BY <1>b, <2>2, <3>2, <3>4, <3>5 DEF AcceptingApart, WaitingApart
    <3>14. SuspendedApart'
      BY <1>b, <2>2, <3>2, <3>4, <3>5
         DEF AcceptingApart, StrandApart, WaitingApart, SuspendedApart, Stacked
    <3> QED
      BY <3>10, <3>11, <3>12, <3>13, <3>14
  <2> QED
    BY <1>9, <2>3, <2>4 DEF Dispatch
<1>10. \A r \in Requests : Send(r) => UNCHANGED place
  BY DEF Send, place
<1>11. \A c \in open : HangUp(c) => UNCHANGED place
  BY DEF HangUp, place
<1>12. Load \/ LoadBreaksOff \/ CommitArrives \/ CommitUnheard \/ CallbackRaw
         \/ ExecuteCallbacks \/ Stall \/ Wake => UNCHANGED place
  BY DEF Load, LoadBreaksOff, Stall, Wake, CommitArrives, CommitUnheard, CallbackRaw, ExecuteCallbacks, place
<1>13. CommitFails \/ CallbackRawThrows \/ CallbackThrows => Throw
  BY DEF CommitFails, CallbackRawThrows, CallbackThrows
<1>14. CASE Kill
  BY <1>14, <1>2 DEF Kill
<1>15. ASSUME NEW o \in Objects, NEW c \in backlog, Accept(o, c) PROVE OnePlace'
  BY <1>15, <1>9 DEF Accept
<1>16. ASSUME NEW o \in Objects, AcceptFails(o) PROVE OnePlace'
  BY <1>16, <1>9 DEF AcceptFails
<1>17. UNCHANGED vars => UNCHANGED place
  BY DEF place
<1> QED
  BY <1>1, <1>3, <1>4, <1>5, <1>6, <1>7, <1>8, <1>10, <1>11, <1>12, <1>13, <1>14,
     <1>15, <1>16, <1>17, NextIsStep DEF Step

LEMMA InTail == ASSUME NEW S, NEW s \in Seq(S), s # <<>>, NEW o, In(s, o)
                PROVE  o = Head(s) \/ In(Tail(s), o)
<1>1. PICK i \in DOMAIN s : s[i] = o
  BY DEF In
<1>2. CASE i = 1
  BY <1>1, <1>2
<1>3. CASE i # 1
  <2>1. i - 1 \in DOMAIN Tail(s) /\ Tail(s)[i - 1] = s[i]
    BY <1>3
  <2> QED
    BY <1>1, <2>1 DEF In
<1> QED
  BY <1>2, <1>3

LEMMA InAppend == ASSUME NEW S, NEW s \in Seq(S), NEW x \in S, NEW o, In(s, o) \/ o = x
                  PROVE  In(Append(s, x), o)
<1>1. CASE In(s, o)
  <2>1. PICK i \in DOMAIN s : s[i] = o
    BY <1>1 DEF In
  <2>2. i \in DOMAIN Append(s, x) /\ Append(s, x)[i] = o
    BY <2>1
  <2> QED
    BY <2>2 DEF In
<1>2. CASE o = x
  <2>1. Len(s) + 1 \in DOMAIN Append(s, x) /\ Append(s, x)[Len(s) + 1] = o
    BY <1>2
  <2> QED
    BY <2>1 DEF In
<1> QED
  BY <1>1, <1>2

LEMMA SomePlaceStep == TypeInv /\ SomePlace /\ [Next]_vars => SomePlace'
<1> SUFFICES ASSUME TypeInv, SomePlace, [Next]_vars, NEW o \in 1..created'
             PROVE  (\/ o \in accepting \/ o = current \/ Under(o)
                     \/ In(strand, o) \/ In(waiting, o))'
  BY DEF SomePlace
<1>a. /\ strand \in Seq(0..MaxObjects) /\ waiting \in Seq(Objects)
      /\ suspended \in Seq(Suspensions)
      /\ 0 \in 0..MaxObjects /\ Objects \subseteq 0..MaxObjects /\ created \in Nat
  BY FcgiAssumption DEF TypeInv, TypeOK, Objects
<1> DEFINE There == \/ o \in accepting \/ o = current \/ Under(o)
                  \/ In(strand, o) \/ In(waiting, o)
<1>b. o \in 1..created => There
  BY DEF SomePlace
<1>c. o \in Nat \ {0}
  <2>1. created' \in Nat
    BY TypeStep, FcgiAssumption DEF TypeInv, TypeOK
  <2> QED
    BY <2>1
<1> HIDE DEF There
<1>d. UNCHANGED suspended => (Under(o)' <=> Under(o))
  BY DEF Under
<1>1. UNCHANGED place => There'
  BY <1>b DEF There, place, In, Under
<1>2. \A how : ~ End(how)
  BY <1>c DEF End
<1>3. ASSUME NEW n \in Threads, Run(n) PROVE There'
  <2>1. created' = 0
    BY <1>3 DEF Run, TypeInv, DownInv
  <2> QED
    BY <2>1
<1>4. ASSUME DoAccept PROVE There'
  <2>1. PICK p \in Objects :
          /\ IF waiting = <<>>
               THEN p = created + 1 /\ created' = p /\ UNCHANGED waiting
               ELSE p = Head(waiting) /\ waiting' = Tail(waiting) /\ UNCHANGED created
          /\ running' = running \cup {p}
          /\ accepting' = accepting \cup {p}
    BY <1>4 DEF DoAccept
  <2>2. strand' = Tail(strand) /\ strand # <<>> /\ Head(strand) = 0 /\ current' = current
        /\ suspended' = suspended
    BY <1>4 DEF DoAccept
  <2>3. In(strand, o) => In(strand', o)
    BY <2>2, <1>a, <1>c, InTail
  <2>4. accepting' = accepting \cup {p}
    BY <2>1
  <2>5. CASE waiting = <<>>
    <3>1. created' = created + 1 /\ p = created + 1 /\ waiting' = waiting
      BY <2>1, <2>5
    <3>2. o \in 1..created \/ o = p
      BY <3>1, <1>a, <1>c
    <3> QED
      BY <3>1, <3>2, <2>2, <2>3, <2>4, <1>b, <1>d DEF There
  <2>6. CASE waiting # <<>>
    <3>1. created' = created /\ p = Head(waiting) /\ waiting' = Tail(waiting)
      BY <2>1, <2>6
    <3>2. In(waiting, o) => o = p \/ In(waiting', o)
      BY <3>1, <2>6, <1>a, InTail
    <3> QED
      BY <3>1, <3>2, <2>2, <2>3, <2>4, <1>b, <1>d DEF There
  <2> QED
    BY <2>5, <2>6
<1>5. ASSUME HandleAccept PROVE There'
  <2>1. /\ strand' = Tail(strand) /\ strand # <<>> /\ current' = Head(strand)
        /\ UNCHANGED <<suspended, created, waiting, accepting>> /\ at = "idle"
    BY <1>5 DEF HandleAccept
  <2>2. In(strand, o) => o = current' \/ In(strand', o)
    BY <2>1, <1>a, InTail
  <2>3. o # current
    BY <2>1, <1>c DEF TypeInv, HandlerInv
  <2> QED
    BY <2>1, <2>2, <2>3, <1>b, <1>d DEF There
<1>6. ASSUME Reaccept PROVE There'
  <2>1. strand' = Append(strand, 0) /\ UNCHANGED <<current, suspended, created, waiting, accepting>>
    BY <1>6 DEF Reaccept
  <2>2. In(strand, o) => In(strand', o)
    BY <2>1, <1>a, InAppend
  <2> QED
    BY <2>1, <2>2, <1>b, <1>d DEF There
<1>7. ASSUME Finish PROVE There'
  <2>1. waiting' = Append(waiting, current) /\ UNCHANGED <<strand, created, accepting>>
    BY <1>7 DEF Finish
  <2>2. current \in Objects
    BY <1>7 DEF Finish, TypeInv, TypeOK, HandlerInv, Objects
  <2>3. In(waiting, o) \/ o = current => In(waiting', o)
    BY <2>1, <2>2, <1>a, InAppend
  <2>4. CASE suspended = <<>>
    <3>1. UNCHANGED suspended
      BY <1>7, <2>4 DEF Finish
    <3> QED
      BY <3>1, <2>1, <2>3, <1>b, <1>d DEF There
  <2>5. CASE suspended # <<>>
    <3>1. suspended' = Tail(suspended) /\ current' = Head(suspended).object
      BY <1>7, <2>5 DEF Finish
    <3>2. Popped(suspended, suspended') /\ current' = suspended[1].object
      BY <3>1, <2>5, <1>a, Behind DEF Popped
    <3>3. ASSUME NEW i \in DOMAIN suspended, suspended[i].object = o
          PROVE  o = current' \/ Under(o)'
      <4>1. CASE i = 1
        BY <4>1, <3>2, <3>3
      <4>2. CASE i # 1
        <5>1. i - 1 \in DOMAIN suspended' /\ suspended'[i - 1] = suspended[i]
          BY <4>2, <3>1, <3>3, <2>5, <1>a, Behind
        <5> QED
          BY <5>1, <3>3 DEF Under
      <4> QED
        BY <4>1, <4>2
    <3> QED
      BY <3>3, <2>1, <2>3, <1>b DEF There, Under
  <2> QED
    BY <2>4, <2>5
<1>8. ASSUME NEW p \in Objects, Dispatch(p), accepting' = accepting \ {p},
             UNCHANGED <<created, waiting>>
      PROVE  There'
  <2>1. ASSUME strand' = Append(strand, p), UNCHANGED <<current, suspended>> PROVE There'
    <3>1. In(strand, o) \/ o = p => In(strand', o)
      BY <2>1, <1>a, InAppend
    <3> QED
      BY <1>8, <2>1, <3>1, <1>b, <1>d DEF There
  <2>2. ASSUME at \in Reading, current' = p, UNCHANGED strand,
               suspended' = <<[object |-> current, at |-> at]>> \o suspended
        PROVE  There'
    <3>1. PICK x : x = [object |-> current, at |-> at]
      OBVIOUS
    <3>2. x \in Suspensions /\ x.object = current
      BY <2>2, <3>1 DEF Suspensions, TypeInv, TypeOK, HandlerInv, Reading, Objects
    <3>3. suspended' = <<x>> \o suspended
      BY <2>2, <3>1
    <3>4. /\ DOMAIN suspended' = 1..Len(suspended) + 1 /\ suspended'[1] = x
          /\ DOMAIN suspended = 1..Len(suspended) /\ Len(suspended) \in Nat
          /\ \A i \in 1..Len(suspended) : suspended'[i + 1] = suspended[i]
      BY <3>2, <3>3, <1>a, Put
    <3>5. o = current => Under(o)'
      BY <3>2, <3>4 DEF Under
    <3>6. ASSUME NEW i \in DOMAIN suspended, suspended[i].object = o PROVE Under(o)'
      <4>1. i + 1 \in DOMAIN suspended' /\ suspended'[i + 1] = suspended[i]
        BY <3>4
      <4> QED
        BY <4>1, <3>6 DEF Under
    <3>7. o \in accepting => o \in accepting' \/ o = current'
      BY <1>8, <2>2
    <3>8. In(strand, o) \/ In(waiting, o) => (In(strand, o) \/ In(waiting, o))'
      BY <1>8, <2>2 DEF In
    <3>9. created' = created
      BY <1>8
    <3> QED
      BY <3>5, <3>6, <3>7, <3>8, <3>9, <1>b DEF There, Under
  <2> QED
    BY <1>8, <2>1, <2>2 DEF Dispatch
<1>9. \A r \in Requests : Send(r) => UNCHANGED place
  BY DEF Send, place
<1>10. \A c \in open : HangUp(c) => UNCHANGED place
  BY DEF HangUp, place
<1>11. Load \/ LoadBreaksOff \/ CommitArrives \/ CommitUnheard \/ CallbackRaw
         \/ ExecuteCallbacks \/ Stall \/ Wake => UNCHANGED place
  BY DEF Load, LoadBreaksOff, CommitArrives, CommitUnheard, CallbackRaw, ExecuteCallbacks,
         Stall, Wake, place
<1>12. ~ (CommitFails \/ CallbackRawThrows \/ CallbackThrows \/ Kill)
  BY <1>2 DEF CommitFails, CallbackRawThrows, CallbackThrows, Kill, Throw
<1>13. ASSUME NEW p \in Objects, NEW c \in backlog, Accept(p, c) PROVE There'
  BY <1>13, <1>8 DEF Accept
<1>14. ASSUME NEW p \in Objects, AcceptFails(p) PROVE There'
  BY <1>14, <1>8 DEF AcceptFails
<1>15. UNCHANGED vars => UNCHANGED place
  BY DEF place
<1>16. There'
  <2>1. CASE UNCHANGED vars
    BY <2>1, <1>1, <1>15
  <2>2. CASE Next
    <3>1. Step
      BY <2>2, NextIsStep
    <3> QED
      BY <3>1, <1>1, <1>3, <1>4, <1>5, <1>6, <1>7, <1>9, <1>10, <1>11, <1>12, <1>13,
         <1>14 DEF Step
  <2> QED
    BY <2>1, <2>2
<1> QED
  BY <1>16 DEF There

-----------------------------------------------------------------------------
(* How many accepts there are.                                             *)

LEMMA AcceptingFinite == TypeInv => IsFiniteSet(accepting) /\ Cardinality(accepting) \in Nat
<1> SUFFICES ASSUME TypeInv PROVE IsFiniteSet(accepting)
  BY FS_CardinalityType
<1>1. accepting \in SUBSET (1..MaxObjects) /\ MaxObjects \in Int
  BY FcgiAssumption DEF TypeInv, TypeOK, Objects
<1>2. IsFiniteSet(1..MaxObjects)
  BY <1>1, FS_Interval
<1> QED
  BY <1>1, <1>2, FS_Subset

LEMMA Lengths == ASSUME NEW S, NEW s \in Seq(S)
                 PROVE  /\ Len(s) \in Nat
                        /\ \A x \in S : Len(Append(s, x)) = Len(s) + 1
                        /\ s # <<>> => Len(Tail(s)) = Len(s) - 1
OBVIOUS

LEMMA TwoAcceptsStep == TypeInv /\ OnePlace /\ TwoAccepts /\ [Next]_vars => TwoAccepts'
<1> SUFFICES ASSUME TypeInv, OnePlace, TwoAccepts, [Next]_vars, life' = "running"
             PROVE  TwoAccepts'
  BY DEF TwoAccepts
<1> DEFINE Busy == IF at \in {"idle", "finish"} THEN 0 ELSE 1
<1>a. IsFiniteSet(accepting) /\ Cardinality(accepting) \in Nat
  BY AcceptingFinite
<1>b. /\ strand \in Seq(0..MaxObjects) /\ Len(strand) \in Nat /\ Busy \in {0, 1}
      /\ \A x \in 0..MaxObjects : Len(Append(strand, x)) = Len(strand) + 1
      /\ strand # <<>> => Len(Tail(strand)) = Len(strand) - 1
  BY Lengths DEF TypeInv, TypeOK
<1>e. suspended \in Seq(Suspensions) /\ Len(suspended) \in Nat
  BY Lengths DEF TypeInv, TypeOK
<1>c. life = "running" => Cardinality(accepting) + Len(strand) + Len(suspended) + Busy = 2
  BY DEF TwoAccepts
<1>d. SUFFICES Cardinality(accepting') + Len(strand') + Len(suspended') + Busy' = 2
  BY DEF TwoAccepts
<1>1. CASE UNCHANGED <<life, accepting, strand, suspended, Busy>>
  BY <1>1, <1>c
<1>2. \A how \in {"down", "returned", "terminated"} : ~ End(how)
  BY DEF End
<1>3. ASSUME NEW n \in Threads, Run(n)
      PROVE  Cardinality(accepting') + Len(strand') + Len(suspended') + Busy' = 2
  <2>1. accepting' = {} /\ at' = "idle" /\ Len(strand') = 2 /\ Len(suspended') = 0
    BY <1>3 DEF Run, TypeInv, DownInv
  <2> QED
    BY <2>1, FS_EmptySet
<1>4. CASE DoAccept
  <2>1. PICK p \in Objects :
          /\ waiting = <<>> => p = created + 1
          /\ waiting # <<>> => p = Head(waiting)
          /\ accepting' = accepting \cup {p}
    BY <1>4 DEF DoAccept
  <2>2. created \in Nat /\ waiting \in Seq(Objects) /\ p \in Nat
    BY DEF TypeInv, TypeOK, Objects
  <2>3. p \notin accepting
    <3>1. CASE waiting = <<>>
      <4>1. p > created
        BY <2>1, <2>2, <3>1
      <4>2. \A o \in accepting : o <= created
        BY DEF OnePlace, Bounded
      <4> QED
        BY <4>1, <4>2, <2>2
    <3>2. CASE waiting # <<>>
      <4>1. 1 \in DOMAIN waiting /\ p = waiting[1]
        BY <2>1, <2>2, <3>2
      <4>2. \A o \in accepting : waiting[1] # o
        BY <4>1 DEF OnePlace, AcceptingApart
      <4> QED
        BY <4>1, <4>2
    <3> QED
      BY <3>1, <3>2
  <2>4. Cardinality(accepting') = Cardinality(accepting) + 1
    BY <2>1, <2>3, <1>a, FS_AddElement
  <2>5. strand # <<>> /\ strand' = Tail(strand) /\ life = "running" /\ Busy' = Busy
    BY <1>4 DEF DoAccept
  <2>6. Len(strand') = Len(strand) - 1
    BY <2>5, <1>b
  <2>7. life = "running" /\ Busy' = Busy /\ Len(suspended') = Len(suspended)
    BY <2>5, <1>4 DEF DoAccept
  <2> QED
    BY <2>4, <2>6, <2>7, <1>a, <1>b, <1>c, <1>e
<1>5. CASE HandleAccept
  <2>1. /\ strand # <<>> /\ strand' = Tail(strand) /\ life = "running"
        /\ Busy = 0 /\ Busy' = 1 /\ accepting' = accepting
    BY <1>5 DEF HandleAccept
  <2>2. Len(strand') = Len(strand) - 1
    BY <2>1, <1>b
  <2>3. Cardinality(accepting') = Cardinality(accepting)
    BY <2>1
  <2>4. life = "running" /\ Busy' = Busy + 1 /\ Len(suspended') = Len(suspended)
    BY <2>1, <1>5 DEF HandleAccept
  <2> HIDE DEF Busy
  <2> QED
    BY <2>2, <2>3, <2>4, <1>a, <1>b, <1>c, <1>e
<1>6. CASE Reaccept
  <2>1. /\ strand' = Append(strand, 0) /\ life = "running"
        /\ Busy = 1 /\ Busy' = 0 /\ accepting' = accepting
    BY <1>6 DEF Reaccept
  <2>2. Len(strand') = Len(strand) + 1
    BY <2>1, <1>b, FcgiAssumption
  <2>3. Cardinality(accepting') = Cardinality(accepting)
    BY <2>1
  <2>4. life = "running" /\ Busy' = Busy - 1 /\ Len(suspended') = Len(suspended)
    BY <2>1, <1>6 DEF Reaccept
  <2> HIDE DEF Busy
  <2> QED
    BY <2>2, <2>3, <2>4, <1>a, <1>b, <1>c, <1>e
<1>7. ASSUME NEW o \in Objects, o \in accepting, Dispatch(o),
             accepting' = accepting \ {o}, UNCHANGED life
      PROVE  Cardinality(accepting') + Len(strand') + Len(suspended') + Busy' = 2
  <2>1. Cardinality(accepting') = Cardinality(accepting) - 1 /\ life = "running"
    BY <1>7, <1>a, FS_RemoveElement
  <2>2. CASE strand' = Append(strand, o) /\ UNCHANGED handler
    <3>1. Len(strand') = Len(strand) + 1
      BY <2>2, <1>b DEF Objects
    <3>2. Busy' = Busy /\ Len(suspended') = Len(suspended)
      BY <2>2
    <3> HIDE DEF Busy
    <3> QED
      BY <2>1, <3>1, <3>2, <1>a, <1>b, <1>c, <1>e
  <2>3. CASE /\ at \in Reading /\ at' = "load" /\ UNCHANGED strand /\ current' = o
             /\ suspended' = <<[object |-> current, at |-> at]>> \o suspended
    <3>1. PICK x : x = [object |-> current, at |-> at]
      OBVIOUS
    <3>2. x \in Suspensions
      BY <2>3, <3>1 DEF Suspensions, TypeInv, TypeOK, HandlerInv, Reading, Objects
    <3>3. suspended' = <<x>> \o suspended
      BY <2>3, <3>1
    <3>4. Len(suspended') = Len(suspended) + 1
      BY <3>2, <3>3, <1>e, Put
    <3>5. Len(strand') = Len(strand) /\ Busy' = Busy
      BY <2>3 DEF Reading
    <3> HIDE DEF Busy
    <3> QED
      BY <2>1, <3>4, <3>5, <1>a, <1>b, <1>c, <1>e
  <2> QED
    BY <1>7, <2>2, <2>3 DEF Dispatch
<1>16. CASE Finish
  <2>1. UNCHANGED <<life, accepting, strand>> /\ Busy = 0
    BY <1>16 DEF Finish
  <2>2. Cardinality(accepting') = Cardinality(accepting) /\ Len(strand') = Len(strand)
    BY <2>1
  <2>3. CASE suspended = <<>>
    <3>1. Busy' = 0 /\ Len(suspended') = Len(suspended)
      BY <1>16, <2>3 DEF Finish
    <3> HIDE DEF Busy
    <3> QED
      BY <2>1, <2>2, <3>1, <1>a, <1>b, <1>c, <1>e
  <2>4. CASE suspended # <<>>
    <3>1. suspended' = Tail(suspended) /\ at' = Head(suspended).at
      BY <1>16, <2>4 DEF Finish
    <3>2. Len(suspended') = Len(suspended) - 1
      BY <3>1, <2>4, <1>e, Lengths
    <3>3. Head(suspended) \in Suspensions
      BY <2>4, <1>e
    <3>4. Busy' = 1
      BY <3>1, <3>3 DEF Suspensions, Reading
    <3> HIDE DEF Busy
    <3> QED
      BY <2>1, <2>2, <3>2, <3>4, <1>a, <1>b, <1>c, <1>e
  <2> QED
    BY <2>3, <2>4
<1>8. \A r \in Requests : Send(r) => UNCHANGED <<life, accepting, strand, suspended, Busy>>
  BY DEF Send
<1>9. \A c \in open : HangUp(c) => UNCHANGED <<life, accepting, strand, suspended, Busy>>
  BY DEF HangUp
<1>10. Load \/ LoadBreaksOff \/ CommitArrives \/ CommitUnheard \/ CallbackRaw
         \/ ExecuteCallbacks \/ Stall \/ Wake
         => UNCHANGED <<life, accepting, strand, suspended, Busy>>
  BY DEF Load, LoadBreaksOff, CommitArrives, CommitUnheard, CallbackRaw, ExecuteCallbacks,
         Stall, Wake, After
<1>11. ~ (CommitFails \/ CallbackRawThrows \/ CallbackThrows \/ Kill)
  BY <1>2 DEF CommitFails, CallbackRawThrows, CallbackThrows, Kill, Throw
<1>12. ASSUME NEW o \in Objects, NEW c \in backlog, Accept(o, c)
       PROVE  Cardinality(accepting') + Len(strand') + Len(suspended') + Busy' = 2
  BY <1>12, <1>7 DEF Accept
<1>13. ASSUME NEW o \in Objects, AcceptFails(o)
       PROVE  Cardinality(accepting') + Len(strand') + Len(suspended') + Busy' = 2
  BY <1>13, <1>7 DEF AcceptFails
<1>14. CASE UNCHANGED vars
  BY <1>14, <1>1
<1>15. CASE Next
  <2>1. Step
    BY <1>15, NextIsStep
  <2> HIDE DEF Busy
  <2> QED
    BY <2>1, <1>1, <1>3, <1>4, <1>5, <1>6, <1>8, <1>9, <1>10, <1>11, <1>12, <1>13, <1>16 DEF Step
<1> QED
  BY <1>14, <1>15

LEMMA CreatedStep ==
  TypeInv /\ SomePlace /\ TwoAccepts /\ created <= 2 /\ [Next]_vars => created' <= 2
<1> SUFFICES ASSUME TypeInv, SomePlace, TwoAccepts, created <= 2, [Next]_vars
             PROVE  created' <= 2
  OBVIOUS
<1>1. CASE created' \in {created, 0}
  BY <1>1
<1>2. CASE DoAccept /\ waiting = <<>>
  <2>1. /\ created' = created + 1 /\ current = 0 /\ at = "idle"
        /\ strand # <<>> /\ Head(strand) = 0 /\ life = "running"
    BY <1>2 DEF DoAccept, TypeInv, HandlerInv, DownInv
  <2>2. /\ strand \in Seq(0..MaxObjects) /\ Len(strand) \in Nat \ {0} /\ strand[1] = 0
        /\ DOMAIN strand = 1..Len(strand) /\ created \in Nat
    BY <2>1, Behind DEF TypeInv, TypeOK
  <2>7. Len(suspended) = 0 /\ \A o : ~ Under(o)
    BY <2>1 DEF TypeInv, HandlerInv, Under
  <2>3. /\ Cardinality(accepting) \in Nat /\ IsFiniteSet(accepting)
        /\ Cardinality(accepting) + Len(strand) = 2
    BY <2>1, <2>2, <2>7, AcceptingFinite DEF TwoAccepts
  <2>4. \A o \in 1..created : o \in accepting \/ In(strand, o)
    <3>1. \A o \in 1..created : ~ In(waiting, o) /\ o # current
      BY <1>2, <2>1, <2>2 DEF In
    <3> QED
      BY <3>1, <2>7 DEF SomePlace
  <2>5. \E p : \A o \in 1..created : o = p
    <3>1. CASE Len(strand) = 1
      <4>3. Cardinality(accepting) = 1
        BY <2>3, <3>1
      <4>1. \E p : accepting = {p}
        BY <4>3, <2>3, FS_Singleton
      <4>2. \A o \in 1..created : ~ In(strand, o)
        BY <2>2, <3>1 DEF In
      <4> QED
        BY <4>1, <4>2, <2>4
    <3>2. CASE Len(strand) = 2
      <4>1. accepting = {}
        BY <2>3, <3>2, FS_EmptySet
      <4>2. \A o \in 1..created : In(strand, o) => o = strand[2]
        BY <2>2, <3>2 DEF In
      <4> QED
        BY <4>1, <4>2, <2>4
    <3> QED
      BY <3>1, <3>2, <2>2, <2>3
  <2>6. ~ (1 \in 1..created /\ 2 \in 1..created)
    BY <2>5
  <2> QED
    BY <2>1, <2>2, <2>6
<1>3. CASE DoAccept /\ waiting # <<>>
  BY <1>3, <1>1 DEF DoAccept
<1>4. \A how : End(how) => created' = 0
  BY DEF End
<1>5. Kill \/ CommitFails \/ CallbackRawThrows \/ CallbackThrows
        => created' = 0
  BY <1>4 DEF CommitFails, CallbackRawThrows, CallbackThrows, Kill, Throw
<1>6. (\E r \in Requests : Send(r)) \/ (\E c \in open : HangUp(c)) \/ (\E n \in Threads : Run(n))
        => created' = created
  BY DEF Send, HangUp, Run
<1>7. HandleAccept \/ Load \/ LoadBreaksOff \/ Stall \/ Wake \/ CommitArrives \/ CommitUnheard \/ CallbackRaw
        \/ ExecuteCallbacks \/ Reaccept \/ Finish => created' = created
  BY DEF HandleAccept, Load, LoadBreaksOff, Stall, Wake, CommitArrives, CommitUnheard,
         CallbackRaw, ExecuteCallbacks, Reaccept, Finish
<1>8. \A o \in Objects : AcceptFails(o) \/ (\E c \in backlog : Accept(o, c))
        => created' = created
  BY DEF Accept, AcceptFails
<1>9. UNCHANGED vars => created' = created
  OBVIOUS
<1> QED
  BY <1>1, <1>2, <1>3, <1>5, <1>6, <1>7, <1>8, <1>9, NextIsStep DEF Step

-----------------------------------------------------------------------------
(* Answers and callbacks.                                                  *)

\* A sender that has its answer has no connection open, and no sender has two.
OpenInv == /\ \A c \in open : c.request \notin finished
           /\ \A c, d \in open : c.request = d.request => c = d

\* No connection that the listener has seen, or could see, is opened once more.
Known(c, sent) == c \in Connections => c.attempt <= sent[c.request]

KnownInv == /\ \A c \in backlog : Known(c, attempts)
            /\ \A o \in Objects : Known(connection[o], attempts)

\* What is refused is no update, or nobody waits for its answer any more.
Refused(c, there) == c.request \notin Updates \/ c \notin there

RefuseInv == /\ at = "refuse" => Refused(Client, open)
             /\ \A i \in DOMAIN suspended :
                  suspended[i].at = "refuse" => Refused(connection[suspended[i].object], open)

\* Each time the callbacks were called, or are about to be, an answer was committed.
RepeatInv == \A r \in Requests :
               executed[r] + One(InHand(r)) <= unheard[r] + One(r \in finished)

Answered == RepeatInv /\ AnsweredIsExecuted

AnswerInv == OpenInv /\ KnownInv /\ RefuseInv /\ Answered

LEMMA AnswerInit == Init => AnswerInv
<1> SUFFICES ASSUME Init PROVE AnswerInv
  OBVIOUS
<1>1. OpenInv /\ Answered
  BY DEF Init, OpenInv, RepeatInv, Answered, AnsweredIsExecuted, InHand, One, Requests
<1>2. KnownInv
  BY FcgiAssumption DEF Init, KnownInv, Known, NoConnections
<1>3. RefuseInv
  BY DEF Init, RefuseInv
<1> QED
  BY <1>1, <1>2, <1>3 DEF AnswerInv

LEMMA OpenStep == TypeInv /\ OpenInv /\ [Next]_vars => OpenInv'
<1> SUFFICES ASSUME TypeInv, OpenInv, [Next]_vars PROVE OpenInv'
  OBVIOUS
<1>1. ASSUME open' \subseteq open, finished' = finished PROVE OpenInv'
  BY <1>1 DEF OpenInv
<1>2. ASSUME NEW r \in Requests, Send(r) PROVE OpenInv'
  BY <1>2 DEF Send, OpenInv
<1>3. CASE CommitArrives
  BY <1>3 DEF CommitArrives, OpenInv
<1>4. \A how : End(how) => open' \subseteq open /\ finished' = finished
  BY DEF End
<1>5. Kill \/ CommitFails \/ CallbackRawThrows \/ CallbackThrows
        => open' \subseteq open /\ finished' = finished
  BY <1>4 DEF CommitFails, CallbackRawThrows, CallbackThrows, Kill, Throw
<1>6. (\E c \in open : HangUp(c)) \/ (\E n \in Threads : Run(n))
        => open' \subseteq open /\ finished' = finished
  BY DEF HangUp, Run
<1>7. DoAccept \/ HandleAccept \/ Load \/ LoadBreaksOff \/ CommitUnheard \/ CallbackRaw
        \/ ExecuteCallbacks \/ Reaccept \/ Finish \/ Stall \/ Wake
        => open' \subseteq open /\ finished' = finished
  BY DEF DoAccept, HandleAccept, Load, LoadBreaksOff, CommitUnheard, CallbackRaw,
         ExecuteCallbacks, Reaccept, Finish, Stall, Wake
<1>8. (\E o \in Objects : AcceptFails(o)) \/ (\E o \in Objects, c \in backlog : Accept(o, c))
        => open' \subseteq open /\ finished' = finished
  BY DEF Accept, AcceptFails
<1>9. UNCHANGED vars => open' \subseteq open /\ finished' = finished
  OBVIOUS
<1> QED
  BY <1>1, <1>2, <1>3, <1>5, <1>6, <1>7, <1>8, <1>9, NextIsStep DEF Step

LEMMA KnownStep == TypeInv /\ KnownInv /\ [Next]_vars => KnownInv'
<1> SUFFICES ASSUME TypeInv, KnownInv, [Next]_vars PROVE KnownInv'
  OBVIOUS
<1>a. connection \in [Objects -> Connections \cup {NoConnection}]
  BY DEF TypeInv, TypeOK
<1>b. ~ (NoConnection \in Connections)
  BY FcgiAssumption
<1>1. ASSUME backlog' \subseteq backlog, attempts' = attempts,
             \A o \in Objects : connection'[o] \in {connection[o], NoConnection} \cup backlog
      PROVE  KnownInv'
  BY <1>1, <1>b DEF KnownInv, Known
<1>2. ASSUME NEW r \in Requests, Send(r) PROVE KnownInv'
  <2>1. attempts \in [Requests -> Nat]
    BY FcgiAssumption DEF TypeInv, TypeOK
  <2>2. /\ attempts' = [attempts EXCEPT ![r] = @ + 1] /\ connection' = connection
        /\ backlog' = backlog \cup {[request |-> r, attempt |-> attempts[r] + 1]}
    BY <1>2 DEF Send
  <2>3. \A q \in Requests : attempts'[q] \in Nat /\ attempts[q] \in Nat /\ attempts[q] <= attempts'[q]
    BY <2>1, <2>2
  <2>4. ASSUME NEW c, Known(c, attempts) PROVE Known(c, attempts')
    <3> SUFFICES ASSUME c \in Connections PROVE c.attempt <= attempts'[c.request]
      BY DEF Known
    <3>1. c.request \in Requests /\ c.attempt \in Nat /\ c.attempt <= attempts[c.request]
      BY <2>4 DEF Known, Connections
    <3> QED
      BY <3>1, <2>3
  <2>5. Known([request |-> r, attempt |-> attempts[r] + 1], attempts')
    BY <2>1, <2>2 DEF Known
  <2> QED
    BY <2>2, <2>4, <2>5 DEF KnownInv
<1>3. \A how : End(how) => /\ UNCHANGED <<backlog, attempts>>
                           /\ \A o \in Objects : connection'[o] = NoConnection
  BY DEF End, NoConnections
<1>4. Kill \/ CommitFails \/ CallbackRawThrows \/ CallbackThrows => KnownInv'
  BY <1>1, <1>3 DEF CommitFails, CallbackRawThrows, CallbackThrows, Kill, Throw
<1>5. \/ \E c \in open : HangUp(c)
      \/ \E n \in Threads : Run(n)
      \/ \E o \in Objects : AcceptFails(o)
      => UNCHANGED <<backlog, attempts, connection>>
  BY DEF HangUp, Run, AcceptFails
<1>6. DoAccept \/ HandleAccept \/ Load \/ LoadBreaksOff \/ CommitArrives \/ CommitUnheard
        \/ CallbackRaw \/ ExecuteCallbacks \/ Reaccept \/ Stall \/ Wake
        => UNCHANGED <<backlog, attempts, connection>>
  BY DEF DoAccept, HandleAccept, Load, LoadBreaksOff, CommitArrives, CommitUnheard,
         CallbackRaw, ExecuteCallbacks, Reaccept, Stall, Wake
<1>7. CASE UNCHANGED <<backlog, attempts, connection>>
  BY <1>7, <1>1
<1>8. CASE Finish
  <2>1. /\ UNCHANGED <<backlog, attempts>>
        /\ connection' = [connection EXCEPT ![current] = NoConnection]
    BY <1>8 DEF Finish
  <2>2. \A o \in Objects : connection'[o] \in {connection[o], NoConnection}
    BY <2>1, <1>a
  <2> QED
    BY <2>1, <2>2, <1>1
<1>9. ASSUME NEW o \in Objects, NEW c \in backlog, Accept(o, c) PROVE KnownInv'
  <2>1. backlog' \subseteq backlog /\ attempts' = attempts
    BY <1>9 DEF Accept
  <2>2. \A p \in Objects : connection'[p] \in {connection[p], c}
    BY <1>9, <1>a DEF Accept
  <2> QED
    BY <2>1, <2>2, <1>1
<1>10. UNCHANGED vars => UNCHANGED <<backlog, attempts, connection>>
  OBVIOUS
<1> QED
  BY <1>2, <1>4, <1>5, <1>6, <1>7, <1>8, <1>9, <1>10, NextIsStep DEF Step

LEMMA RefuseStep ==
  TypeInv /\ OnePlace /\ OpenInv /\ KnownInv /\ RefuseInv /\ [Next]_vars => RefuseInv'
<1> SUFFICES ASSUME TypeInv, OnePlace, OpenInv, KnownInv, RefuseInv, [Next]_vars
             PROVE  RefuseInv'
  OBVIOUS
<1>a. /\ connection \in [Objects -> Connections \cup {NoConnection}]
      /\ current \in 0..MaxObjects /\ attempts \in [Requests -> Nat]
  BY FcgiAssumption DEF TypeInv, TypeOK
<1>b. \A i \in DOMAIN suspended :
        /\ suspended[i] \in Suspensions /\ suspended[i].object \in Objects
        /\ suspended[i].at \in {"load", "refuse"}
  <2>1. \A i \in DOMAIN suspended : suspended[i] \in Suspensions
    BY DEF TypeInv, TypeOK
  <2> QED
    BY <2>1 DEF Suspensions, Reading
<1>c. /\ suspended \in Seq(Suspensions)
      /\ at # "idle" => current \in Objects
  BY <1>a, FcgiAssumption DEF TypeInv, TypeOK, HandlerInv, Objects
\* Who has hung up has not come back.
<1>1. ASSUME open' \subseteq open, NEW c, Refused(c, open) PROVE Refused(c, open')
  BY <1>1 DEF Refused
<1>2. ASSUME UNCHANGED <<at, current, suspended, connection>>,
             \A c : Refused(c, open) => Refused(c, open')
      PROVE  RefuseInv'
  BY <1>2 DEF RefuseInv, Client
<1>3. ASSUME at' # "refuse", UNCHANGED <<suspended, connection>>, open' \subseteq open
      PROVE  RefuseInv'
  BY <1>3, <1>1 DEF RefuseInv
<1>4. ASSUME NEW r \in Requests, Send(r) PROVE RefuseInv'
  <2>1. /\ open' = open \cup {[request |-> r, attempt |-> attempts[r] + 1]}
        /\ UNCHANGED <<at, current, suspended, connection>>
    BY <1>4 DEF Send
  <2>2. ASSUME NEW o \in Objects, Refused(connection[o], open) PROVE Refused(connection[o], open')
    <3>1. connection[o] # [request |-> r, attempt |-> attempts[r] + 1]
      <4> SUFFICES ASSUME connection[o] = [request |-> r, attempt |-> attempts[r] + 1]
                   PROVE  FALSE
        OBVIOUS
      <4>1. [request |-> r, attempt |-> attempts[r] + 1] \in Connections
        BY <1>4, <1>a, FcgiAssumption DEF Send, Connections
      <4>2. Known([request |-> r, attempt |-> attempts[r] + 1], attempts)
        BY DEF KnownInv
      <4> QED
        BY <4>1, <4>2, <1>a DEF Known
    <3> QED
      BY <3>1, <2>1, <2>2 DEF Refused
  <2>3. at' = "refuse" => Refused(Client', open')
    BY <2>1, <2>2, <1>c DEF RefuseInv, Client
  <2>4. \A i \in DOMAIN suspended :
          suspended[i].at = "refuse" => Refused(connection[suspended[i].object], open')
    BY <2>2, <1>b DEF RefuseInv
  <2> QED
    BY <2>1, <2>3, <2>4 DEF RefuseInv
<1>5. ASSUME NEW how, End(how) PROVE RefuseInv'
  BY <1>5 DEF End, RefuseInv
<1>6. Kill \/ CommitFails \/ CallbackRawThrows \/ CallbackThrows => RefuseInv'
  BY <1>5 DEF CommitFails, CallbackRawThrows, CallbackThrows, Kill, Throw
<1>7. ASSUME NEW c \in open, HangUp(c) PROVE RefuseInv'
  BY <1>7, <1>1, <1>2 DEF HangUp
<1>8. ASSUME NEW n \in Threads, Run(n) PROVE RefuseInv'
  BY <1>8, <1>1, <1>2 DEF Run
<1>9. DoAccept \/ Stall \/ Wake
        => UNCHANGED <<at, current, suspended, connection>> /\ open' = open
  BY DEF DoAccept, Stall, Wake
<1>10. HandleAccept \/ CommitArrives \/ CommitUnheard \/ CallbackRaw \/ ExecuteCallbacks
         \/ Reaccept => /\ at' # "refuse" /\ UNCHANGED <<suspended, connection>>
                        /\ open' \subseteq open
  BY DEF HandleAccept, CommitArrives, CommitUnheard, CallbackRaw, ExecuteCallbacks, Reaccept, After
<1>11. CASE Load \/ LoadBreaksOff
  <2>1. UNCHANGED <<open, current, suspended, connection>>
    BY <1>11 DEF Load, LoadBreaksOff
  <2>2. at' = "refuse" => Refused(Client, open)
    BY <1>11 DEF Load, LoadBreaksOff, Refused, After
  <2> QED
    BY <2>1, <2>2 DEF RefuseInv, Refused, Client
<1>12. CASE Finish
  <2>1. /\ connection' = [connection EXCEPT ![current] = NoConnection] /\ open' = open
        /\ at = "finish"
    BY <1>12 DEF Finish
  <2>2. CASE suspended = <<>>
    <3>1. at' = "idle" /\ suspended' = <<>>
      BY <1>12, <2>2 DEF Finish
    <3> QED
      BY <3>1 DEF RefuseInv
  <2>3. CASE suspended # <<>>
    <3>1. /\ suspended' = Tail(suspended)
          /\ at' = Head(suspended).at /\ current' = Head(suspended).object
      BY <1>12, <2>3 DEF Finish
    <3>2. /\ Popped(suspended, suspended')
          /\ at' = suspended[1].at /\ current' = suspended[1].object
      BY <3>1, <2>3, <1>c, Behind DEF Popped
    <3>3. ASSUME NEW i \in DOMAIN suspended, suspended[i].at = "refuse"
          PROVE  Refused(connection'[suspended[i].object], open')
      <4>1. connection'[suspended[i].object] = connection[suspended[i].object]
        BY <2>1, <1>a, <1>b DEF OnePlace, SuspendedApart
      <4> QED
        BY <4>1, <3>3, <2>1, <1>1 DEF RefuseInv
    <3>4. at' = "refuse" => Refused(Client', open')
      BY <3>2, <3>3 DEF Popped, Client
    <3>5. \A i \in DOMAIN suspended' :
            suspended'[i].at = "refuse" => Refused(connection'[suspended'[i].object], open')
      BY <3>2, <3>3 DEF Popped
    <3> QED
      BY <3>4, <3>5 DEF RefuseInv
  <2> QED
    BY <2>2, <2>3
<1>13. ASSUME NEW o \in Objects, o \in accepting, Dispatch(o), open' = open,
              \A p \in Objects : p # o => connection'[p] = connection[p]
       PROVE  RefuseInv'
  <2>1. ASSUME NEW i \in DOMAIN suspended, suspended[i].at = "refuse"
        PROVE  Refused(connection'[suspended[i].object], open')
    <3>1. connection'[suspended[i].object] = connection[suspended[i].object]
      BY <1>13, <1>b DEF OnePlace, AcceptingApart
    <3> QED
      BY <3>1, <2>1, <1>13, <1>1 DEF RefuseInv
  <2>2. ASSUME at = "refuse" PROVE Refused(connection'[current], open')
    <3>1. connection'[current] = connection[current]
      BY <1>13, <1>c, <2>2 DEF OnePlace, AcceptingApart
    <3> QED
      BY <3>1, <2>2, <1>13, <1>1 DEF RefuseInv, Client
  <2>3. CASE UNCHANGED handler
    BY <2>1, <2>2, <2>3 DEF RefuseInv, Client
  <2>4. CASE /\ at \in Reading /\ at' = "load"
             /\ suspended' = <<[object |-> current, at |-> at]>> \o suspended
    <3>1. PICK x : x = [object |-> current, at |-> at]
      OBVIOUS
    <3>2. x \in Suspensions /\ x.object = current /\ x.at = at
      BY <2>4, <3>1, <1>c DEF Suspensions, Reading
    <3>3. suspended' = <<x>> \o suspended
      BY <2>4, <3>1
    <3>4. Stacked(suspended, suspended', x)
      BY <3>2, <3>3, <1>c, Put DEF Stacked
    <3>5. \A i \in DOMAIN suspended' :
            suspended'[i].at = "refuse" => Refused(connection'[suspended'[i].object], open')
      BY <3>2, <3>4, <2>1, <2>2 DEF Stacked
    <3> QED
      BY <3>5, <2>4 DEF RefuseInv
  <2> QED
    BY <1>13, <2>3, <2>4 DEF Dispatch
<1>14. ASSUME NEW o \in Objects, NEW c \in backlog, Accept(o, c) PROVE RefuseInv'
  <2>1. o \in accepting /\ Dispatch(o) /\ open' = open
    BY <1>14 DEF Accept
  <2>2. \A p \in Objects : p # o => connection'[p] = connection[p]
    BY <1>14, <1>a DEF Accept
  <2> QED
    BY <2>1, <2>2, <1>13
<1>15. ASSUME NEW o \in Objects, AcceptFails(o) PROVE RefuseInv'
  BY <1>15, <1>13 DEF AcceptFails
<1>16. UNCHANGED vars => UNCHANGED <<at, current, suspended, connection>> /\ open' = open
  OBVIOUS
<1>17. CASE UNCHANGED <<at, current, suspended, connection>> /\ open' = open
  BY <1>17, <1>1, <1>2
<1> QED
  BY <1>3, <1>4, <1>6, <1>7, <1>8, <1>9, <1>10, <1>11, <1>12, <1>14, <1>15, <1>16, <1>17,
     NextIsStep DEF Step

\* What a step does to the facts about answers, but for those that execute or commit
\* and the ends of the process.
Unanswered == /\ UNCHANGED <<finished, executed, unheard, excused>>
              /\ \A r : InHand(r)' <=> InHand(r)
              /\ life' = life \/ (life # "running" /\ life' = "running")

LEMMA AnswerKept == Answered /\ Unanswered => Answered'
<1> SUFFICES ASSUME Answered, Unanswered PROVE Answered'
  OBVIOUS
<1>1. RepeatInv'
  BY DEF Answered, RepeatInv, Unanswered, One
<1>2. AnsweredIsExecuted'
  BY DEF Answered, AnsweredIsExecuted, Unanswered, InHand
<1> QED
  BY <1>1, <1>2 DEF Answered

\* The steps that commit an answer, execute, or end the process.
Answers == \/ CommitArrives
           \/ CommitUnheard /\ at = "commit"
           \/ ExecuteCallbacks \/ CallbackThrows
           \/ Kill \/ CommitFails \/ CallbackRawThrows

LEMMA AnswerCases == TypeInv /\ OnePlace /\ [Next]_vars => Unanswered \/ Answers
<1> SUFFICES ASSUME TypeInv, OnePlace, [Next]_vars PROVE Unanswered \/ Answers
  OBVIOUS
<1>9. ASSUME NEW r \in Requests, Send(r) PROVE Unanswered
  BY <1>9 DEF Send, Unanswered, InHand, Client
<1>10. ASSUME NEW c \in open, HangUp(c) PROVE Unanswered
  BY <1>10 DEF HangUp, Unanswered, InHand, Client
<1>11. ASSUME NEW n \in Threads, Run(n) PROVE Unanswered
  BY <1>11 DEF Run, Unanswered, InHand, Client
<1>12. ASSUME DoAccept PROVE Unanswered
  BY <1>12 DEF DoAccept, Unanswered, InHand, Client
<1>13. ASSUME HandleAccept PROVE Unanswered
  BY <1>13 DEF HandleAccept, Unanswered, InHand
<1>14. ASSUME Load \/ LoadBreaksOff PROVE Unanswered
  <2>1. /\ at = "load" /\ at' \in {"commit", "refuse"}
        /\ UNCHANGED <<life, finished, executed, unheard, excused>>
    BY <1>14 DEF Load, LoadBreaksOff, After
  <2> QED
    BY <2>1 DEF Unanswered, InHand
<1>15. ASSUME CallbackRaw PROVE Unanswered
  BY <1>15 DEF CallbackRaw, After, Unanswered, InHand, Client
<1>16. ASSUME Reaccept PROVE Unanswered
  BY <1>16 DEF Reaccept, Unanswered, InHand
<1>17. ASSUME Finish PROVE Unanswered
  <2>1. at = "finish" /\ UNCHANGED <<life, finished, executed, unheard, excused>>
    BY <1>17 DEF Finish
  <2>2. at' \notin {"raw", "execute"}
    <3>1. CASE suspended = <<>>
      BY <1>17, <3>1 DEF Finish
    <3>2. CASE suspended # <<>>
      <4>1. Head(suspended) \in Suspensions /\ at' = Head(suspended).at
        BY <1>17, <3>2 DEF Finish, TypeInv, TypeOK
      <4> QED
        BY <4>1 DEF Suspensions, Reading
    <3> QED
      BY <3>1, <3>2
  <2> QED
    BY <2>1, <2>2 DEF Unanswered, InHand
\* A handler keeps its connection, for no accept is outstanding on its object.
<1>18. ASSUME NEW o \in Objects, o \in accepting, Dispatch(o),
              \A p \in Objects : p # o => connection'[p] = connection[p],
              UNCHANGED <<life, finished, executed, unheard, excused>>
       PROVE  Unanswered
  <2>1. CASE UNCHANGED handler
    <3>1. at # "idle" => current \in Objects
      BY FcgiAssumption DEF TypeInv, TypeOK, HandlerInv, Objects
    <3>2. at # "idle" => Client' = Client
      BY <3>1, <2>1, <1>18 DEF OnePlace, AcceptingApart, Client
    <3> QED
      BY <3>2, <2>1, <1>18 DEF Unanswered, InHand
  <2>2. CASE at \in Reading /\ at' = "load"
    BY <2>2, <1>18 DEF Unanswered, InHand, Reading
  <2> QED
    BY <1>18, <2>1, <2>2 DEF Dispatch
<1>19. ASSUME NEW o \in Objects, AcceptFails(o) PROVE Unanswered
  BY <1>19, <1>18 DEF AcceptFails
<1>22. ASSUME NEW o \in Objects, NEW c \in backlog, Accept(o, c) PROVE Unanswered
  <2>1. \A p \in Objects : p # o => connection'[p] = connection[p]
    BY <1>22 DEF Accept, TypeInv, TypeOK
  <2> QED
    BY <1>22, <2>1, <1>18 DEF Accept
<1>23. Stall \/ Wake => Unanswered
  BY DEF Stall, Wake, Unanswered, InHand, Client
<1>20. UNCHANGED vars => Unanswered
  BY DEF Unanswered, InHand, Client
<1>21. ASSUME CommitUnheard, at = "refuse" PROVE Unanswered
  BY <1>21 DEF CommitUnheard, After, Unanswered, InHand
<1> QED
  <2>1. CommitUnheard => at \in {"commit", "refuse"}
    BY DEF CommitUnheard
  <2> QED
    BY <2>1, <1>9, <1>10, <1>11, <1>12, <1>13, <1>14, <1>15, <1>16, <1>17, <1>19, <1>20,
       <1>21, <1>22, <1>23, NextIsStep DEF Step, Answers

LEMMA AnswerStep == TypeInv /\ OnePlace /\ AnswerInv /\ [Next]_vars => Answered'
<1> SUFFICES ASSUME TypeInv, OnePlace, AnswerInv, [Next]_vars PROVE Answered'
  OBVIOUS
<1>b. /\ executed \in [Requests -> Nat] /\ unheard \in [Requests -> Nat]
      /\ finished \subseteq Requests /\ open \subseteq Connections
  BY DEF TypeInv, TypeOK
<1>d. RepeatInv /\ AnsweredIsExecuted
  BY DEF AnswerInv, Answered
<1>c. at \in {"commit", "raw", "execute"} => Client.request \in Requests
  BY DEF TypeInv, HandlerInv, Connections
<1>1. CASE Unanswered
  BY <1>1, AnswerKept DEF AnswerInv
\* Ends of the process.
<1>2. ASSUME NEW how, End(how), UNCHANGED <<executed, unheard>> PROVE Answered'
  <2>1. /\ at' = "idle" /\ finished' = finished
        /\ excused' = IF at \in {"raw", "execute"}
                        THEN excused \cup {Client.request} ELSE excused
    BY <1>2 DEF End, Client
  <2>2. \A r : ~ InHand(r)'
    BY <2>1 DEF InHand
  <2>3. RepeatInv'
    <3>1. ASSUME NEW r \in Requests
          PROVE  executed[r] + 0 <= unheard[r] + One(r \in finished)
      BY <1>b, <1>d DEF RepeatInv, One
    <3> QED
      BY <3>1, <2>1, <2>2, <1>2 DEF RepeatInv, One
  <2>4. AnsweredIsExecuted'
    BY <2>1, <1>2, <1>d DEF AnsweredIsExecuted
  <2> QED
    BY <2>3, <2>4 DEF Answered
<1>3. Kill \/ CommitFails \/ CallbackRawThrows => Answered'
  BY <1>2 DEF CommitFails, CallbackRawThrows, Kill, Throw
\* The commits.
<1>4. CASE CommitArrives
  <2> DEFINE q == Client.request
  <2>1. /\ at \in {"commit", "refuse"} /\ q \in Requests /\ q \notin finished
        /\ finished' = finished \cup {q} /\ Client' = Client
        /\ at' = IF at = "commit" THEN "raw" ELSE "reaccept"
        /\ UNCHANGED <<executed, unheard, excused>>
    <3>1. Client \in open /\ Client \in Connections
      BY <1>4, <1>b DEF CommitArrives
    <3>2. q \in Requests /\ q \notin finished
      BY <3>1 DEF Connections, AnswerInv, OpenInv
    <3> QED
      BY <1>4, <3>2 DEF CommitArrives, After, Client
  <2> HIDE DEF q
  <2>3. ASSUME NEW r \in Requests
        PROVE  executed[r] + One(InHand(r)') <= unheard[r] + One(r \in finished')
    <3>1. executed[r] <= unheard[r] + One(r \in finished)
      BY <2>1, <1>b, <1>d DEF RepeatInv, InHand, One
    <3>2. CASE r = q
      BY <3>1, <3>2, <2>1, <1>b DEF One
    <3>3. CASE r # q
      <4>1. ~ InHand(r)'
        BY <2>1, <3>3 DEF InHand, q
      <4> QED
        BY <4>1, <3>1, <3>3, <2>1, <1>b DEF One
    <3> QED
      BY <3>2, <3>3
  <2>4. RepeatInv'
    BY <2>1, <2>3 DEF RepeatInv
  <2>5. AnsweredIsExecuted'
    <3>1. at = "refuse" => q \notin Updates
      BY <1>4 DEF CommitArrives, AnswerInv, RefuseInv, Refused, q
    <3>2. at = "commit" => at' = "raw" /\ Client'.request = q
      BY <2>1 DEF q
    <3> QED
      BY <3>1, <3>2, <2>1, <1>d DEF AnsweredIsExecuted
  <2> QED
    BY <2>4, <2>5 DEF Answered
<1>5. CASE CommitUnheard /\ at = "commit"
  <2> DEFINE q == Client.request
  <2>1. /\ at = "commit" /\ q \in Requests /\ Client' = Client
        /\ unheard' = [unheard EXCEPT ![q] = @ + 1]
        /\ at' = "raw"
        /\ UNCHANGED <<finished, executed, excused>>
    BY <1>5, <1>c DEF CommitUnheard, After, Client
  <2> HIDE DEF q
  <2>3. ASSUME NEW r \in Requests
        PROVE  executed[r] + One(InHand(r)') <= unheard'[r] + One(r \in finished)
    <3>1. executed[r] <= unheard[r] + One(r \in finished)
      BY <2>1, <1>b, <1>d DEF RepeatInv, InHand, One
    <3>2. CASE r = q
      <4>1. unheard'[r] = unheard[r] + 1
        BY <3>2, <2>1, <1>b
      <4> QED
        BY <4>1, <3>1, <1>b DEF One
    <3>3. CASE r # q
      <4>1. ~ InHand(r)' /\ unheard'[r] = unheard[r]
        BY <2>1, <3>3, <1>b DEF InHand, q
      <4> QED
        BY <4>1, <3>1, <1>b DEF One
    <3> QED
      BY <3>2, <3>3
  <2>4. RepeatInv'
    BY <2>1, <2>3 DEF RepeatInv
  <2>5. AnsweredIsExecuted'
    BY <2>1, <1>d DEF AnsweredIsExecuted
  <2> QED
    BY <2>4, <2>5 DEF Answered
\* The callbacks.
<1>6. ASSUME at = "execute", Executed, at' \notin {"raw", "execute"},
             UNCHANGED <<finished, unheard>>, excused \subseteq excused'
      PROVE  Answered'
  <2> DEFINE q == Client.request
  <2>1. q \in Requests /\ executed' = [executed EXCEPT ![q] = @ + 1] /\ InHand(q)
    BY <1>6, <1>c DEF Executed, InHand
  <2>2. \A r : ~ InHand(r)'
    BY <1>6 DEF InHand
  <2> HIDE DEF q
  <2>3. ASSUME NEW r \in Requests
        PROVE  executed'[r] <= unheard[r] + One(r \in finished)
    <3>1. executed[r] + One(InHand(r)) <= unheard[r] + One(r \in finished)
      BY <1>d DEF RepeatInv
    <3>2. executed'[r] <= executed[r] + One(InHand(r))
      BY <2>1, <1>b DEF One
    <3> QED
      BY <3>1, <3>2, <1>b, <2>1 DEF One
  <2>4. RepeatInv'
    <3>1. \A r \in Requests : executed'[r] \in Nat
      BY <2>1, <1>b, Incremented
    <3> QED
      BY <3>1, <2>3, <2>2, <1>6 DEF RepeatInv, One
  <2>5. AnsweredIsExecuted'
    <3>1. ASSUME NEW r \in Updates \cap finished
          PROVE  executed'[r] > 0 \/ r \in excused'
      <4>1. r \in Requests /\ executed[r] \in Nat
        BY <1>b
      <4>2. executed[r] > 0 \/ r \in excused \/ r = q
        BY <1>6, <1>d DEF AnsweredIsExecuted, q
      <4>3. executed'[r] = IF r = q THEN executed[r] + 1 ELSE executed[r]
        BY <4>1, <2>1, <1>b
      <4> QED
        BY <4>1, <4>2, <4>3, <1>6
    <3> QED
      BY <3>1, <1>6 DEF AnsweredIsExecuted
  <2> QED
    BY <2>4, <2>5 DEF Answered
<1>7. CASE ExecuteCallbacks
  BY <1>7, <1>6 DEF ExecuteCallbacks, After
<1>8. CASE CallbackThrows
  <2>1. /\ at = "execute" /\ Executed /\ at' = "idle"
        /\ UNCHANGED <<finished, unheard>> /\ excused \subseteq excused'
    BY <1>8 DEF CallbackThrows, Throw, End
  <2> QED
    BY <2>1, <1>6
<1> QED
  BY <1>1, <1>3, <1>4, <1>5, <1>7, <1>8, AnswerCases DEF Answers

\* What is answered as an update is one: the object of the handler that runs is not
\* accepted on anew below it.
ServedInv == at \in {"commit", "raw", "execute"} => Client.request \in Updates

LEMMA ServedStep == TypeInv /\ OnePlace /\ ServedInv /\ [Next]_vars => ServedInv'
<1> SUFFICES ASSUME TypeInv, OnePlace, ServedInv, [Next]_vars PROVE ServedInv'
  OBVIOUS
<1> DEFINE Serving == {"commit", "raw", "execute"}
<1>1. ASSUME at' \in Serving => at \in Serving /\ Client' = Client PROVE ServedInv'
  BY <1>1 DEF ServedInv
<1>2. ASSUME at' \notin Serving PROVE ServedInv'
  BY <1>2 DEF ServedInv
<1>3. \/ \E r \in Requests : Send(r)
      \/ \E c \in open : HangUp(c)
      \/ \E n \in Threads : Run(n)
      \/ DoAccept \/ Stall \/ Wake \/ UNCHANGED vars
      => at' = at /\ Client' = Client
  BY DEF Send, HangUp, Run, DoAccept, Stall, Wake, Client
<1>4. HandleAccept \/ LoadBreaksOff \/ ExecuteCallbacks \/ Reaccept => at' \notin Serving
  BY DEF HandleAccept, LoadBreaksOff, ExecuteCallbacks, Reaccept, After
<1>5. \A how : End(how) => at' \notin Serving
  BY DEF End
<1>6. Kill \/ CommitFails \/ CallbackRawThrows \/ CallbackThrows => at' \notin Serving
  BY <1>5 DEF Kill, CommitFails, CallbackRawThrows, CallbackThrows, Throw
<1>7. CommitArrives \/ CommitUnheard \/ CallbackRaw
        => (at' \in Serving => at \in Serving /\ Client' = Client)
  BY DEF CommitArrives, CommitUnheard, CallbackRaw, After, Client
<1>8. Load => ServedInv'
  BY DEF Load, ServedInv, Client
<1>9. Finish => at' \notin Serving
  <2> SUFFICES ASSUME Finish PROVE at' \notin Serving
    OBVIOUS
  <2>1. CASE suspended = <<>>
    BY <2>1 DEF Finish
  <2>2. CASE suspended # <<>>
    <3>1. Head(suspended) \in Suspensions /\ at' = Head(suspended).at
      BY <2>2 DEF Finish, TypeInv, TypeOK
    <3> QED
      BY <3>1 DEF Suspensions, Reading
  <2> QED
    BY <2>1, <2>2
<1>10. ASSUME NEW o \in Objects, o \in accepting, Dispatch(o),
              \A p \in Objects : p # o => connection'[p] = connection[p]
       PROVE  ServedInv'
  <2>1. at # "idle" => current \in Objects
    BY FcgiAssumption DEF TypeInv, TypeOK, HandlerInv, Objects
  <2>2. UNCHANGED handler /\ at # "idle" => Client' = Client
    BY <2>1, <1>10 DEF OnePlace, AcceptingApart, Client
  <2>3. UNCHANGED handler \/ at' = "load"
    BY <1>10 DEF Dispatch
  <2> QED
    BY <2>2, <2>3, <1>1
<1>11. ASSUME NEW o \in Objects, AcceptFails(o) PROVE ServedInv'
  BY <1>11, <1>10 DEF AcceptFails
<1>12. ASSUME NEW o \in Objects, NEW c \in backlog, Accept(o, c) PROVE ServedInv'
  <2>1. \A p \in Objects : p # o => connection'[p] = connection[p]
    BY <1>12 DEF Accept, TypeInv, TypeOK
  <2> QED
    BY <1>12, <2>1, <1>10 DEF Accept
<1> HIDE DEF Serving
<1> QED
  BY <1>1, <1>2, <1>3, <1>4, <1>6, <1>7, <1>8, <1>9, <1>11, <1>12, NextIsStep DEF Step

-----------------------------------------------------------------------------
(* Theorems.                                                               *)

IInv == /\ TypeInv /\ OnePlace /\ SomePlace /\ TwoAccepts
        /\ created <= 2 /\ AnswerInv /\ ServedInv

LEMMA InitInvariant == Init => IInv
<1> SUFFICES ASSUME Init PROVE IInv
  OBVIOUS
<1>1. /\ strand = <<>> /\ waiting = <<>> /\ accepting = {} /\ running = {}
      /\ created = 0 /\ current = 0 /\ life = "down" /\ suspended = <<>>
  BY DEF Init
<1>2. OnePlace
  BY <1>1 DEF OnePlace, Bounded, AcceptingApart, StrandApart, WaitingApart, SuspendedApart
<1>3. SomePlace /\ TwoAccepts /\ created <= 2
  BY <1>1 DEF SomePlace, TwoAccepts
<1>4. ServedInv
  BY DEF Init, ServedInv
<1> QED
  BY <1>2, <1>3, <1>4, TypeInit, AnswerInit DEF IInv

LEMMA StepInvariant == IInv /\ [Next]_vars => IInv'
BY TypeStep, OnePlaceStep, SomePlaceStep, TwoAcceptsStep, CreatedStep, OpenStep, KnownStep,
   RefuseStep, AnswerStep, ServedStep DEF IInv, AnswerInv

LEMMA Invariant == Safe => []IInv
BY InitInvariant, StepInvariant, PTL DEF Safe

\* Every variable keeps its type: queues of objects, and no more of them than exist.
THEOREM TypeCorrect == Safe => []TypeOK
<1>1. IInv => TypeOK
  BY DEF IInv, TypeInv
<1> QED
  BY <1>1, Invariant, PTL

\* Whatever is refused, hung up on or killed, a listener that runs has its two accepts:
\* no path through handle_request and handle_accept loses one or makes a third.
THEOREM AcceptsKept == Safe => []TwoAccepts
<1>1. IInv => TwoAccepts
  BY DEF IInv
<1> QED
  BY <1>1, Invariant, PTL

\* do_accept gives out no object that is still in use, and a run never makes a third.
THEOREM ObjectsReused == Safe => []ObjectsAreReused
<1>1. IInv => ObjectsAreReused
  BY DEF IInv, OnePlace, WaitingApart, ObjectsAreReused
<1> QED
  BY <1>1, Invariant, PTL

\* The answer is committed before the callbacks: an update whose callbacks were called
\* n times has n - 1 answers that never arrived.
THEOREM RepeatOnlyUnheard == Safe => []RepeatedOnlyIfUnheard
<1>1. IInv => RepeatedOnlyIfUnheard
  <2> SUFFICES ASSUME IInv, NEW r \in Updates, executed[r] > 1
               PROVE  unheard[r] >= executed[r] - 1
    BY DEF RepeatedOnlyIfUnheard
  <2>1. r \in Requests
    BY DEF Requests
  <2>2. executed[r] \in Nat /\ unheard[r] \in Nat
    BY <2>1 DEF IInv, TypeInv, TypeOK
  <2>3. executed[r] + One(InHand(r)) <= unheard[r] + One(r \in finished)
    BY <2>1 DEF IInv, AnswerInv, Answered, RepeatInv
  <2> QED
    BY <2>2, <2>3 DEF One
<1> QED
  BY <1>1, Invariant, PTL

\* No update that Telegram has its answer to is left without its callbacks, but for one
\* in hand when the process ends.
THEOREM AnsweredExecuted == Safe => []AnsweredIsExecuted
<1>1. IInv => AnsweredIsExecuted
  BY DEF IInv, AnswerInv, Answered
<1> QED
  BY <1>1, Invariant, PTL
-----------------------------------------------------------------------------
(* The listener is an UpdatePush.                                          *)

LEMMA PushInit == Init => Push!Init
BY FcgiAssumption DEF Init, Push!Init, Requests

\* What the steps that neither answer nor execute do to the view of UpdatePush.
LEMMA UnansweredIsQuiet == Unanswered => Push!Start \/ UNCHANGED Push!vars
<1> SUFFICES ASSUME Unanswered PROVE Push!Start \/ UNCHANGED Push!vars
  OBVIOUS
<1>1. UNCHANGED <<finished, executed, unheard>>
  BY DEF Unanswered
<1>2. (IF at \in {"raw", "execute"} THEN {Client.request} ELSE {})'
        = IF at \in {"raw", "execute"} THEN {Client.request} ELSE {}
  BY DEF Unanswered, InHand
<1> QED
  BY <1>1, <1>2 DEF Unanswered, Push!Start, Push!vars

LEMMA PushStep == IInv /\ [Next]_vars => [Push!Next]_Push!vars
<1> SUFFICES ASSUME IInv, [Next]_vars PROVE [Push!Next]_Push!vars
  OBVIOUS
<1>a. TypeInv /\ OnePlace /\ AnswerInv /\ ServedInv
  BY DEF IInv
<1>b. /\ executed \in [Requests -> Nat] /\ unheard \in [Requests -> Nat]
      /\ Updates \subseteq Requests
  BY <1>a DEF TypeInv, TypeOK, Requests
<1>c. at # "idle" => life = "running"
  BY <1>a DEF TypeInv, DownInv
<1>1. CASE Unanswered
  BY <1>1, UnansweredIsQuiet DEF Push!Next
<1>2. CASE CommitArrives /\ at = "commit"
  <2>1. PICK u \in Updates : u = Client.request /\ u \notin finished
    BY <1>2, <1>a DEF ServedInv, CommitArrives, AnswerInv, OpenInv
  <2>2. /\ at' = "raw" /\ Client' = Client /\ finished' = finished \cup {u}
        /\ UNCHANGED <<life, executed, unheard>>
    BY <2>1, <1>2 DEF CommitArrives, After, Client
  <2>3. Push!AnswerHeard(u)
    BY <2>1, <2>2, <1>2, <1>c DEF Push!AnswerHeard
  <2> QED
    BY <2>1, <2>3 DEF Push!Next
<1>3. CASE CommitArrives /\ at = "refuse"
  <2>1. Client.request \notin Updates
    BY <1>3, <1>a DEF CommitArrives, AnswerInv, RefuseInv, Refused
  <2>2. /\ at' = "reaccept" /\ finished' \cap Updates = finished \cap Updates
        /\ UNCHANGED <<life, executed, unheard>>
    BY <1>3, <2>1 DEF CommitArrives, After
  <2> QED
    BY <2>2, <1>3 DEF Push!vars
<1>4. CASE CommitUnheard /\ at = "commit"
  <2>1. PICK u \in Updates : u = Client.request
    BY <1>4, <1>a DEF ServedInv
  <2>2. /\ at' = "raw" /\ Client' = Client /\ unheard' = [unheard EXCEPT ![u] = @ + 1]
        /\ UNCHANGED <<life, executed, finished>>
    BY <2>1, <1>4 DEF CommitUnheard, After, Client
  <2>3. [v \in Updates |-> unheard'[v]]
          = [[v \in Updates |-> unheard[v]] EXCEPT ![u] = @ + 1]
    BY <2>1, <2>2, <1>b
  <2>4. Push!AnswerUnheard(u)
    BY <2>1, <2>2, <2>3, <1>4, <1>c DEF Push!AnswerUnheard
  <2> QED
    BY <2>1, <2>4 DEF Push!Next
\* With or without the end of the process.
<1>5. ASSUME at = "execute", Executed, at' \notin {"raw", "execute"},
             UNCHANGED <<finished, unheard>>
      PROVE  Push!Next
  <2>1. PICK u \in Updates : u = Client.request
    BY <1>5, <1>a DEF ServedInv
  <2>2. executed' = [executed EXCEPT ![u] = @ + 1]
    BY <2>1, <1>5 DEF Executed
  <2>3. [v \in Updates |-> executed'[v]]
          = [[v \in Updates |-> executed[v]] EXCEPT ![u] = @ + 1]
    BY <2>1, <2>2, <1>b
  <2>4. (life' = "running") \in BOOLEAN
    BY Zenon
  <2>5. Push!Execute(u)
    BY <2>1, <2>3, <2>4, <1>5 DEF Push!Execute
  <2> QED
    BY <2>1, <2>5 DEF Push!Next
<1>6. ExecuteCallbacks => Push!Next
  BY <1>5 DEF ExecuteCallbacks, After
<1>7. CallbackThrows => Push!Next
  BY <1>5 DEF CallbackThrows, Throw, End
<1>8. ASSUME NEW how \in {"down", "returned", "terminated"}, End(how), life = "running",
             UNCHANGED <<executed, unheard>>
      PROVE  Push!Next
  <2>1. at' = "idle" /\ life' # "running" /\ finished' = finished
    BY <1>8 DEF End
  <2> QED
    BY <2>1, <1>8 DEF Push!Next, Push!End
<1>9. Kill \/ CommitFails \/ CallbackRawThrows => Push!Next
  BY <1>8, <1>c DEF Kill, CommitFails, CallbackRawThrows, Throw
<1>10. CommitArrives => at \in {"commit", "refuse"}
  BY DEF CommitArrives
<1> QED
  BY <1>1, <1>2, <1>3, <1>4, <1>6, <1>7, <1>9, <1>10, <1>a, AnswerCases DEF Answers

\* Seen by Telegram and from the callbacks, the listener is an UpdatePush, whatever its
\* threads, its connections and the failures of either do: it answers no update while it
\* owes one its callbacks, pays each answer with one call, answers none that was heard.
THEOREM ListenerImplementsPush == Safe => ImplementsPush
<1>1. Init => Push!Init
  BY PushInit
<1>2. IInv /\ [Next]_vars => [Push!Next]_Push!vars
  BY PushStep
<1> QED
  BY <1>1, <1>2, Invariant, PTL DEF Safe, ImplementsPush, Push!Spec
=============================================================================
