--------------------------- MODULE CallbacksProofs --------------------------
(***************************************************************************)
(* One dispatch: where the offer stands bounds who was called and says who  *)
(* must have been, whichever slots the program changes meanwhile.           *)
(***************************************************************************)
EXTENDS Callbacks, TLAPS

USE DEF vars

LEMMA OrderFacts ==
  /\ Len(Order) = 9
  /\ DOMAIN Order = 1..9
  /\ \A i \in 1..9 : Order[i] \in Slots
BY DEF Order, Slots

Offering == phase \in {"call", "inside"} => at <= Len(Order)

TypeInv == TypeOK /\ Offering

LEMMA TypeInit == Init => TypeInv
<1> SUFFICES ASSUME Init PROVE TypeOK /\ phase = "idle"
  BY DEF TypeInv, Offering
<1>1. at \in 1..Len(Order) + 1
  BY OrderFacts DEF Init
<1>2. calls \in Seq(Slots)
  BY DEF Init
<1> QED
  BY <1>1, <1>2 DEF Init, TypeOK

LEMMA TypeStep == TypeInv /\ [Next]_vars => TypeInv'
<1> SUFFICES ASSUME TypeInv, [Next]_vars PROVE TypeInv'
  OBVIOUS
<1> USE OrderFacts DEF TypeInv, TypeOK, Offering
<1>1. CASE Begin
  BY <1>1 DEF Begin
<1>2. CASE Look
  <2>1. /\ phase' \in {"call", "look"} /\ raced' = FALSE
        /\ at <= 9 /\ at' \in {at, at + 1} /\ (phase' = "call" => at' = at)
        /\ UNCHANGED <<set, update, calls, steady>>
    BY <1>2 DEF Look, Advance
  <2>2. at' \in 1..Len(Order) + 1 /\ (phase' = "call" => at' <= Len(Order))
    BY <2>1
  <2>3. /\ phase' \in {"idle", "look", "call", "inside", "dead"}
        /\ phase' # "inside"
        /\ raced' \in BOOLEAN
    BY <2>1
  <2>4. /\ set' \subseteq Slots /\ update' \in Updates
        /\ calls' \in Seq(Slots) /\ steady' \subseteq Slots
    BY <2>1
  <2> QED
    BY <2>2, <2>3, <2>4
<1>3. CASE Call
  <2>1. Order[at] \in Slots
    BY <1>3 DEF Call
  <2>2. calls' \in Seq(Slots)
    BY <1>3, <2>1 DEF Call
  <2> QED
    BY <1>3, <2>2 DEF Call
<1>4. CASE CallFindsNothing
  BY <1>4 DEF CallFindsNothing, Advance
<1>5. CASE Return
  BY <1>5 DEF Return, Advance
<1>6. CASE Escape \/ Dies \/ End
  BY <1>6 DEF Escape, Dies, End
<1>7. ASSUME NEW s \in Changing, Set(s) \/ Unset(s) PROVE TypeInv'
  <2>1. s \in Slots
    BY CallbacksAssumption
  <2>2. raced' \in BOOLEAN
    BY <1>7 DEF Set, Unset, Assigned
  <2> QED
    BY <1>7, <2>1, <2>2 DEF Set, Unset
<1>8. CASE UNCHANGED vars
  BY <1>8
<1> QED
  BY <1>1, <1>2, <1>3, <1>4, <1>5, <1>6, <1>7, <1>8 DEF Next, Dispatch

\* Every variable has its type in every reachable state.
THEOREM TypeCorrect == Spec => []TypeOK
<1>1. TypeInv => TypeOK
  BY DEF TypeInv
<1> QED
  BY <1>1, TypeInit, TypeStep, PTL DEF Spec

-----------------------------------------------------------------------------
(* The order of the calls.                                                 *)

\* Slots up to this one may have been called.
Reached == IF phase \in {"look", "call"} THEN at - 1 ELSE at

CalledBefore == \A i \in DOMAIN calls : \E m \in DOMAIN Order :
                   m <= Reached /\ Order[m] = calls[i]

OrderInv == CalledBefore /\ CallsFollowOrder

LEMMA OrderInit == Init => OrderInv
BY OrderFacts DEF Init, OrderInv, CalledBefore, CallsFollowOrder

\* Calls that stay as they are stay in order, and the offer goes forward only.
LEMMA OrderKept ==
  ASSUME TypeInv, TypeInv', OrderInv, UNCHANGED calls, Reached <= Reached'
  PROVE  OrderInv'
<1>1. Reached \in Int /\ Reached' \in Int
  BY DEF TypeInv, TypeOK, Reached
<1>2. ASSUME NEW i \in DOMAIN calls
      PROVE  \E m \in DOMAIN Order : m <= Reached' /\ Order[m] = calls[i]
  <2>1. PICK m \in DOMAIN Order : m <= Reached /\ Order[m] = calls[i]
    BY DEF OrderInv, CalledBefore
  <2>2. m <= Reached'
    BY <1>1, <2>1, OrderFacts
  <2> QED
    BY <2>1, <2>2
<1> QED
  BY <1>2 DEF OrderInv, CalledBefore, CallsFollowOrder

LEMMA OrderCall == TypeInv /\ OrderInv /\ Call => OrderInv'
<1> SUFFICES ASSUME TypeInv, OrderInv, Call PROVE OrderInv'
  OBVIOUS
<1>1. /\ at \in DOMAIN Order /\ at \in Int
      /\ Reached = at - 1 /\ Reached' = at
      /\ calls \in Seq(Slots) /\ calls' = Append(calls, Order[at])
  BY OrderFacts DEF TypeInv, TypeOK, Offering, Call, Reached
<1>2. /\ DOMAIN calls' = 1..(Len(calls) + 1) /\ DOMAIN calls = 1..Len(calls)
      /\ Len(calls) \in Nat
      /\ calls'[Len(calls) + 1] = Order[at]
      /\ \A i \in 1..Len(calls) : calls'[i] = calls[i]
  BY <1>1
<1>3. ASSUME NEW i \in DOMAIN calls
      PROVE  \E m \in DOMAIN Order : m < at /\ Order[m] = calls'[i]
  <2>1. PICK m \in DOMAIN Order : m <= Reached /\ Order[m] = calls[i]
    BY DEF OrderInv, CalledBefore
  <2>2. m < at
    BY <1>1, <2>1, OrderFacts
  <2> QED
    BY <1>2, <2>1, <2>2
<1>4. CalledBefore'
  <2> SUFFICES ASSUME NEW i \in DOMAIN calls'
               PROVE  \E m \in DOMAIN Order : m <= at /\ Order[m] = calls'[i]
    BY <1>1 DEF CalledBefore
  <2>1. CASE i \in DOMAIN calls
    <3>1. PICK m \in DOMAIN Order : m < at /\ Order[m] = calls'[i]
      BY <1>3, <2>1
    <3> QED
      BY <1>1, <3>1, OrderFacts
  <2>2. CASE i = Len(calls) + 1
    BY <1>1, <1>2, <2>2
  <2> QED
    BY <1>2, <2>1, <2>2
<1>5. CallsFollowOrder'
  <2> SUFFICES ASSUME NEW i \in DOMAIN calls', NEW j \in DOMAIN calls', i < j
               PROVE  \E m, n \in DOMAIN Order :
                        m < n /\ Order[m] = calls'[i] /\ Order[n] = calls'[j]
    BY DEF CallsFollowOrder
  <2>1. i \in DOMAIN calls
    BY <1>2
  <2>2. CASE j \in DOMAIN calls
    BY <1>2, <2>1, <2>2 DEF OrderInv, CallsFollowOrder
  <2>3. CASE j = Len(calls) + 1
    <3>1. PICK m \in DOMAIN Order : m < at /\ Order[m] = calls'[i]
      BY <1>3, <2>1
    <3> QED
      BY <1>1, <1>2, <2>3, <3>1
  <2> QED
    BY <1>2, <2>2, <2>3
<1> QED
  BY <1>4, <1>5 DEF OrderInv

LEMMA OrderStep == TypeInv /\ OrderInv /\ [Next]_vars => OrderInv'
<1> SUFFICES ASSUME TypeInv, OrderInv, [Next]_vars PROVE OrderInv'
  OBVIOUS
<1>1. TypeInv'
  BY TypeStep
<1>2. at \in Int /\ phase \in {"idle", "look", "call", "inside", "dead"}
  BY DEF TypeInv, TypeOK
<1>3. CASE Begin
  BY <1>3 DEF Begin, OrderInv, CalledBefore, CallsFollowOrder
<1>4. CASE Call
  BY <1>4, OrderCall
<1>5. CASE Look \/ CallFindsNothing \/ Return \/ Escape \/ Dies \/ End
  <2>1. UNCHANGED calls /\ Reached <= Reached'
    BY <1>2, <1>5 DEF Look, CallFindsNothing, Return, Escape, Dies, End, Advance, Reached
  <2> QED
    BY <1>1, <2>1, OrderKept
<1>6. ASSUME NEW s \in Changing, Set(s) \/ Unset(s) PROVE OrderInv'
  <2>1. UNCHANGED calls /\ Reached <= Reached'
    BY <1>2, <1>6 DEF Set, Unset, Reached
  <2> QED
    BY <1>1, <2>1, OrderKept
<1>7. CASE UNCHANGED vars
  <2>1. UNCHANGED calls /\ Reached <= Reached'
    BY <1>2, <1>7 DEF Reached
  <2> QED
    BY <1>1, <2>1, OrderKept
<1> QED
  BY <1>3, <1>4, <1>5, <1>6, <1>7 DEF Next, Dispatch

\* No slot gets an update twice, and each gets it after those before it in Order.
THEOREM InOrder == Spec => []CallsFollowOrder
<1>1. OrderInv => CallsFollowOrder
  BY DEF OrderInv
<1> QED
  BY <1>1, TypeInit, TypeStep, OrderInit, OrderStep, PTL DEF Spec

-----------------------------------------------------------------------------
(* Nobody is passed over.                                                  *)

Wants(s) == Holds(update, Part[s]) /\ (s \in Native => update.wellformed)

Told(s) == \E i \in DOMAIN calls : calls[i] = s

\* Who is set all along is set now, and was told if the offer is past it or has
\* entered it.
ToldInv ==
  /\ phase \in {"look", "call", "inside"} => steady \subseteq set
  /\ phase \in {"look", "call", "inside"} =>
       \A m \in DOMAIN Order :
         m < at /\ Order[m] \in steady /\ Wants(Order[m]) => Told(Order[m])
  /\ phase = "inside" => Told(Order[at])

LEMMA ToldInit == Init => ToldInv
BY DEF Init, ToldInv

LEMMA ToldStep == TypeInv /\ ToldInv /\ [Next]_vars => ToldInv'
<1> SUFFICES ASSUME TypeInv, ToldInv, [Next]_vars PROVE ToldInv'
  OBVIOUS
<1>1. at \in Int /\ at >= 1 /\ phase \in {"idle", "look", "call", "inside", "dead"}
  BY DEF TypeInv, TypeOK
<1>2. CASE Begin
  BY <1>2, OrderFacts DEF Begin, ToldInv
<1>3. CASE Look
  <2>1. /\ steady' = steady /\ set' = set /\ update' = update /\ calls' = calls
        /\ phase = "look" /\ phase' \in {"look", "call"}
        /\ \/ at' = at
           \/ at' = at + 1 /\ ~Wanted(Order[at])
    BY <1>3 DEF Look, Advance
  <2>2. ~Wanted(Order[at]) => Order[at] \notin steady \/ ~Wants(Order[at])
    BY <2>1 DEF ToldInv, Wanted, Wants
  <2>3. ASSUME NEW m \in DOMAIN Order, m < at', Order[m] \in steady, Wants(Order[m])
        PROVE  Told(Order[m])
    BY <1>1, <2>1, <2>2, <2>3, OrderFacts DEF ToldInv
  <2> QED
    BY <2>1, <2>3 DEF ToldInv, Wants, Told
<1>4. CASE Call
  <2>1. /\ at' = at /\ steady' = steady /\ set' = set /\ update' = update
        /\ phase = "call" /\ phase' = "inside"
        /\ calls' = Append(calls, Order[at]) /\ calls \in Seq(Slots)
    BY <1>4 DEF Call, TypeInv, TypeOK
  <2>2. Told(Order[at])'
    <3>1. /\ Len(calls) + 1 \in DOMAIN calls'
          /\ calls'[Len(calls) + 1] = Order[at]
      BY <2>1
    <3> QED
      BY <2>1, <3>1 DEF Told
  <2>3. ASSUME NEW s, Told(s) PROVE \E i \in DOMAIN calls' : calls'[i] = s
    <3>1. PICK i \in DOMAIN calls : calls[i] = s
      BY <2>3 DEF Told
    <3>2. i \in DOMAIN calls' /\ calls'[i] = calls[i]
      BY <2>1
    <3> QED
      BY <3>1, <3>2
  <2>4. ASSUME NEW m \in DOMAIN Order, m < at, Order[m] \in steady, Wants(Order[m])
        PROVE  \E i \in DOMAIN calls' : calls'[i] = Order[m]
    BY <2>1, <2>3, <2>4 DEF ToldInv
  <2>5. \A m \in DOMAIN Order :
          m < at' /\ Order[m] \in steady' /\ Wants(Order[m])' => Told(Order[m])'
    BY <2>1, <2>4 DEF Wants, Told
  <2> QED
    BY <2>1, <2>2, <2>5 DEF ToldInv
<1>5. CASE CallFindsNothing
  <2>1. /\ at' = at + 1 /\ steady' = steady /\ set' = set /\ update' = update
        /\ calls' = calls /\ phase = "call" /\ phase' = "look" /\ Order[at] \notin set
    BY <1>5 DEF CallFindsNothing, Advance
  <2>2. ASSUME NEW m \in DOMAIN Order, m < at', Order[m] \in steady, Wants(Order[m])
        PROVE  Told(Order[m])
    BY <1>1, <2>1, <2>2, OrderFacts DEF ToldInv
  <2> QED
    BY <2>1, <2>2 DEF ToldInv, Wants, Told
<1>6. CASE Return
  <2>1. /\ at' = at + 1 /\ steady' = steady /\ set' = set /\ update' = update
        /\ calls' = calls /\ phase = "inside" /\ phase' = "look"
    BY <1>6 DEF Return, Advance
  <2>2. ASSUME NEW m \in DOMAIN Order, m < at', Order[m] \in steady, Wants(Order[m])
        PROVE  Told(Order[m])
    BY <1>1, <2>1, <2>2, OrderFacts DEF ToldInv
  <2> QED
    BY <2>1, <2>2 DEF ToldInv, Wants, Told
<1>7. CASE Escape \/ Dies \/ End
  BY <1>7 DEF Escape, Dies, End, ToldInv
<1>8. ASSUME NEW s \in Changing, Set(s) \/ Unset(s) PROVE ToldInv'
  <2>1. /\ at' = at /\ update' = update /\ calls' = calls /\ phase' = phase
        /\ \/ set' = set \cup {s} /\ steady' = steady
           \/ set' = set \ {s} /\ steady' = steady \ {s}
    BY <1>8 DEF Set, Unset
  <2> QED
    BY <2>1 DEF ToldInv, Wants, Told
<1>9. CASE UNCHANGED vars
  BY <1>9 DEF ToldInv, Wants, Told
<1> QED
  BY <1>2, <1>3, <1>4, <1>5, <1>6, <1>7, <1>8, <1>9 DEF Next, Dispatch

\* A slot that is set all along and wants the update has been called with it when
\* execute_callbacks returns.
THEOREM NobodyPassedOver == Spec => []EveryoneIsTold
<1>1. TypeInv /\ ToldInv => EveryoneIsTold
  <2> SUFFICES ASSUME TypeInv, ToldInv, phase = "look", at > Len(Order),
                      NEW s \in steady, Wants(s)
               PROVE  Told(s)
    BY DEF EveryoneIsTold, Wants, Told
  <2>1. PICK m \in DOMAIN Order : Order[m] = s
    BY DEF TypeInv, TypeOK, Slots
  <2>2. m < at
    BY <2>1, OrderFacts DEF TypeInv, TypeOK
  <2> QED
    BY <2>1, <2>2 DEF ToldInv
<1> QED
  BY <1>1, TypeInit, TypeStep, ToldInit, ToldStep, PTL DEF Spec

-----------------------------------------------------------------------------
(* Slots that were emptied.                                                *)

\* What is about to be called is there, unless it was assigned since it was looked at.
FoundInv == phase = "call" => Order[at] \in set \/ raced

LEMMA FoundStep == FoundInv /\ [Next]_vars => FoundInv'
<1> SUFFICES ASSUME FoundInv, [Next]_vars PROVE FoundInv'
  OBVIOUS
<1>1. CASE Begin \/ Dispatch \/ Escape \/ Dies
  BY <1>1 DEF Begin, Dispatch, Look, Call, CallFindsNothing, Return, End, Escape, Dies,
              Advance, Wanted, FoundInv
<1>2. ASSUME NEW s \in Changing, Set(s) \/ Unset(s) PROVE FoundInv'
  BY <1>2 DEF Set, Unset, Assigned, FoundInv
<1>3. CASE UNCHANGED vars
  BY <1>3 DEF FoundInv
<1> QED
  BY <1>1, <1>2, <1>3 DEF Next

\* A callback whose unset_ has returned is not entered, unless it was unset by another
\* thread between the look at its slot and the call.
THEOREM UnsetHonoured == Spec => UnsetIsHonoured
<1>1. Init => FoundInv
  BY DEF Init, FoundInv
<1>2. FoundInv /\ [Next]_vars =>
        [phase' = "inside" /\ phase # "inside" => Order[at] \in set \/ raced]_vars
  BY DEF FoundInv, Next, Begin, Dispatch, Look, Call, CallFindsNothing, Return, End,
         Escape, Dies, Advance, Set, Unset
<1> QED
  BY <1>1, <1>2, FoundStep, PTL DEF Spec, UnsetIsHonoured
=============================================================================
