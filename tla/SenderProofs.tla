---------------------------- MODULE SenderProofs ----------------------------
(***************************************************************************)
(* What was carried out of a call always reaches to the end of the last      *)
(* piece the server has seen to; everything else about the calls follows.   *)
(***************************************************************************)
EXTENDS Sender, TLAPS

USE DEF vars

\* What c does.
Step(c) == Begin(c) \/ Sends(c) \/ Delivers(c) \/ Refuses(c)

\* An operation comes back with a value, with nothing or with an exception.
LEMMA OutcomesAre ==
  ASSUME NEW wrapper PROVE Outcomes(wrapper) \subseteq {"value", "nothing", "exception"}
BY DEF Outcomes

LEMMA EndIsNat ==
  ASSUME NEW r \in Requests, NEW start \in Nat
  PROVE  PieceEnd(r, start) \in Nat
<1>1. r.size \in Nat /\ Limit \in Nat
  BY SenderAssumption
<1> QED
  BY <1>1 DEF PieceEnd

LEMMA TypeFromInit == Init => TypeOK
BY DEF Init, TypeOK, Phases

LEMMA TypeStep == TypeOK /\ [Next]_vars => TypeOK'
<1> SUFFICES ASSUME TypeOK, [Next]_vars PROVE TypeOK'
  OBVIOUS
<1> USE DEF TypeOK, Phases
<1>1. CASE UNCHANGED vars
  BY <1>1
<1>2. ASSUME NEW c \in Calls, Begin(c) PROVE TypeOK'
  BY <1>2 DEF Begin, Goto, ReturnWith
<1>3. ASSUME NEW c \in Calls, Split(c) PROVE TypeOK'
  <2>1. PieceEnd(asked[c], from[c]) \in Nat
    BY EndIsNat
  <2> QED
    BY <1>3, <2>1 DEF Split, Goto
<1>4. ASSUME NEW c \in Calls, Serialise(c) PROVE TypeOK'
  BY <1>4 DEF Serialise, Goto, ReturnWith
<1>5. ASSUME NEW c \in Calls, Post(c) PROVE TypeOK'
  BY <1>5 DEF Post, Goto
<1>6. ASSUME NEW c \in Calls, Delivers(c) PROVE TypeOK'
  BY <1>6 DEF Delivers
<1>7. ASSUME NEW c \in Calls, Refuses(c) PROVE TypeOK'
  BY <1>7 DEF Refuses
<1>8. ASSUME NEW c \in Calls,
             NoConnection(c) \/ NoAnswer(c) \/ Refused(c) \/ AnswerNoObject(c)
      PROVE  TypeOK'
  BY <1>8 DEF NoConnection, NoAnswer, Refused, AnswerNoObject, Goto, ReturnWith
<1>9. ASSUME NEW c \in Calls, Answer(c) PROVE TypeOK'
  <2>1. PICK r \in {"value", "nothing", "exception"} :
          /\ result' = [result EXCEPT ![c] = r]
          /\ Goto(c, IF r = "exception" THEN "returned" ELSE "answered")
    BY <1>9, OutcomesAre DEF Answer
  <2> QED
    BY <1>9, <2>1 DEF Answer, Goto
<1>10. ASSUME NEW c \in Calls, NextPiece(c) PROVE TypeOK'
  BY <1>10 DEF NextPiece, Goto
<1>11. ASSUME NEW c \in Calls, Return(c) PROVE TypeOK'
  BY <1>11 DEF Return, Goto
<1> QED
  BY <1>1, <1>2, <1>3, <1>4, <1>5, <1>6, <1>7, <1>8, <1>9, <1>10, <1>11
  DEF Next, Sends

\* Every variable has its type in every reachable state.
THEOREM TypeCorrect == Safe => []TypeOK
BY TypeFromInit, TypeStep, PTL DEF Safe

-----------------------------------------------------------------------------

\* How far what was asked has been carried out.
Covered(c) == IF request[c] = "delivered" THEN to[c] ELSE from[c]

ChatInv(c) == /\ Contiguous(chat[c])
              /\ IF chat[c] = <<>> THEN Covered(c) = 0
                                   ELSE chat[c][Len(chat[c])].to = Covered(c)

PhaseInv(c) ==
  /\ phase[c] \in {"idle", "split", "serialise", "post"} => request[c] = "none"
  /\ phase[c] = "answered" => request[c] = "delivered" /\ chat[c] # <<>>
  /\ request[c] = "delivered" => chat[c] # <<>>
  /\ phase[c] = "returned" /\ result[c] # "exception" /\ ~Empty(asked[c])
       => request[c] = "delivered" /\ to[c] = asked[c].size

CallInv(c) == ChatInv(c) /\ PhaseInv(c)

SendInv == \A c \in Calls : CallInv(c)

LEMMA ContiguousAppend ==
  ASSUME NEW s \in Seq([from : Nat, to : Nat]), NEW x \in Nat, NEW y \in Nat,
         Contiguous(s),
         x = IF s = <<>> THEN 0 ELSE s[Len(s)].to
  PROVE  LET t == Append(s, [from |-> x, to |-> y])
         IN  Contiguous(t) /\ t # <<>> /\ t[Len(t)].to = y
<1> DEFINE piece == [from |-> x, to |-> y]
           t == Append(s, piece)
<1>1. /\ Len(t) = Len(s) + 1
      /\ DOMAIN t = 1..(Len(s) + 1)
      /\ DOMAIN s = 1..Len(s)
      /\ t[Len(s) + 1] = piece
      /\ \A i \in 1..Len(s) : t[i] = s[i]
  OBVIOUS
<1>2. ASSUME NEW i \in DOMAIN t
      PROVE  t[i].from = IF i = 1 THEN 0 ELSE t[i - 1].to
  <2>1. CASE i \in 1..Len(s)
    <3>1. t[i] = s[i] /\ (i # 1 => i - 1 \in 1..Len(s) /\ t[i - 1] = s[i - 1])
      BY <1>1, <2>1
    <3> QED
      BY <1>1, <2>1, <3>1 DEF Contiguous
  <2>2. CASE i = Len(s) + 1
    <3>1. CASE s = <<>>
      BY <1>1, <2>2, <3>1
    <3>2. CASE s # <<>>
      <4>1. Len(s) \in 1..Len(s) /\ i - 1 = Len(s) /\ i # 1
        BY <2>2, <3>2
      <4> QED
        BY <1>1, <2>2, <3>2, <4>1
    <3> QED
      BY <3>1, <3>2
  <2> QED
    BY <1>1, <1>2, <2>1, <2>2
<1>3. Contiguous(t)
  BY <1>2 DEF Contiguous
<1>4. t # <<>> /\ t[Len(t)].to = y
  BY <1>1
<1> QED
  BY <1>3, <1>4

LEMMA SendInvInit == Init => SendInv
<1> SUFFICES ASSUME Init, NEW c \in Calls PROVE ChatInv(c) /\ PhaseInv(c)
  BY DEF SendInv, CallInv
<1>1. /\ phase[c] = "idle" /\ request[c] = "none"
      /\ chat[c] = <<>> /\ from[c] = 0
  BY DEF Init
<1>2. Contiguous(<<>>)
  BY DEF Contiguous
<1> QED
  BY <1>1, <1>2 DEF ChatInv, PhaseInv, Covered

\* What d has done is not changed by what leaves its variables alone.
Same(d) == /\ phase'[d] = phase[d] /\ asked'[d] = asked[d] /\ from'[d] = from[d]
           /\ to'[d] = to[d] /\ request'[d] = request[d] /\ result'[d] = result[d]
           /\ chat'[d] = chat[d]

LEMMA SameKeeps == ASSUME NEW d, CallInv(d), Same(d) PROVE CallInv(d)'
<1>1. ChatInv(d)'
  BY DEF CallInv, ChatInv, Covered, Contiguous, Same
<1>2. PhaseInv(d)'
  BY DEF CallInv, PhaseInv, Empty, Same
<1> QED
  BY <1>1, <1>2 DEF CallInv

LEMMA OthersAreSame == TypeOK => \A c, d \in Calls : d # c /\ Step(c) => Same(d)
<1> SUFFICES ASSUME TypeOK, NEW c \in Calls, NEW d \in Calls, d # c, Step(c) PROVE Same(d)
  OBVIOUS
<1> USE DEF Same, TypeOK
<1>1. CASE Begin(c)
  BY <1>1 DEF Begin, Goto, ReturnWith
<1>2. CASE Split(c) \/ Serialise(c) \/ Post(c)
  BY <1>2 DEF Split, Serialise, Post, Goto, ReturnWith
<1>3. CASE NoConnection(c) \/ NoAnswer(c) \/ Refused(c) \/ AnswerNoObject(c)
  BY <1>3 DEF NoConnection, NoAnswer, Refused, AnswerNoObject, Goto, ReturnWith
<1>4. CASE Answer(c)
  BY <1>4 DEF Answer, Goto
<1>5. CASE NextPiece(c) \/ Return(c)
  BY <1>5 DEF NextPiece, Return, Goto
<1>6. CASE Delivers(c) \/ Refuses(c)
  BY <1>6 DEF Delivers, Refuses
<1> QED
  BY <1>1, <1>2, <1>3, <1>4, <1>5, <1>6 DEF Step, Sends

LEMMA OwnStep ==
  ASSUME TypeOK, NEW c \in Calls, CallInv(c), Step(c) PROVE CallInv(c)'
<1> USE DEF TypeOK
<1>1. CASE Begin(c)
  <2>1. chat'[c] = chat[c] /\ Covered(c)' = Covered(c)
    BY <1>1 DEF Begin, Covered
  <2>2. ChatInv(c)'
    BY <2>1 DEF CallInv, ChatInv, Contiguous
  <2>3. PhaseInv(c)'
    BY <1>1 DEF CallInv, PhaseInv, Begin, Goto, ReturnWith, Empty
  <2> QED
    BY <2>2, <2>3 DEF CallInv
<1>2. CASE Split(c) \/ Serialise(c) \/ Post(c) \/ NoConnection(c)
  <2>1. /\ request[c] = "none" /\ request'[c] \in {"none", "sent"}
        /\ from'[c] = from[c] /\ chat'[c] = chat[c]
    BY <1>2 DEF CallInv, PhaseInv, Split, Serialise, Post, NoConnection
  <2>2. ChatInv(c)'
    BY <2>1 DEF CallInv, ChatInv, Covered, Contiguous
  <2>3. CASE Split(c)
    BY <2>3, <2>1, <2>2 DEF CallInv, PhaseInv, Split, Goto
  <2>4. CASE Serialise(c)
    BY <2>4, <2>1, <2>2 DEF CallInv, PhaseInv, Serialise, Goto, ReturnWith
  <2>5. CASE Post(c)
    BY <2>5, <2>1, <2>2 DEF CallInv, PhaseInv, Post, Goto
  <2>6. CASE NoConnection(c)
    BY <2>6, <2>1, <2>2 DEF CallInv, PhaseInv, NoConnection, Goto, ReturnWith
  <2> QED
    BY <1>2, <2>3, <2>4, <2>5, <2>6
<1>3. CASE NoAnswer(c) \/ Refused(c) \/ AnswerNoObject(c)
  <2>1. /\ request'[c] = request[c] /\ chat'[c] = chat[c]
        /\ from'[c] = from[c] /\ to'[c] = to[c]
        /\ phase'[c] = "returned" /\ result'[c] = "exception"
    BY <1>3 DEF NoAnswer, Refused, AnswerNoObject, Goto, ReturnWith
  <2>2. ChatInv(c)'
    BY <2>1 DEF CallInv, ChatInv, Covered, Contiguous
  <2>3. PhaseInv(c)'
    BY <2>1 DEF CallInv, PhaseInv
  <2> QED
    BY <2>2, <2>3 DEF CallInv
<1>4. CASE Answer(c)
  <2>1. PICK r \in {"value", "nothing", "exception"} :
          /\ result' = [result EXCEPT ![c] = r]
          /\ Goto(c, IF r = "exception" THEN "returned" ELSE "answered")
    BY <1>4, OutcomesAre DEF Answer
  <2>2. /\ request[c] = "delivered" /\ request'[c] = request[c]
        /\ chat'[c] = chat[c] /\ from'[c] = from[c] /\ to'[c] = to[c]
    BY <1>4 DEF Answer
  <2>3. ChatInv(c)'
    BY <2>2 DEF CallInv, ChatInv, Covered, Contiguous
  <2>4. phase'[c] = "answered" \/ (phase'[c] = "returned" /\ result'[c] = "exception")
    BY <2>1 DEF Goto
  <2>5. PhaseInv(c)'
    BY <2>2, <2>4 DEF CallInv, PhaseInv
  <2> QED
    BY <2>3, <2>5 DEF CallInv
<1>5. CASE NextPiece(c)
  <2>1. /\ phase[c] = "answered" /\ phase'[c] = "split"
        /\ request'[c] = "none" /\ chat'[c] = chat[c] /\ from'[c] = to[c]
    BY <1>5 DEF NextPiece, Goto
  <2>2. request[c] = "delivered"
    BY <2>1 DEF CallInv, PhaseInv
  <2>3. ChatInv(c)'
    BY <2>1, <2>2 DEF CallInv, ChatInv, Covered, Contiguous
  <2>4. PhaseInv(c)'
    BY <2>1 DEF PhaseInv
  <2> QED
    BY <2>3, <2>4 DEF CallInv
<1>6. CASE Return(c)
  <2>1. /\ phase[c] = "answered" /\ phase'[c] = "returned" /\ to[c] = asked[c].size
        /\ asked'[c] = asked[c] /\ request'[c] = request[c] /\ chat'[c] = chat[c]
        /\ from'[c] = from[c] /\ to'[c] = to[c]
    BY <1>6 DEF Return, Goto
  <2>2. request[c] = "delivered" /\ chat[c] # <<>>
    BY <2>1 DEF CallInv, PhaseInv
  <2>3. ChatInv(c)'
    BY <2>1 DEF CallInv, ChatInv, Covered, Contiguous
  <2>4. PhaseInv(c)'
    BY <2>1, <2>2 DEF PhaseInv
  <2> QED
    BY <2>3, <2>4 DEF CallInv
<1>7. CASE Delivers(c)
  <2>1. /\ request[c] = "sent" /\ request'[c] = "delivered" /\ to'[c] = to[c]
        /\ phase'[c] = phase[c] /\ result'[c] = result[c] /\ asked'[c] = asked[c]
        /\ chat'[c] = Append(chat[c], [from |-> from[c], to |-> to[c]])
    BY <1>7 DEF Delivers
  <2>2. from[c] = IF chat[c] = <<>> THEN 0 ELSE chat[c][Len(chat[c])].to
    BY <2>1 DEF CallInv, ChatInv, Covered
  <2>3. /\ Contiguous(chat'[c])
        /\ chat'[c] # <<>>
        /\ chat'[c][Len(chat'[c])].to = to[c]
    <3> DEFINE s == chat[c]
               t == chat'[c]
               x == from[c]
               y == to[c]
    <3>1. s \in Seq([from : Nat, to : Nat]) /\ x \in Nat /\ y \in Nat
      OBVIOUS
    <3>2. Contiguous(s)
      BY DEF CallInv, ChatInv
    <3>3. x = IF s = <<>> THEN 0 ELSE s[Len(s)].to
      BY <2>2
    <3>4. t = Append(s, [from |-> x, to |-> y])
      BY <2>1
    <3> HIDE DEF s, t, x, y, TypeOK
    <3>5. Contiguous(t) /\ t # <<>> /\ t[Len(t)].to = y
      BY <3>1, <3>2, <3>3, <3>4, ContiguousAppend
    <3> QED
      BY <3>5 DEF s, t, x, y
  <2>4. ChatInv(c)'
    BY <2>1, <2>3 DEF ChatInv, Covered, Contiguous
  <2>5. PhaseInv(c)'
    BY <2>1, <2>3 DEF CallInv, PhaseInv
  <2> QED
    BY <2>4, <2>5 DEF CallInv
<1>8. CASE Refuses(c)
  <2>1. /\ request[c] = "sent" /\ request'[c] = "refused" /\ from'[c] = from[c]
        /\ phase'[c] = phase[c] /\ result'[c] = result[c] /\ asked'[c] = asked[c]
        /\ chat'[c] = chat[c]
    BY <1>8 DEF Refuses
  <2>2. ChatInv(c)'
    BY <2>1 DEF CallInv, ChatInv, Covered, Contiguous
  <2>3. PhaseInv(c)'
    BY <2>1 DEF CallInv, PhaseInv
  <2> QED
    BY <2>2, <2>3 DEF CallInv
<1> QED
  BY <1>1, <1>2, <1>3, <1>4, <1>5, <1>6, <1>7, <1>8 DEF Step, Sends

LEMMA SendInvStep == TypeOK /\ SendInv /\ [Next]_vars => SendInv'
<1> SUFFICES ASSUME TypeOK, SendInv, [Next]_vars, NEW d \in Calls PROVE CallInv(d)'
  BY DEF SendInv
<1>1. CallInv(d)
  BY DEF SendInv
<1>2. CASE UNCHANGED vars
  <2>1. Same(d)
    BY <1>2 DEF Same
  <2> QED
    BY <1>1, <2>1, SameKeeps
<1>3. CASE Next
  <2>1. PICK c \in Calls : Step(c)
    BY <1>3 DEF Next, Step
  <2>2. CASE d = c
    BY <1>1, <2>1, <2>2, OwnStep
  <2>3. CASE d # c
    BY <1>1, <2>1, <2>3, OthersAreSame, SameKeeps
  <2> QED
    BY <2>2, <2>3
<1> QED
  BY <1>2, <1>3

\* What is carried out of what was asked is its beginning, in order and nothing twice.
THEOREM TextInOrder == Safe => []PiecesInOrder
<1>1. SendInv => PiecesInOrder
  BY DEF SendInv, CallInv, ChatInv, PiecesInOrder
<1> QED
  BY <1>1, SendInvInit, SendInvStep, TypeCorrect, PTL DEF Safe

LEMMA DoneFromInv == SendInv => ReturnedIsDone
<1> SUFFICES ASSUME SendInv, NEW c \in Calls,
                    phase[c] = "returned", result[c] # "exception", ~Empty(asked[c])
             PROVE  chat[c] # <<>> /\ chat[c][Len(chat[c])].to = asked[c].size
  BY DEF ReturnedIsDone
<1>1. request[c] = "delivered" /\ to[c] = asked[c].size /\ chat[c] # <<>>
  BY DEF SendInv, CallInv, PhaseInv
<1> QED
  BY <1>1 DEF SendInv, CallInv, ChatInv, Covered

\* A call that comes back without an exception was carried out whole.
THEOREM AskedIsDone == Safe => []ReturnedIsDone
BY SendInvInit, SendInvStep, TypeCorrect, DoneFromInv, PTL DEF Safe

-----------------------------------------------------------------------------
(* What the caller of a call relies on.                                    *)

\* A call that has come back stays as it is, and what is carried out of it later was
\* reported to be in doubt.
LEMMA AfterReturn ==
  TypeOK /\ SendInv /\ [Next]_vars =>
    \A d \in Calls : phase[d] = "returned" =>
      /\ phase'[d] = "returned"
      /\ chat'[d] # chat[d] => result[d] = "exception" \/ Empty(asked[d])
<1> SUFFICES ASSUME TypeOK, SendInv, [Next]_vars, NEW d \in Calls, phase[d] = "returned"
             PROVE  /\ phase'[d] = "returned"
                    /\ chat'[d] # chat[d] => result[d] = "exception" \/ Empty(asked[d])
  OBVIOUS
<1> USE DEF TypeOK
<1>1. CASE UNCHANGED vars
  BY <1>1
<1>2. CASE Next
  <2>1. PICK c \in Calls : Step(c)
    BY <1>2 DEF Next, Step
  <2>2. CASE d # c
    BY <2>1, <2>2, OthersAreSame DEF Same
  <2>3. CASE d = c
    <3>1. Delivers(c) \/ Refuses(c)
      BY <2>1, <2>3
      DEF Step, Sends, Begin, Split, Serialise, Post, NoConnection, NoAnswer, Refused,
          Answer, AnswerNoObject, NextPiece, Return
    <3>2. phase'[d] = "returned" /\ request[d] = "sent"
      BY <3>1, <2>3 DEF Delivers, Refuses
    <3>3. PhaseInv(d)
      BY DEF SendInv, CallInv
    <3> QED
      BY <3>2, <3>3 DEF PhaseInv
  <2> QED
    BY <2>2, <2>3
<1> QED
  BY <1>1, <1>2

-----------------------------------------------------------------------------
(* A call is a Posting.                                                    *)

\* What is sent is a piece of a text that is not yet sent whole.
PieceInv(c) ==
  /\ phase[c] \notin {"idle", "returned"} => ~Empty(asked[c])
  /\ chat[c] # <<>> /\ request[c] # "delivered" => from[c] < asked[c].size
  /\ phase[c] \in {"serialise", "post", "waiting"} \/ request[c] = "sent"
       => to[c] = PieceEnd(asked[c], from[c])

PostInv == \A c \in Calls : PieceInv(c)

LEMMA PostInvInit == Init => PostInv
BY DEF Init, PostInv, PieceInv

LEMMA PieceStep ==
  ASSUME TypeOK, NEW c \in Calls, CallInv(c), PieceInv(c), Step(c) PROVE PieceInv(c)'
<1> USE DEF TypeOK
<1>1. CASE Begin(c)
  BY <1>1 DEF CallInv, PhaseInv, PieceInv, Begin, Goto, ReturnWith, Empty
<1>2. CASE Split(c)
  BY <1>2 DEF CallInv, PhaseInv, PieceInv, Split, Goto, Empty, PieceEnd
<1>3. CASE Serialise(c) \/ Post(c) \/ NoConnection(c)
  BY <1>3 DEF CallInv, PhaseInv, PieceInv, Serialise, Post, NoConnection, Goto, ReturnWith,
              Empty, PieceEnd
<1>4. CASE NoAnswer(c) \/ Refused(c) \/ AnswerNoObject(c)
  BY <1>4 DEF PieceInv, NoAnswer, Refused, AnswerNoObject, Goto, ReturnWith, PieceEnd
<1>5. CASE Answer(c)
  <2>1. /\ phase[c] = "waiting" /\ phase'[c] \in {"answered", "returned"}
        /\ request[c] = "delivered"
        /\ UNCHANGED <<asked, from, to, request, chat>>
    BY <1>5 DEF Answer, Goto
  <2> QED
    BY <2>1 DEF PieceInv, Empty, PieceEnd
<1>6. CASE NextPiece(c) \/ Return(c)
  BY <1>6 DEF PieceInv, NextPiece, Return, Goto, Empty, CallInv, PhaseInv
<1>7. CASE Delivers(c) \/ Refuses(c)
  BY <1>7 DEF PieceInv, Delivers, Refuses, Empty, PieceEnd
<1> QED
  BY <1>1, <1>2, <1>3, <1>4, <1>5, <1>6, <1>7 DEF Step, Sends

LEMMA PostInvStep == TypeOK /\ SendInv /\ PostInv /\ [Next]_vars => PostInv'
<1> SUFFICES ASSUME TypeOK, SendInv, PostInv, [Next]_vars, NEW d \in Calls
             PROVE  PieceInv(d)'
  BY DEF PostInv
<1>1. CallInv(d) /\ PieceInv(d)
  BY DEF SendInv, PostInv
<1>2. Same(d) => PieceInv(d)'
  BY <1>1 DEF Same, PieceInv, Empty, PieceEnd
<1>3. CASE UNCHANGED vars
  BY <1>2, <1>3 DEF Same
<1>4. CASE Next
  <2>1. PICK c \in Calls : Step(c)
    BY <1>4 DEF Next, Step
  <2>2. CASE d = c
    BY <1>1, <2>1, <2>2, PieceStep
  <2>3. CASE d # c
    BY <1>2, <2>1, <2>3, OthersAreSame
  <2> QED
    BY <2>2, <2>3
<1> QED
  BY <1>3, <1>4

\* A piece begins where the text is sent to, makes it longer and is short enough.
LEMMA PieceFits ==
  ASSUME NEW r \in Requests, NEW start \in Nat, start = 0 \/ start < r.size
  PROVE  LET e == PieceEnd(r, start)
         IN  /\ e \in 0..r.size
             /\ e > start \/ r.size = 0
             /\ Cuts(r.operation) => e - start <= Limit
<1>1. r.size \in Nat /\ Limit \in Nat \ {0}
  BY SenderAssumption
<1> QED
  BY <1>1 DEF PieceEnd

LEMMA PostingInit == Init => Posted!Init
BY DEF Init, Posted!Init, OutcomeOf

\* What a step of c does to what Posting sees.
LEMMA ViewStep ==
  ASSUME TypeOK, NEW c \in Calls, Step(c)
  PROVE  /\ asked' = asked
         /\ chat' = [chat EXCEPT ![c] = chat'[c]]
         /\ [d \in Calls |-> request'[d] = "sent"]
              = [[d \in Calls |-> request[d] = "sent"] EXCEPT ![c] = request'[c] = "sent"]
         /\ [d \in Calls |-> OutcomeOf(d)']
              = [[d \in Calls |-> OutcomeOf(d)] EXCEPT ![c] = OutcomeOf(c)']
<1>1. \A d \in Calls \ {c} : Same(d)
  BY OthersAreSame
<1>2. asked' = asked
  BY DEF Step, Sends, Begin, Split, Serialise, Post, NoConnection, Delivers, Refuses,
         NoAnswer, Refused, Answer, AnswerNoObject, NextPiece, Return
<1>3. chat' = [chat EXCEPT ![c] = chat'[c]]
  BY DEF TypeOK, Step, Sends, Begin, Split, Serialise, Post, NoConnection, Delivers, Refuses,
         NoAnswer, Refused, Answer, AnswerNoObject, NextPiece, Return
<1>4. \A d \in Calls \ {c} : request'[d] = request[d] /\ OutcomeOf(d)' = OutcomeOf(d)
  BY <1>1 DEF Same, OutcomeOf, Empty
<1>5. [d \in Calls |-> request'[d] = "sent"]
        = [[d \in Calls |-> request[d] = "sent"] EXCEPT ![c] = request'[c] = "sent"]
  BY <1>4
<1>6. [d \in Calls |-> OutcomeOf(d)']
        = [[d \in Calls |-> OutcomeOf(d)] EXCEPT ![c] = OutcomeOf(c)']
  BY <1>4
<1> QED
  BY <1>2, <1>3, <1>5, <1>6

\* The operations are the same, seen through the instance.
LEMMA SameApi == \A o : /\ Posted!Cuts(o) <=> Cuts(o)
                        /\ Posted!NeedsText(o) <=> NeedsText(o)
BY DEF Posted!Cuts, Cuts, Posted!NeedsText, NeedsText, Posted!Texts, Texts, Posted!Parse, Parse,
       Posted!GetBool, GetBool, Posted!Maybe, Maybe, Posted!Need, Need

LEMMA PostingStep ==
  ASSUME TypeOK, NEW c \in Calls, CallInv(c), PieceInv(c), Step(c)
  PROVE  [Posted!Next]_Posted!vars
<1> DEFINE P == [d \in Calls |-> request[d] = "sent"]
           O == [d \in Calls |-> OutcomeOf(d)]
<1>1. /\ asked' = asked
      /\ chat' = [chat EXCEPT ![c] = chat'[c]]
      /\ P' = [P EXCEPT ![c] = request'[c] = "sent"]
      /\ O' = [O EXCEPT ![c] = OutcomeOf(c)']
  BY ViewStep
<1>2. /\ P[c] <=> request[c] = "sent"
      /\ O[c] = OutcomeOf(c)
      /\ P = [P EXCEPT ![c] = request[c] = "sent"]
      /\ O = [O EXCEPT ![c] = OutcomeOf(c)]
  OBVIOUS
<1>3. /\ chat[c] \in Seq([from : Nat, to : Nat]) /\ from[c] \in Nat /\ to[c] \in Nat
      /\ asked[c] \in Requests /\ asked[c].size \in Nat
      /\ chat = [chat EXCEPT ![c] = chat[c]]
  BY SenderAssumption DEF TypeOK
<1> HIDE DEF P, O
<1>a. UNCHANGED <<asked, chat, P, O>> => UNCHANGED Posted!vars
  BY DEF Posted!vars, P, O
<1>b. ASSUME Posted!Ask(c) \/ Posted!Drop(c) \/ Posted!Done(c) \/ Posted!Fail(c)
      PROVE  Posted!Next
  BY <1>b DEF Posted!Next
\* Steps that Posting does not see, and those it sees as failures.
<1>4. ASSUME chat'[c] = chat[c], request'[c] = "sent" <=> request[c] = "sent",
             OutcomeOf(c)' = OutcomeOf(c)
      PROVE  UNCHANGED Posted!vars
  <2>1. (request'[c] = "sent") = (request[c] = "sent")
    BY <1>4
  <2>2. P' = P
    BY <2>1, <1>1, <1>2, Zenon
  <2>3. chat' = chat /\ O' = O
    BY <1>1, <1>2, <1>3, <1>4
  <2> QED
    BY <2>2, <2>3, <1>1, <1>a
<1>5. ASSUME chat'[c] = chat[c], request'[c] = request[c],
             OutcomeOf(c) = "open", OutcomeOf(c)' = "failed"
      PROVE  Posted!Fail(c)
  <2>1. chat' = chat /\ P' = P /\ O' = [O EXCEPT ![c] = "failed"] /\ O[c] = "open"
    BY <1>1, <1>2, <1>3, <1>5
  <2>2. /\ O[c] = "open" /\ O' = [O EXCEPT ![c] = "failed"]
        /\ UNCHANGED <<asked, chat, P>>
        => Posted!Fail(c)
    BY DEF Posted!Fail, P, O
  <2> QED
    BY <2>1, <2>2, <1>1
<1>6. CASE Begin(c)
  <2>1. chat'[c] = chat[c] /\ request'[c] = request[c] /\ OutcomeOf(c) = "open"
    BY <1>6 DEF Begin, OutcomeOf
  <2>2. OutcomeOf(c)' \in {"open", "failed"}
    BY <1>6 DEF Begin, OutcomeOf, Goto, ReturnWith, TypeOK, Empty
  <2> QED
    BY <2>1, <2>2, <1>4, <1>5, <1>b
<1>7. CASE Split(c) \/ Serialise(c)
  <2>1. chat'[c] = chat[c] /\ request'[c] = request[c] /\ OutcomeOf(c) = "open"
    BY <1>7 DEF Split, Serialise, OutcomeOf
  <2>2. OutcomeOf(c)' \in {"open", "failed"}
    BY <1>7 DEF Split, Serialise, OutcomeOf, Goto, ReturnWith, TypeOK
  <2> QED
    BY <2>1, <2>2, <1>4, <1>5, <1>b
<1>8. CASE Post(c)
  <2>1. /\ phase[c] = "post" /\ request[c] = "none" /\ request'[c] = "sent"
        /\ chat'[c] = chat[c] /\ OutcomeOf(c) = "open" /\ OutcomeOf(c)' = "open"
    BY <1>8 DEF Post, OutcomeOf, Goto, TypeOK, CallInv, PhaseInv
  <2>2. chat' = chat /\ P' = [P EXCEPT ![c] = TRUE] /\ O' = O /\ O[c] = "open" /\ ~ P[c]
    BY <2>1, <1>1, <1>2, <1>3
  <2>3. ~ Posted!Whole(c)
    BY <2>1, <1>3 DEF Posted!Whole, Posted!Reach, CallInv, ChatInv, Covered, PieceInv
  <2>4. Posted!NeedsText(asked[c].operation) => asked[c].size # 0
    BY <2>1, SameApi DEF PieceInv, Empty
  <2>5. Posted!Ask(c)
    BY <2>2, <2>3, <2>4, <1>1 DEF Posted!Ask, P, O
  <2> QED
    BY <2>5, <1>b
<1>9. CASE NoConnection(c) \/ NoAnswer(c) \/ Refused(c) \/ AnswerNoObject(c)
  <2>1. /\ chat'[c] = chat[c] /\ request'[c] = request[c]
        /\ OutcomeOf(c) = "open" /\ OutcomeOf(c)' = "failed"
    BY <1>9 DEF NoConnection, NoAnswer, Refused, AnswerNoObject, OutcomeOf, ReturnWith, Goto,
                TypeOK
  <2> QED
    BY <2>1, <1>5, <1>b
<1>10. CASE Answer(c)
  <2>1. PICK r \in {"value", "nothing", "exception"} :
          /\ result' = [result EXCEPT ![c] = r]
          /\ Goto(c, IF r = "exception" THEN "returned" ELSE "answered")
    BY <1>10, OutcomesAre DEF Answer
  <2>2. chat'[c] = chat[c] /\ request'[c] = request[c] /\ OutcomeOf(c) = "open"
    BY <1>10 DEF Answer, OutcomeOf
  <2>3. OutcomeOf(c)' \in {"open", "failed"}
    BY <2>1 DEF OutcomeOf, Goto, TypeOK
  <2> QED
    BY <2>2, <2>3, <1>4, <1>5, <1>b
<1>11. CASE NextPiece(c)
  <2>1. phase[c] = "answered" /\ phase'[c] = "split" /\ chat'[c] = chat[c] /\ request'[c] = "none"
    BY <1>11 DEF NextPiece, Goto, TypeOK
  <2>2. request[c] = "delivered" /\ OutcomeOf(c) = "open" /\ OutcomeOf(c)' = "open"
    BY <2>1 DEF CallInv, PhaseInv, OutcomeOf
  <2> QED
    BY <2>1, <2>2, <1>4
<1>12. CASE Return(c)
  <2>1. /\ phase[c] = "answered" /\ to[c] = asked[c].size
        /\ chat'[c] = chat[c] /\ request'[c] = request[c]
        /\ OutcomeOf(c) = "open" /\ OutcomeOf(c)' \in {"failed", "done"}
    BY <1>12 DEF Return, Goto, TypeOK, OutcomeOf
  <2>2. request[c] = "delivered" /\ chat[c] # <<>>
    BY <2>1 DEF CallInv, PhaseInv
  <2>3. Posted!Whole(c)
    BY <2>1, <2>2 DEF Posted!Whole, Posted!Reach, CallInv, ChatInv, Covered
  <2>4. CASE OutcomeOf(c)' = "done"
    <3>1. chat' = chat /\ P' = P /\ O' = [O EXCEPT ![c] = "done"] /\ O[c] = "open" /\ ~ P[c]
      BY <2>1, <2>2, <2>4, <1>1, <1>2, <1>3
    <3>2. Posted!Done(c)
      BY <3>1, <2>3, <1>1 DEF Posted!Done, P, O
    <3> QED
      BY <3>2, <1>b
  <2> QED
    BY <2>1, <2>4, <1>5, <1>b
<1>13. CASE Delivers(c)
  <2>1. /\ request[c] = "sent" /\ request'[c] = "delivered"
        /\ chat'[c] = Append(chat[c], [from |-> from[c], to |-> to[c]])
        /\ OutcomeOf(c)' = OutcomeOf(c)
    BY <1>13 DEF Delivers, OutcomeOf, Empty, TypeOK
  <2>2. /\ Posted!Reach(c) = from[c]
        /\ chat[c] = <<>> => from[c] = 0
        /\ chat[c] # <<>> => from[c] < asked[c].size
        /\ to[c] = PieceEnd(asked[c], from[c])
    BY <2>1 DEF CallInv, ChatInv, Covered, PieceInv, Posted!Reach
  <2>3. /\ to[c] \in 0..asked[c].size
        /\ to[c] > from[c] \/ asked[c].size = 0
        /\ Cuts(asked[c].operation) => to[c] - from[c] <= Limit
    BY <2>2, <1>3, PieceFits
  <2>4. /\ chat' = [chat EXCEPT ![c] = Append(@, [from |-> from[c], to |-> to[c]])]
        /\ P' = [P EXCEPT ![c] = FALSE] /\ O' = O /\ P[c]
    BY <2>1, <1>1, <1>2, <1>3
  <2>5. PICK e \in 0..asked[c].size : e = to[c]
    BY <2>3
  <2>6. Posted!Show(c, e)
    <3>1. e > Posted!Reach(c) \/ chat[c] = <<>>
      BY <2>2, <2>3, <2>5, <1>3
    <3>2. Posted!Cuts(asked[c].operation) => e - Posted!Reach(c) <= Limit
      BY <2>2, <2>3, <2>5, SameApi
    <3>3. e <= asked[c].size
      BY <2>5, <1>3
    <3>4. /\ P[c] /\ P' = [P EXCEPT ![c] = FALSE]
          /\ chat' = [chat EXCEPT ![c] = Append(@, [from |-> Posted!Reach(c), to |-> e])]
          /\ UNCHANGED <<asked, O>>
      BY <2>2, <2>4, <2>5, <1>1
    <3> QED
      BY <3>1, <3>2, <3>3, <3>4 DEF Posted!Show, P, O
  <2> QED
    BY <2>6 DEF Posted!Next
<1>14. CASE Refuses(c)
  <2>1. /\ request[c] = "sent" /\ request'[c] = "refused" /\ chat'[c] = chat[c]
        /\ OutcomeOf(c)' = OutcomeOf(c)
    BY <1>14 DEF Refuses, OutcomeOf, Empty, TypeOK
  <2>2. chat' = chat /\ P' = [P EXCEPT ![c] = FALSE] /\ O' = O /\ P[c]
    BY <2>1, <1>1, <1>2, <1>3
  <2>3. Posted!Drop(c)
    BY <2>2, <1>1 DEF Posted!Drop, P, O
  <2> QED
    BY <2>3, <1>b
<1> QED
  BY <1>6, <1>7, <1>8, <1>9, <1>10, <1>11, <1>12, <1>13, <1>14 DEF Step, Sends

LEMMA EveryStepPosts == TypeOK /\ SendInv /\ PostInv /\ [Next]_vars => [Posted!Next]_Posted!vars
<1> SUFFICES ASSUME TypeOK, SendInv, PostInv, [Next]_vars PROVE [Posted!Next]_Posted!vars
  OBVIOUS
<1>1. CASE UNCHANGED vars
  <2>1. \A c : OutcomeOf(c)' = OutcomeOf(c)
    BY <1>1 DEF OutcomeOf, Empty
  <2> QED
    BY <2>1, <1>1 DEF Posted!vars
<1>2. CASE Next
  <2>1. PICK c \in Calls : Step(c)
    BY <1>2 DEF Next, Step
  <2> QED
    BY <2>1, PostingStep DEF SendInv, PostInv
<1> QED
  BY <1>1, <1>2

\* A call of any operation, however its requests are lost, late or refused and its answers
\* damaged, does what Posting allows and nothing else.
THEOREM CallsArePostings == Safe => ImplementsPosting
BY PostingInit, SendInvInit, PostInvInit, SendInvStep, PostInvStep, EveryStepPosts, TypeCorrect,
   PTL DEF Safe, ImplementsPosting, Posted!Spec
=============================================================================
