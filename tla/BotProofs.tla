----------------------------- MODULE BotProofs -----------------------------
(***************************************************************************)
(* The bot loses no answer: what is proved of the listener and of the       *)
(* sender, each by itself, is put together by one invariant, Link, which     *)
(* says what the calls of the sender have to do with the updates; and it    *)
(* answers just as its listener delivers (BotAnswers).                     *)
(***************************************************************************)
EXTENDS Bot, PollDeliveryProofs

SP == INSTANCE SenderProofs WITH Calls <- BotCalls, Requests <- Answers,
      Limit <- message_length_limit, asked <- answer

USE DEF server, reply, pool, flags, handlers, signals, outcome, seen, asked, marks,
        history, process, vars, posts, botVars

(* The sender of the model is the one the theorems are about.              *)

LEMMA SameInit == S!Init <=> SP!Init
BY DEF S!Init, SP!Init

LEMMA SameTypes == S!TypeOK <=> SP!TypeOK
BY DEF S!TypeOK, SP!TypeOK, S!Phases, SP!Phases

LEMMA SameApi ==
  /\ \A calls, type : S!Parse(calls, type) = SP!Parse(calls, type)
  /\ \A calls : S!ParseScalar(calls) = SP!ParseScalar(calls)
  /\ \A calls, type : S!ParseVector(calls, type) = SP!ParseVector(calls, type)
  /\ \A calls : S!GetBool(calls) = SP!GetBool(calls)
BY DEF S!Parse, SP!Parse, S!ParseScalar, SP!ParseScalar, S!ParseVector, SP!ParseVector,
       S!GetBool, SP!GetBool, S!Maybe, SP!Maybe, S!Plain, SP!Plain, S!List, SP!List,
       S!Need, SP!Need

LEMMA SameTexts == S!Texts = SP!Texts
BY SameApi DEF S!Texts, SP!Texts

LEMMA SameOperations == S!Operations = SP!Operations
<1>1. /\ S!AboutBot = SP!AboutBot /\ S!Forwards = SP!Forwards /\ S!Edits = SP!Edits
      /\ S!Files = SP!Files /\ S!Notes = SP!Notes
  BY SameApi DEF S!AboutBot, SP!AboutBot, S!Forwards, SP!Forwards, S!Edits, SP!Edits,
                 S!Files, SP!Files, S!Notes, SP!Notes
<1>2. /\ S!LiveLocations = SP!LiveLocations /\ S!Places = SP!Places
      /\ S!Actions = SP!Actions /\ S!Members = SP!Members
  BY SameApi DEF S!LiveLocations, SP!LiveLocations, S!Places, SP!Places,
                 S!Actions, SP!Actions, S!Members, SP!Members
<1>3. /\ S!Chats = SP!Chats /\ S!Questions = SP!Questions
      /\ S!CallbackAnswers = SP!CallbackAnswers
  BY SameApi DEF S!Chats, SP!Chats, S!Questions, SP!Questions,
                 S!CallbackAnswers, SP!CallbackAnswers
<1> QED
  BY <1>1, <1>2, <1>3, SameTexts DEF S!Operations, SP!Operations

LEMMA SameServer ==
  ASSUME NEW c \in BotCalls
  PROVE  (S!Delivers(c) <=> SP!Delivers(c)) /\ (S!Refuses(c) <=> SP!Refuses(c))
BY DEF S!Delivers, SP!Delivers, S!Refuses, SP!Refuses

LEMMA SameBegin == ASSUME NEW c \in BotCalls PROVE S!Begin(c) <=> SP!Begin(c)
BY SameTexts
DEF S!Begin, SP!Begin, S!Empty, SP!Empty, S!NeedsText, SP!NeedsText, S!ReturnWith, SP!ReturnWith, S!Goto, SP!Goto

LEMMA SameSends == ASSUME NEW c \in BotCalls PROVE S!Sends(c) <=> SP!Sends(c)
<1> USE DEF S!ReturnWith, SP!ReturnWith, S!Goto, SP!Goto
<1>1. S!Split(c) <=> SP!Split(c)
  BY DEF S!Split, SP!Split, S!PieceEnd, SP!PieceEnd, S!Cuts, SP!Cuts
<1>2. S!Serialise(c) <=> SP!Serialise(c)
  BY DEF S!Serialise, SP!Serialise
<1>3. /\ S!Post(c) <=> SP!Post(c)
      /\ S!NoConnection(c) <=> SP!NoConnection(c)
      /\ S!NoAnswer(c) <=> SP!NoAnswer(c)
      /\ S!Refused(c) <=> SP!Refused(c)
      /\ S!AnswerNoObject(c) <=> SP!AnswerNoObject(c)
  BY DEF S!Post, SP!Post, S!NoConnection, SP!NoConnection, S!NoAnswer, SP!NoAnswer,
         S!Refused, SP!Refused, S!AnswerNoObject, SP!AnswerNoObject
<1>4. S!Answer(c) <=> SP!Answer(c)
  BY DEF S!Answer, SP!Answer, S!Outcomes, SP!Outcomes
<1>5. (S!NextPiece(c) <=> SP!NextPiece(c)) /\ (S!Return(c) <=> SP!Return(c))
  BY DEF S!NextPiece, SP!NextPiece, S!Return, SP!Return
<1> QED
  BY <1>1, <1>2, <1>3, <1>4, <1>5 DEF S!Sends, SP!Sends

LEMMA SameAssumption == SP!SenderAssumption
<1>1. S!SenderAssumption
  BY BotAssumption
<1> QED
  BY <1>1, SameOperations DEF S!SenderAssumption, SP!SenderAssumption

-----------------------------------------------------------------------------
(* What the calls have to do with the updates: the callback of an update is *)
(* in its own call, if it was called, and every update executed has a call  *)
(* that came back.                                                         *)

Link(l) ==
  /\ pc[l] = "callback" => made[l] # 0 /\ update[Current(l)] = todo[l]
  /\ \A u \in executed[l] : \E k \in 1..made[l] :
       update[<<l, k>>] = u /\ phase[<<l, k>>] = "returned"

CallsTypeOK == made \in [Listeners -> 0..MaxCalls] /\ update \in [BotCalls -> Nat]

LinkInv == /\ TypeInv /\ CallsTypeOK /\ SP!TypeOK /\ SP!SendInv
           /\ \A l \in Listeners : Link(l)

LEMMA MadeIsNat ==
  ASSUME CallsTypeOK, NEW l \in Listeners
  PROVE  /\ made[l] \in Nat /\ made[l] <= MaxCalls
         /\ made[l] # 0 => Current(l) \in BotCalls
<1>1. made[l] \in 0..MaxCalls /\ MaxCalls \in Nat
  BY BotAssumption DEF CallsTypeOK
<1>2. made[l] # 0 => made[l] \in 1..MaxCalls
  BY <1>1
<1> QED
  BY <1>1, <1>2 DEF Current, BotCalls

(* Each step is one of the listener, or of its process, and one of the      *)
(* calls, or neither.                                                       *)

LEMMA PollStep == [BotNext]_botVars => [Next]_vars
<1> SUFFICES ASSUME [BotNext]_botVars PROVE [Next]_vars
  OBVIOUS
<1>1. CASE UNCHANGED botVars
  BY <1>1
<1>2. ASSUME NEW l \in Listeners, BotRuns(l) PROVE [Next]_vars
  BY <1>2 DEF BotRuns, CallbackBegins, CallbackSends, CallbackEnds, Polls, Runs, Next
<1>3. ASSUME NEW l \in Listeners, Answered(l) PROVE [Next]_vars
  BY <1>3 DEF Answered, Next
<1>4. CASE Happens
  BY <1>4 DEF Happens, Next
<1>5. ASSUME NEW c \in BotCalls, ServerActs(c) PROVE [Next]_vars
  BY <1>5 DEF ServerActs
<1> QED
  BY <1>1, <1>2, <1>3, <1>4, <1>5 DEF BotNext

LEMMA CallStep == CallsTypeOK /\ (\A l \in Listeners : Link(l)) /\ [BotNext]_botVars
                    => [SP!Next]_SP!vars
<1> SUFFICES ASSUME CallsTypeOK, \A l \in Listeners : Link(l), [BotNext]_botVars
             PROVE  [SP!Next]_SP!vars
  OBVIOUS
<1>1. CASE UNCHANGED posts
  BY <1>1 DEF SP!vars
<1>2. ASSUME NEW l \in Listeners, CallbackSends(l) PROVE [SP!Next]_SP!vars
  <2>1. Current(l) \in BotCalls
    BY <1>2, MadeIsNat DEF CallbackSends, At, Link
  <2>2. SP!Begin(Current(l)) \/ SP!Sends(Current(l))
    BY <1>2, <2>1, SameBegin, SameSends DEF CallbackSends
  <2> QED
    BY <2>1, <2>2 DEF SP!Next
<1>3. ASSUME NEW c \in BotCalls, ServerActs(c) PROVE [SP!Next]_SP!vars
  BY <1>3, SameServer DEF ServerActs, SP!Next
<1> QED
  BY <1>1, <1>2, <1>3
  DEF BotNext, BotRuns, CallbackBegins, CallbackEnds, Polls, Answered, Happens

LEMMA ReturnedStays ==
  ASSUME SP!TypeOK, SP!SendInv, [SP!Next]_SP!vars, NEW c \in BotCalls
  PROVE  phase[c] = "returned" =>
           /\ phase'[c] = "returned"
           /\ chat'[c] # chat[c] => result[c] = "exception" \/ SP!Empty(answer[c])
BY SameAssumption, SP!AfterReturn DEF SP!AfterReturn

\* What leaves the callback of m, its calls and what it has executed alone.
Kept(m) ==
  /\ pc'[m] = "callback" => pc[m] = "callback" /\ todo'[m] = todo[m]
  /\ executed'[m] = executed[m]

LEMMA KeptKeeps ==
  ASSUME CallsTypeOK, NEW m \in Listeners, Link(m), Kept(m), UNCHANGED <<made, update>>,
         \A k \in 1..made[m] : phase[<<m, k>>] = "returned" => phase'[<<m, k>>] = "returned"
  PROVE  Link(m)'
<1>1. made'[m] = made[m] /\ \A c : update'[c] = update[c]
  OBVIOUS
<1>2. pc'[m] = "callback" => made'[m] # 0 /\ Current(m)' = Current(m)
                             /\ update'[Current(m)] = todo'[m]
  BY <1>1 DEF Link, Kept, Current
<1>3. ASSUME NEW u \in executed'[m]
      PROVE  \E k \in 1..made'[m] : update'[<<m, k>>] = u /\ phase'[<<m, k>>] = "returned"
  <2>1. PICK k \in 1..made[m] : update[<<m, k>>] = u /\ phase[<<m, k>>] = "returned"
    BY <1>3 DEF Link, Kept
  <2> QED
    BY <2>1, <1>1
<1> QED
  BY <1>2, <1>3 DEF Link

LEMMA PollsKeeps ==
  ASSUME TypeInv, NEW l \in Listeners, NEW m \in Listeners, Polls(l) PROVE Kept(m)
<1>0. pc \in [Listeners -> Locations] /\ todo \in [Listeners -> Nat]
      /\ Runs(l) /\ pc[l] # "callback" /\ pc'[l] # "callback"
  BY DEF TypeInv, TypeOK, RunTypeOK, Polls
<1> USE <1>0 DEF Kept, At, Goto
<1>1. CASE \/ ArmGlobal(l) \/ InstallHandler(l) \/ FlagHandler(l)
           \/ SpawnThread(l) \/ LeaveSpawnBlock(l)
  BY <1>1 DEF ArmGlobal, InstallHandler, FlagHandler, SpawnThread, LeaveSpawnBlock
<1>2. CASE \/ TestOwn(l) \/ TestGlobal(l) \/ SendRequest(l)
           \/ HoldExpires(l) \/ ReplyEmpty(l) \/ ReadTimesOut(l)
  BY <1>2 DEF TestOwn, TestGlobal, SendRequest, HoldExpires, ReplyEmpty, ReadTimesOut
<1>3. CASE PostToPool(l)
  BY <1>3 DEF PostToPool, TakeUpdate, ItemDone
<1>4. CASE ExecuteInline(l) \/ CallbacksReturn(l)
  BY <1>4 DEF ExecuteInline, CallbacksReturn
<1>5. CASE EndOfBatch(l) \/ ItemThrows(l) \/ Fault(l)
  BY <1>5 DEF EndOfBatch, ItemThrows, DropReply, Fault
<1>6. CASE RestoreHandler(l) \/ Unflag(l) \/ StopContext(l)
  BY <1>6 DEF RestoreHandler, Unflag, StopContext
<1>7. CASE Join(l) \/ ItemAborts(l)
  BY <1>7 DEF Join, Unwind, LeaveRun, DropReply, ItemAborts, Die, Each
<1> QED
  BY <1>1, <1>2, <1>3, <1>4, <1>5, <1>6, <1>7 DEF Runs

LEMMA AnsweredKeeps ==
  ASSUME TypeInv, NEW l \in Listeners, NEW m \in Listeners, Answered(l) PROVE Kept(m)
<1>1. pc \in [Listeners -> Locations] /\ todo \in [Listeners -> Nat]
  BY DEF TypeInv, TypeOK, RunTypeOK
<1> QED
  BY <1>1 DEF Answered, ReplyUpdates, Reply, Goto, Kept

LEMMA HappensKeeps ==
  ASSUME TypeInv, NEW m \in Listeners, Happens PROVE Kept(m)
<1>0. pc \in [Listeners -> Locations] /\ todo \in [Listeners -> Nat]
  BY DEF TypeInv, TypeOK, RunTypeOK
<1> USE <1>0 DEF Kept, At, Goto
<1>1. ASSUME NEW l \in Listeners, BotReceives(l) \/ CallRun(l) PROVE Kept(m)
  BY <1>1 DEF BotReceives, Publish, CallRun
<1>2. ASSUME NEW l \in Listeners, Fails(l), pc[l] # "callback" PROVE Kept(m)
  <2>1. CASE SpawnFails(l)
    BY <2>1 DEF SpawnFails, Unwind, LeaveRun, DropReply, Die, Each
  <2>2. CASE PollFails(l) \/ ReplyNoResult(l)
    BY <2>2 DEF PollFails, ReplyNoResult
  <2>3. CASE ReplyDamaged(l)
    BY <2>3 DEF ReplyDamaged, Reply
  <2> QED
    BY <1>2, <2>1, <2>2, <2>3 DEF Fails, CallbackThrows
<1>3. CASE SigintHandled \/ Handler
  BY <1>3 DEF SigintHandled, Handler, HandlerStops, HandlerRestores, HandlerUnflags
<1>4. CASE SigintKills \/ Crash
  BY <1>4 DEF SigintKills, Crash, Die, Each
<1>5. CASE Restart
  BY <1>5 DEF Restart
<1> QED
  BY <1>1, <1>2, <1>3, <1>4, <1>5 DEF Happens

LEMMA LinkBegins ==
  ASSUME LinkInv, NEW l \in Listeners, NEW m \in Listeners, CallbackBegins(l)
  PROVE  Link(m)'
<1>0. /\ pc \in [Listeners -> Locations] /\ CallsTypeOK /\ Link(m)
      /\ pc' = [pc EXCEPT ![l] = "callback"] /\ UNCHANGED <<todo, executed, phase>>
      /\ made' = [made EXCEPT ![l] = @ + 1]
      /\ update' = [update EXCEPT ![<<l, made[l] + 1>>] = todo[l]]
  BY DEF LinkInv, TypeInv, TypeOK, RunTypeOK, CallbackBegins, ExecuteInline, Goto
<1>1. /\ made[l] \in Nat /\ made[l] + 1 \in 1..MaxCalls /\ made[m] \in Nat
      /\ \A k \in 1..made[m] : <<m, k>> \in BotCalls /\ <<m, k>> # <<l, made[l] + 1>>
  <2>1. made[l] \in Nat /\ made[l] < MaxCalls /\ made[m] \in Nat /\ made[m] <= MaxCalls
        /\ MaxCalls \in Nat
    BY <1>0, MadeIsNat, BotAssumption DEF CallbackBegins
  <2>2. ASSUME NEW k \in 1..made[m] PROVE k \in 1..MaxCalls /\ (l = m => k # made[l] + 1)
    BY <2>1
  <2>3. made[l] + 1 \in 1..MaxCalls
    BY <2>1
  <2> QED
    BY <2>1, <2>2, <2>3 DEF BotCalls
<1>2. \A k \in 1..made[m] : k \in 1..made'[m] /\ update'[<<m, k>>] = update[<<m, k>>]
  BY <1>0, <1>1 DEF CallsTypeOK
<1>3. ASSUME NEW u \in executed'[m]
      PROVE  \E k \in 1..made'[m] : update'[<<m, k>>] = u /\ phase'[<<m, k>>] = "returned"
  <2>1. PICK k \in 1..made[m] : update[<<m, k>>] = u /\ phase[<<m, k>>] = "returned"
    BY <1>0, <1>3 DEF Link
  <2> QED
    BY <2>1, <1>0, <1>2
<1>4. ASSUME pc'[m] = "callback"
      PROVE  made'[m] # 0 /\ update'[<<m, made'[m]>>] = todo'[m]
  <2>1. CASE m = l
    <3>1. made'[l] = made[l] + 1 /\ made[l] + 1 # 0
      BY <1>0, <1>1 DEF CallsTypeOK
    <3>2. update'[<<l, made[l] + 1>>] = todo[l]
      BY <1>0, <1>1 DEF CallsTypeOK, BotCalls
    <3> QED
      BY <2>1, <3>1, <3>2, <1>0
  <2>2. CASE m # l
    <3>1. pc[m] = "callback" /\ made'[m] = made[m]
      BY <1>0, <1>4, <2>2 DEF CallsTypeOK
    <3>2. made[m] # 0 /\ update[<<m, made[m]>>] = todo[m]
      BY <1>0, <3>1 DEF Link, Current
    <3>3. update'[<<m, made[m]>>] = update[<<m, made[m]>>]
      BY <1>0, <2>2 DEF CallsTypeOK
    <3> QED
      BY <3>1, <3>2, <3>3, <1>0
  <2> QED
    BY <2>1, <2>2
<1> QED
  BY <1>3, <1>4 DEF Link, Current

LEMMA LinkEnds ==
  ASSUME LinkInv, NEW l \in Listeners, NEW m \in Listeners, CallbackEnds(l)
  PROVE  Link(m)'
<1>0. /\ pc \in [Listeners -> Locations] /\ executed \in [Listeners -> SUBSET Nat]
      /\ CallsTypeOK /\ Link(m)
      /\ pc[l] = "callback" /\ pc' = [pc EXCEPT ![l] = "batch"]
      /\ executed' = [executed EXCEPT ![l] = IF Whole(l) THEN @ \cup {todo[l]} ELSE @]
      /\ Whole(l) => phase[Current(l)] = "returned"
      /\ \A k \in Listeners : k # l => todo'[k] = todo[k]
      /\ UNCHANGED <<phase, made, update>>
  BY DEF LinkInv, TypeInv, TypeOK, RunTypeOK, HistoryTypeOK, CallbackEnds,
         CallbacksReturn, ItemDone, At, Goto
<1>1. CASE m # l
  <2>1. Kept(m)
    BY <1>0, <1>1 DEF Kept
  <2> QED
    BY <2>1, <1>0, KeptKeeps
<1>2. CASE m = l
  <2>1. pc'[m] # "callback"
    BY <1>0, <1>2
  <2>2. ASSUME NEW u \in executed'[m]
        PROVE  \E k \in 1..made[m] : update[<<m, k>>] = u /\ phase[<<m, k>>] = "returned"
    <3>1. CASE u \in executed[m]
      BY <1>0, <3>1 DEF Link
    <3>2. CASE Whole(m) /\ u = todo[m]
      <4>1. made[m] # 0 /\ update[<<m, made[m]>>] = u /\ phase[<<m, made[m]>>] = "returned"
        BY <1>0, <1>2, <3>2 DEF Link, Current
      <4>2. made[m] \in Nat
        BY <1>0, MadeIsNat
      <4>3. made[m] \in 1..made[m]
        BY <4>1, <4>2
      <4> QED
        BY <4>1, <4>3
    <3> QED
      BY <1>0, <1>2, <2>2, <3>1, <3>2
  <2>3. \A u \in executed'[m] :
          \E k \in 1..made'[m] : update'[<<m, k>>] = u /\ phase'[<<m, k>>] = "returned"
    BY <1>0, <2>2
  <2> QED
    BY <2>1, <2>3 DEF Link
<1> QED
  BY <1>1, <1>2

LEMMA LinkStep == LinkInv /\ [BotNext]_botVars => \A m \in Listeners : Link(m)'
<1> SUFFICES ASSUME LinkInv, [BotNext]_botVars, NEW m \in Listeners PROVE Link(m)'
  OBVIOUS
<1>0. /\ TypeInv /\ CallsTypeOK /\ Link(m) /\ SP!TypeOK /\ SP!SendInv
      /\ [SP!Next]_SP!vars
  BY CallStep DEF LinkInv
<1>1. \A k \in 1..made[m] : phase[<<m, k>>] = "returned" => phase'[<<m, k>>] = "returned"
  <2> SUFFICES ASSUME NEW k \in 1..made[m] PROVE <<m, k>> \in BotCalls
    BY <1>0, ReturnedStays
  <2>1. made[m] \in Nat /\ made[m] <= MaxCalls /\ MaxCalls \in Nat
    BY <1>0, MadeIsNat, BotAssumption
  <2>2. k \in 1..MaxCalls
    BY <2>1
  <2> QED
    BY <2>2 DEF BotCalls
<1>2. ASSUME Kept(m), UNCHANGED <<made, update>> PROVE Link(m)'
  BY <1>0, <1>1, <1>2, KeptKeeps
<1>3. CASE UNCHANGED vars /\ UNCHANGED <<made, update>>
  BY <1>2, <1>3 DEF Kept
<1>4. ASSUME NEW l \in Listeners, BotRuns(l) \/ Answered(l) PROVE Link(m)'
  <2>1. CASE CallbackBegins(l)
    BY <2>1, LinkBegins
  <2>2. CASE CallbackSends(l)
    BY <2>2, <1>3 DEF CallbackSends
  <2>3. CASE CallbackEnds(l)
    BY <2>3, LinkEnds
  <2>4. CASE Polls(l)
    BY <2>4, <1>0, <1>2, PollsKeeps DEF Polls
  <2>5. CASE Answered(l)
    BY <2>5, <1>0, <1>2, AnsweredKeeps DEF Answered
  <2> QED
    BY <1>4, <2>1, <2>2, <2>3, <2>4, <2>5 DEF BotRuns
<1>5. CASE Happens
  BY <1>5, <1>0, <1>2, HappensKeeps DEF Happens
<1>6. ASSUME NEW c \in BotCalls, ServerActs(c) PROVE Link(m)'
  BY <1>6, <1>3 DEF ServerActs
<1> QED
  BY <1>3, <1>4, <1>5, <1>6 DEF BotNext

LEMMA CallsTypeStep ==
  ASSUME TypeInv, CallsTypeOK, [BotNext]_botVars PROVE CallsTypeOK'
<1>1. CASE UNCHANGED <<made, update>>
  BY <1>1 DEF CallsTypeOK
<1>2. ASSUME NEW l \in Listeners, CallbackBegins(l) PROVE CallsTypeOK'
  <2>1. made[l] + 1 \in 0..MaxCalls
    BY <1>2, MadeIsNat, BotAssumption DEF CallbackBegins
  <2>2. todo[l] \in Nat
    BY DEF TypeInv, TypeOK, RunTypeOK
  <2> QED
    BY <1>2, <2>1, <2>2 DEF CallbackBegins, CallsTypeOK
<1> QED
  BY <1>1, <1>2
  DEF BotNext, BotRuns, CallbackSends, CallbackEnds, Polls, Answered, Happens, ServerActs

LEMMA LinkHolds == BotSafe => []LinkInv
<1>1. BotInit => LinkInv
  <2> SUFFICES ASSUME BotInit PROVE LinkInv
    OBVIOUS
  <2>1. TypeInv
    BY TypeInit DEF BotInit
  <2>2. CallsTypeOK
    BY BotAssumption DEF BotInit, CallsTypeOK
  <2>3. SP!Init
    BY SameInit DEF BotInit
  <2>4. SP!TypeOK
    BY <2>3, SameAssumption, SP!TypeFromInit DEF SP!TypeFromInit
  <2>5. SP!SendInv
    BY <2>3, SameAssumption, SP!SendInvInit DEF SP!SendInvInit
  <2>6. \A l \in Listeners : Link(l)
    BY DEF BotInit, Init, Each, Link
  <2> QED
    BY <2>1, <2>2, <2>4, <2>5, <2>6 DEF LinkInv
<1>2. LinkInv /\ [BotNext]_botVars => LinkInv'
  <2> SUFFICES ASSUME LinkInv, [BotNext]_botVars PROVE LinkInv'
    OBVIOUS
  <2>1. TypeInv'
    BY PollStep, TypeStep DEF LinkInv
  <2>2. CallsTypeOK'
    BY CallsTypeStep DEF LinkInv
  <2>3. [SP!Next]_SP!vars
    BY CallStep DEF LinkInv
  <2>4. SP!TypeOK'
    BY <2>3, SameAssumption, SP!TypeStep DEF LinkInv, SP!TypeStep
  <2>5. SP!SendInv'
    BY <2>3, SameAssumption, SP!SendInvStep DEF LinkInv, SP!SendInvStep
  <2>6. \A l \in Listeners : Link(l)'
    BY LinkStep
  <2> QED
    BY <2>1, <2>2, <2>4, <2>5, <2>6 DEF LinkInv
<1> QED
  BY <1>1, <1>2, PTL DEF BotSafe

LEMMA BotListens == BotSafe => Safe
<1>1. BotInit => Init
  BY DEF BotInit
<1> QED
  BY <1>1, PollStep, PTL DEF BotSafe, Safe

LEMMA BotSends == BotSafe => SP!Safe
<1>1. BotInit => SP!Init
  BY SameInit DEF BotInit
<1>2. LinkInv /\ [BotNext]_botVars => [SP!Next]_SP!vars
  BY CallStep DEF LinkInv
<1> QED
  BY <1>1, <1>2, LinkHolds, PTL DEF BotSafe, SP!Safe

\* A call that came back is settled: the callbacks of a bot always have something to say.
LEMMA SettledIsReturned ==
  LinkInv => \A c \in BotCalls : Settled(c) <=> phase[c] = "returned"
<1> SUFFICES ASSUME LinkInv, NEW c \in BotCalls PROVE Settled(c) <=> phase[c] = "returned"
  OBVIOUS
<1>1. SP!ReturnedIsDone
  BY SameAssumption, SP!DoneFromInv DEF LinkInv, SP!DoneFromInv
<1>2. answer[c].size # 0
  BY BotAssumption DEF LinkInv, SP!TypeOK
<1> QED
  BY <1>1, <1>2 DEF SP!ReturnedIsDone, SP!Empty, Settled

LEMMA MadeIsCall ==
  ASSUME CallsTypeOK, NEW l \in Listeners, NEW k \in 1..made[l] PROVE <<l, k>> \in BotCalls
<1>1. made[l] \in Nat /\ made[l] <= MaxCalls /\ MaxCalls \in Nat
  BY MadeIsNat, BotAssumption
<1>2. k \in 1..MaxCalls
  BY <1>1
<1> QED
  BY <1>2 DEF BotCalls

LEMMA AckedFromLink == LinkInv /\ AckedWasExecuted => AckedWasAnswered
<1> SUFFICES ASSUME LinkInv, AckedWasExecuted, NEW l \in Listeners, NEW u \in 1..confirmed[l],
                    u \notin missed[l]
             PROVE  \E k \in 1..made[l] : update[<<l, k>>] = u /\ Settled(<<l, k>>)
  BY DEF AckedWasAnswered
<1>1. PICK k \in 1..made[l] : update[<<l, k>>] = u /\ phase[<<l, k>>] = "returned"
  BY DEF AckedWasExecuted, LinkInv, Link
<1> QED
  BY <1>1, SettledIsReturned, MadeIsCall DEF LinkInv

-----------------------------------------------------------------------------
(* The theorems.                                                           *)

\* Every variable of the composition has its type.
THEOREM BotTypeCorrect == BotSafe => []BotTypeOK
<1>1. LinkInv => BotTypeOK
  BY SameTypes DEF LinkInv, TypeInv, CallsTypeOK, BotTypeOK
<1> QED
  BY <1>1, LinkHolds, PTL

\* No answer is lost but that to an update whose own item broke off behind its id in the
\* run that acknowledged it: for every number of bots with inline listeners, of updates,
\* and of pieces an answer is cut into, what else the server was told to forget was
\* answered whole, or its callback was told by an exception that it may not be.
THEOREM NoAnswerLost == ASSUME InlineOnly PROVE BotSafe => []AckedWasAnswered
<1>1. BotSafe => []AckedWasExecuted
  BY BotListens, NoUpdateLost, PTL
<1> QED
  BY <1>1, AckedFromLink, LinkHolds, PTL

\* Answers overtake each other only where the earlier call was given up.
THEOREM InOrder == BotSafe => AnswersInOrder
<1>1. LinkInv /\ [BotNext]_botVars =>
        \A l \in Listeners : \A j, k \in 1..MaxCalls :
          j < k /\ chat[<<l, k>>] # <<>> /\ chat'[<<l, j>>] # chat[<<l, j>>]
            => result[<<l, j>>] = "exception" \/ phase[<<l, j>>] # "returned"
  <2> SUFFICES ASSUME LinkInv, [BotNext]_botVars, NEW l \in Listeners,
                      NEW j \in 1..MaxCalls,
                      chat'[<<l, j>>] # chat[<<l, j>>], phase[<<l, j>>] = "returned"
               PROVE  result[<<l, j>>] = "exception"
    OBVIOUS
  <2> DEFINE c == <<l, j>>
  <2>1. c \in BotCalls
    BY DEF BotCalls
  <2>2. SP!TypeOK /\ SP!SendInv /\ [SP!Next]_SP!vars
    BY CallStep DEF LinkInv
  <2>3. answer[c].size # 0
    BY <2>1, <2>2, BotAssumption DEF SP!TypeOK
  <2> HIDE DEF c
  <2>4. phase[c] = "returned" => (chat'[c] # chat[c] => result[c] = "exception")
    BY <2>1, <2>2, <2>3, ReturnedStays DEF SP!Empty
  <2> QED
    BY <2>4 DEF c
<1> QED
  BY <1>1, LinkHolds, PTL DEF BotSafe, AnswersInOrder

\* Put together, both still do what they promise by themselves: the listener hands each
\* update over once and in order, but for one that reached it broken off behind its id
\* and which it may pass over; and a call that a dying process leaves behind, or that
\* the next process makes, is still a Posting.
THEOREM BotKeepsPromises ==
  ASSUME InlineOnly
  PROVE  BotSafe => ImplementsDelivery /\ ImplementsHandover /\ SP!ImplementsPosting
<1>1. SP!Safe => SP!ImplementsPosting
  BY SameAssumption, SP!CallsArePostings DEF SP!CallsArePostings
<1> QED
  BY <1>1, BotListens, BotSends, ListenerImplementsDelivery, ListenerImplementsHandover, PTL

-----------------------------------------------------------------------------
(* The bot answers as its listener delivers.  Steps are told apart by what  *)
(* is seen of them: whether an update came, one was forgotten, a run ended,  *)
(* or a call came back.                                                    *)

\* A call that was not made yet has done nothing.
Unmade == \A l \in Listeners : \A k \in 1..MaxCalls :
            k > made[l] => phase[<<l, k>>] = "idle"

LEMMA SendsOwn ==
  ASSUME LinkInv, NEW l \in Listeners, CallbackSends(l)
  PROVE  /\ made[l] \in 1..MaxCalls /\ Current(l) \in BotCalls
         /\ UNCHANGED <<vars, made, update>>
         /\ \A d \in BotCalls : d # Current(l) => phase'[d] = phase[d]
<1>1. pc[l] = "callback" /\ UNCHANGED <<vars, made, update>>
  BY DEF CallbackSends, At
<1>2. made[l] # 0 /\ CallsTypeOK /\ SP!TypeOK
  BY <1>1 DEF LinkInv, Link
<1>3. made[l] \in 1..MaxCalls /\ Current(l) \in BotCalls
  BY <1>2, MadeIsNat, BotAssumption
<1>4. SP!Step(Current(l))
  BY <1>3, SameBegin, SameSends DEF CallbackSends, SP!Step
<1>5. \A d \in BotCalls : d # Current(l) => phase'[d] = phase[d]
  BY <1>2, <1>3, <1>4, SameAssumption, SP!OthersAreSame DEF SP!OthersAreSame, SP!Same
<1> QED
  BY <1>1, <1>3, <1>5

LEMMA UnmadeStep == LinkInv /\ Unmade /\ [BotNext]_botVars => Unmade'
<1> SUFFICES ASSUME LinkInv, Unmade, [BotNext]_botVars, NEW l \in Listeners,
                    NEW k \in 1..MaxCalls, k > made'[l]
             PROVE  phase'[<<l, k>>] = "idle"
  BY DEF Unmade
<1>0. CallsTypeOK /\ <<l, k>> \in BotCalls
  BY DEF LinkInv, BotCalls
<1>1. CASE UNCHANGED <<made, phase>>
  BY <1>1 DEF Unmade
<1>2. ASSUME NEW m \in Listeners, CallbackBegins(m) PROVE phase'[<<l, k>>] = "idle"
  <2>1. made[l] \in Nat /\ made'[l] \in {made[l], made[l] + 1} /\ phase' = phase
    BY <1>0, <1>2, MadeIsNat DEF CallbackBegins, CallsTypeOK
  <2>2. k > made[l]
    BY <2>1
  <2> QED
    BY <2>1, <2>2 DEF Unmade
<1>3. ASSUME NEW m \in Listeners, CallbackSends(m) PROVE phase'[<<l, k>>] = "idle"
  <2>1. made' = made /\ k > made[l]
    BY <1>3, SendsOwn
  <2>2. made[l] \in Nat
    BY <1>0, MadeIsNat
  <2>3. <<l, k>> # Current(m)
    BY <2>1, <2>2 DEF Current
  <2> QED
    BY <1>0, <1>3, <2>1, <2>3, SendsOwn DEF Unmade
<1>4. ASSUME NEW c \in BotCalls, ServerActs(c) PROVE phase'[<<l, k>>] = "idle"
  BY <1>4, <1>1 DEF ServerActs, S!Delivers, S!Refuses
<1> QED
  BY <1>1, <1>2, <1>3, <1>4
  DEF BotNext, BotRuns, CallbackEnds, Polls, Answered, Happens

LEMMA UnmadeHolds == BotSafe => []Unmade
<1>1. BotInit => Unmade
  BY DEF BotInit, S!Init, Unmade, BotCalls
<1> QED
  BY <1>1, UnmadeStep, LinkHolds, PTL DEF BotSafe

(* What a step leaves as it was.                                           *)

\* The callback of m is where it was.
SameCallback(m) == /\ pc'[m] = "callback" <=> pc[m] = "callback"
                   /\ pc[m] = "callback" => todo'[m] = todo[m]

\* No call is made, and none comes back.
SameCalls == /\ UNCHANGED <<made, update>>
             /\ \A c \in BotCalls : phase'[c] = "returned" <=> phase[c] = "returned"

LEMMA SameIsSettled ==
  ASSUME LinkInv, LinkInv', SameCalls
  PROVE  /\ \A c \in BotCalls : Settled(c)' <=> Settled(c)
         /\ answered' = answered
<1>0. \A c \in BotCalls : Settled(c) <=> phase[c] = "returned"
  BY SettledIsReturned
<1>d. LinkInv' => (\A c \in BotCalls : Settled(c) <=> phase[c] = "returned")'
  BY SettledIsReturned, PTL
<1>1. ASSUME NEW c \in BotCalls PROVE Settled(c)' <=> Settled(c)
  BY <1>0, <1>d DEF SameCalls
<1>2. ASSUME NEW l \in Listeners
      PROVE  {k \in 1..made[l] : Settled(<<l, k>>)}' = {k \in 1..made[l] : Settled(<<l, k>>)}
  <2>1. \A k \in 1..made[l] : <<l, k>> \in BotCalls
    BY MadeIsCall DEF LinkInv
  <2> QED
    BY <1>1, <2>1 DEF SameCalls
<1>3. answered' = answered
  BY <1>2 DEF answered, SameCalls
<1> QED
  BY <1>1, <1>3

LEMMA SameIsReplied ==
  ASSUME LinkInv, LinkInv', SameCalls, NEW m \in Listeners, SameCallback(m)
  PROVE  Replied(m)' <=> Replied(m)
<1>1. pc[m] = "callback" => Current(m) \in BotCalls
  BY MadeIsNat DEF LinkInv, Link
<1>2. Current(m)' = Current(m)
  BY DEF Current, SameCalls
<1>3. pc[m] = "callback" => (Settled(Current(m))' <=> Settled(Current(m)))
  <2> SUFFICES ASSUME pc[m] = "callback" PROVE Settled(Current(m))' <=> Settled(Current(m))
    OBVIOUS
  <2>1. \A c \in BotCalls : Settled(c)' <=> Settled(c)
    BY SameIsSettled
  <2> QED
    BY <1>1, <1>2, <2>1
<1> QED
  BY <1>3 DEF Replied, SameCallback

LEMMA SameIsAnswered ==
  ASSUME LinkInv, LinkInv', SameCalls, UNCHANGED <<last, count, missed>>,
         \A m \in Listeners : SameCallback(m)
  PROVE  UNCHANGED <<answered, unanswered, lastAnswered, answersInRun>>
<1>1. \A m \in Listeners : Replied(m)' <=> Replied(m)
  BY SameIsReplied
<1>2. \A m \in Listeners : Replied(m) => todo'[m] = todo[m]
  BY DEF Replied, SameCallback
<1>3. lastAnswered' = lastAnswered
  BY <1>1, <1>2 DEF lastAnswered
<1>4. answersInRun' = answersInRun
  BY <1>1 DEF answersInRun
<1>5. unanswered' = unanswered
  BY SameIsSettled DEF unanswered
<1> QED
  BY <1>3, <1>4, <1>5, SameIsSettled

(* What happens outside of the callback is seen as nothing, as an update    *)
(* that comes or is forgotten, or as the end of a run or of all of them.     *)

\* An update that was missed is not in hand again: it lies behind those of this run, or
\* behind those that the server forgot.
MissedIsPast(l) == \A u \in missed[l] : u <= confirmed[l] \/ u <= last[l]

AnswerInv == /\ LinkInv /\ Unmade /\ DeliveryInv
             /\ \A l \in Listeners : MissedIsPast(l)

LEMMA AckedIsAnswered ==
  AnswerInv => \A l \in Listeners : \A u \in 1..confirmed[l] :
                 u \in answered[l] \/ u \in unanswered[l]
<1>1. AnswerInv => AckedWasAnswered
  BY AckedFromLink DEF AnswerInv, DeliveryInv, DeliveryOf, Had, AckedWasExecuted
<1> SUFFICES ASSUME AckedWasAnswered, NEW l \in Listeners, NEW u \in 1..confirmed[l],
                    u \notin missed[l]
             PROVE  u \in answered[l]
  BY <1>1 DEF unanswered
<1>2. PICK k \in 1..made[l] : update[<<l, k>>] = u /\ Settled(<<l, k>>)
  BY DEF AckedWasAnswered
<1> QED
  BY <1>2 DEF answered

Steady == UNCHANGED <<last, count, missed>> /\ \A m \in Listeners : SameCallback(m)

Comes(l) == /\ issued' = [issued EXCEPT ![l] = @ + 1]
            /\ UNCHANGED confirmed

IsForgotten(l) == /\ \E u \in Nat : /\ u >= confirmed[l]
                                    /\ confirmed' = [confirmed EXCEPT ![l] = u]
                  /\ UNCHANGED issued

Outside ==
  \/ Steady /\ UNCHANGED <<issued, confirmed>>
  \/ Steady /\ \E l \in Listeners : Comes(l) \/ IsForgotten(l)
  \/ \E l \in Listeners : LeaveRun(l) /\ pc[l] # "callback"
  \/ \E cause \in {"sigint", "crash", "terminate"} : Die(cause)

LEMMA PollsIsOutside ==
  ASSUME TypeInv, NEW l \in Listeners, num_threads[l] = 1, Polls(l) PROVE Outside
<1>0. /\ pc \in [Listeners -> Locations] /\ todo \in [Listeners -> Nat]
      /\ confirmed \in [Listeners -> Nat] /\ offset \in [Listeners -> Nat]
      /\ Runs(l) /\ pc[l] # "callback" /\ pc'[l] # "callback"
  BY DEF TypeInv, TypeOK, RunTypeOK, ServerTypeOK, Polls
<1> USE <1>0 DEF At, Goto, Steady, SameCallback, Outside
<1>1. CASE \/ ArmGlobal(l) \/ InstallHandler(l) \/ FlagHandler(l)
           \/ SpawnThread(l) \/ LeaveSpawnBlock(l)
  BY <1>1 DEF ArmGlobal, InstallHandler, FlagHandler, SpawnThread, LeaveSpawnBlock
<1>2. CASE \/ TestOwn(l) \/ TestGlobal(l)
           \/ HoldExpires(l) \/ ReplyEmpty(l) \/ ReadTimesOut(l)
  BY <1>2 DEF TestOwn, TestGlobal, HoldExpires, ReplyEmpty, ReadTimesOut
<1>3. CASE SendRequest(l)
  <2> DEFINE u == IF offset[l] - 1 > confirmed[l] THEN offset[l] - 1 ELSE confirmed[l]
  <2>1. /\ confirmed' = [confirmed EXCEPT ![l] = u]
        /\ UNCHANGED <<issued, last, count, missed, todo>>
        /\ pc' = [pc EXCEPT ![l] = "polling"]
    BY <1>3 DEF SendRequest, Confirm
  <2>2. u \in Nat /\ u >= confirmed[l]
    OBVIOUS
  <2> HIDE DEF u
  <2> QED
    BY <2>1, <2>2 DEF IsForgotten
<1>4. CASE ExecuteInline(l) \/ CallbacksReturn(l)
  BY <1>4 DEF ExecuteInline, CallbacksReturn
<1>5. CASE EndOfBatch(l) \/ ItemThrows(l) \/ Fault(l)
  BY <1>5 DEF EndOfBatch, ItemThrows, DropReply, Fault
<1>6. CASE RestoreHandler(l) \/ Unflag(l) \/ StopContext(l)
  BY <1>6 DEF RestoreHandler, Unflag, StopContext
<1>7. CASE Join(l) \/ ItemAborts(l)
  BY <1>7 DEF Join, Unwind, ItemAborts
<1>8. ~ PostToPool(l)
  BY DEF PostToPool
<1> QED
  BY <1>1, <1>2, <1>3, <1>4, <1>5, <1>6, <1>7, <1>8 DEF Runs

LEMMA AnsweredIsOutside ==
  ASSUME TypeInv, NEW l \in Listeners, Answered(l) PROVE Outside
<1>1. /\ pc \in [Listeners -> Locations] /\ todo \in [Listeners -> Nat]
  BY DEF TypeInv, TypeOK, RunTypeOK
<1> QED
  BY <1>1 DEF Answered, ReplyUpdates, Reply, At, Goto, Steady, SameCallback, Outside

LEMMA HappensIsOutside == ASSUME TypeInv, Happens PROVE Outside
<1>0. pc \in [Listeners -> Locations] /\ todo \in [Listeners -> Nat]
  BY DEF TypeInv, TypeOK, RunTypeOK
<1> USE <1>0 DEF At, Goto, Steady, SameCallback, Outside
<1>1. ASSUME NEW l \in Listeners, BotReceives(l) PROVE Outside
  BY <1>1 DEF BotReceives, Publish, Comes
<1>2. ASSUME NEW l \in Listeners, CallRun(l) PROVE Outside
  BY <1>2 DEF CallRun
<1>3. ASSUME NEW l \in Listeners, Fails(l), pc[l] # "callback" PROVE Outside
  <2>1. CASE SpawnFails(l)
    BY <2>1, <1>3 DEF SpawnFails, Unwind
  <2>2. CASE PollFails(l) \/ ReplyNoResult(l)
    BY <2>2 DEF PollFails, ReplyNoResult
  <2>3. CASE ReplyDamaged(l)
    BY <2>3 DEF ReplyDamaged, Reply
  <2> QED
    BY <1>3, <2>1, <2>2, <2>3 DEF Fails, CallbackThrows
<1>4. CASE SigintHandled \/ Handler
  BY <1>4 DEF SigintHandled, Handler, HandlerStops, HandlerRestores, HandlerUnflags
<1>5. CASE SigintKills \/ Crash
  BY <1>5 DEF SigintKills, Crash
<1>6. CASE Restart
  BY <1>6 DEF Restart
<1> QED
  BY <1>1, <1>2, <1>3, <1>4, <1>5, <1>6 DEF Happens

(* What each kind of step is to UpdateDelivery.                            *)

LEMMA OutsideAnswers ==
  ASSUME AnswerInv, AnswerInv', SameCalls, Outside
  PROVE  [Answering!Next]_Answering!vars
<1>0. LinkInv /\ LinkInv' /\ answered' = answered
  BY SameIsSettled DEF AnswerInv
<1>a. AnswerInv' => (\A l \in Listeners : \A u \in 1..confirmed[l] :
                       u \in answered[l] \/ u \in unanswered[l])'
  BY AckedIsAnswered, PTL
<1>1. Steady => UNCHANGED <<answered, unanswered, lastAnswered, answersInRun>>
  BY <1>0, SameIsAnswered DEF Steady
<1>2. CASE Steady /\ UNCHANGED <<issued, confirmed>>
  BY <1>1, <1>2 DEF Answering!vars
<1>3. ASSUME Steady, NEW l \in Listeners, Comes(l) PROVE Answering!Next
  BY <1>1, <1>3 DEF Comes, Answering!Next, Answering!Receive
<1>4. ASSUME Steady, NEW l \in Listeners, IsForgotten(l) PROVE Answering!Next
  <2>1. PICK u \in Nat : u >= confirmed[l] /\ confirmed' = [confirmed EXCEPT ![l] = u]
    BY <1>4 DEF IsForgotten
  <2>2. /\ confirmed \in [Listeners -> Nat] /\ issued \in [Listeners -> 0..MaxUpdate]
        /\ issued' = issued
    BY <1>4 DEF IsForgotten, AnswerInv, DeliveryInv, TypeInv, TypeOK, ServerTypeOK
  <2>3. confirmed'[l] = u /\ confirmed[l] \in Nat /\ issued[l] \in Nat
    BY <2>1, <2>2, TelegramAssumption
  <2>4. confirmed'[l] <= issued'[l]
    BY DEF AnswerInv, DeliveryInv, DeliveryOf
  <2>5. \A v \in 1..confirmed'[l] : v \in answered'[l] \/ v \in unanswered'[l]
    BY <1>a
  <2>6. u \in confirmed[l]..issued[l]
    BY <2>1, <2>2, <2>3, <2>4
  <2>7. (confirmed[l] + 1)..u \subseteq answered[l] \cup unanswered[l]
    <3>1. \A v \in (confirmed[l] + 1)..u : v \in 1..u
      BY <2>3
    <3> QED
      BY <1>1, <1>4, <2>3, <2>5, <3>1
  <2> QED
    BY <1>1, <1>4, <2>1, <2>2, <2>6, <2>7 DEF Answering!Next, Answering!Forget
<1>5. ASSUME NEW B \in SUBSET Listeners, UNCHANGED <<issued, confirmed>>,
             \A m \in Listeners :
               IF m \in B THEN /\ pc'[m] # "callback" /\ last'[m] = 0 /\ count'[m] = 0
                               /\ missed'[m] = Acknowledged(m)
               ELSE /\ SameCallback(m) /\ last'[m] = last[m] /\ count'[m] = count[m]
                    /\ missed'[m] = missed[m]
      PROVE  Answering!Next
  <2>1. \A m \in Listeners : m \in B => ~ Replied(m)'
    BY <1>5 DEF Replied
  <2>2. \A m \in Listeners : m \notin B =>
          (Replied(m)' <=> Replied(m)) /\ (Replied(m) => todo'[m] = todo[m])
    BY <1>0, <1>5, SameIsReplied DEF Replied, SameCallback
  <2>3. lastAnswered' = [m \in Listeners |-> IF m \in B THEN 0 ELSE lastAnswered[m]]
    BY <1>5, <2>1, <2>2 DEF lastAnswered
  <2>4. answersInRun' = [m \in Listeners |-> IF m \in B THEN 0 ELSE answersInRun[m]]
    BY <1>5, <2>1, <2>2 DEF answersInRun
  <2>5. unanswered' = [m \in Listeners |-> IF m \in B THEN unanswered[m] \cap 1..confirmed[m]
                                           ELSE unanswered[m]]
    BY <1>0, <1>5 DEF unanswered, Acknowledged
  <2> QED
    BY <1>0, <1>5, <2>3, <2>4, <2>5 DEF Answering!Next, Answering!NewSession
<1>6. ASSUME NEW l \in Listeners, LeaveRun(l), pc[l] # "callback" PROVE Answering!Next
  <2>1. /\ pc \in [Listeners -> Locations] /\ todo \in [Listeners -> Nat]
        /\ last \in [Listeners -> Nat] /\ count \in [Listeners -> Nat]
        /\ missed \in [Listeners -> SUBSET Nat]
    BY DEF AnswerInv, DeliveryInv, TypeInv, TypeOK, RunTypeOK, HistoryTypeOK
  <2>2. /\ UNCHANGED <<issued, confirmed>>
        /\ \A m \in Listeners :
             IF m \in {l} THEN /\ pc'[m] # "callback" /\ last'[m] = 0 /\ count'[m] = 0
                             /\ missed'[m] = Acknowledged(m)
             ELSE /\ SameCallback(m) /\ last'[m] = last[m] /\ count'[m] = count[m]
                  /\ missed'[m] = missed[m]
    BY <1>6, <2>1 DEF LeaveRun, DropReply, Goto, SameCallback
  <2> QED
    BY <2>2, <1>5
<1>7. ASSUME NEW cause, Die(cause) PROVE Answering!Next
  <2>1. /\ UNCHANGED <<issued, confirmed>>
        /\ \A m \in Listeners :
             IF m \in Listeners THEN /\ pc'[m] # "callback" /\ last'[m] = 0 /\ count'[m] = 0
                                   /\ missed'[m] = Acknowledged(m)
             ELSE /\ SameCallback(m) /\ last'[m] = last[m] /\ count'[m] = count[m]
                  /\ missed'[m] = missed[m]
    BY <1>7 DEF Die, Each
  <2> QED
    BY <2>1, <1>5
<1> QED
  BY <1>2, <1>3, <1>4, <1>6, <1>7 DEF Outside

LEMMA BeginsAnswers ==
  ASSUME AnswerInv, AnswerInv', NEW l \in Listeners, CallbackBegins(l)
  PROVE  UNCHANGED Answering!vars
<1>0. /\ pc \in [Listeners -> Locations] /\ CallsTypeOK /\ LinkInv /\ LinkInv'
      /\ pc[l] = "batch" /\ pc' = [pc EXCEPT ![l] = "callback"]
      /\ UNCHANGED <<issued, confirmed, last, count, missed, todo, phase>>
      /\ made' = [made EXCEPT ![l] = @ + 1]
      /\ update' = [update EXCEPT ![<<l, made[l] + 1>>] = todo[l]]
  BY DEF AnswerInv, LinkInv, TypeInv, TypeOK, RunTypeOK, CallbackBegins, ExecuteInline,
         TakeUpdate, At, Goto
<1>1. /\ made[l] \in Nat /\ made[l] + 1 \in 1..MaxCalls
      /\ phase[<<l, made[l] + 1>>] = "idle"
  <2>1. made[l] \in Nat /\ made[l] < MaxCalls /\ MaxCalls \in Nat
    BY <1>0, MadeIsNat, BotAssumption DEF CallbackBegins
  <2>2. made[l] + 1 \in 1..MaxCalls /\ made[l] + 1 > made[l]
    BY <2>1
  <2> QED
    BY <2>1, <2>2 DEF AnswerInv, Unmade
<1>2. \A c \in BotCalls : (Settled(c)' <=> phase[c] = "returned")
                           /\ (Settled(c) <=> phase[c] = "returned")
  <2>1. LinkInv' => (\A c \in BotCalls : Settled(c) <=> phase[c] = "returned")'
    BY SettledIsReturned, PTL
  <2> QED
    BY <1>0, <2>1, SettledIsReturned
<1>3. \A m \in Listeners : \A k \in 1..made[m] :
        <<m, k>> \in BotCalls /\ <<m, k>> # <<l, made[l] + 1>>
  <2>1. ASSUME NEW m \in Listeners, NEW k \in 1..made[m], <<m, k>> = <<l, made[l] + 1>>
        PROVE  FALSE
    BY <1>1, <2>1
  <2> QED
    BY <1>0, <2>1, MadeIsCall
<1>n. PICK n \in 1..MaxCalls : n = made[l] + 1 /\ <<l, n>> \in BotCalls
  BY <1>1 DEF BotCalls
<1>s. ~ Settled(<<l, n>>)'
  BY <1>1, <1>2, <1>n
<1>4. ASSUME NEW m \in Listeners
      PROVE  {update[<<m, k>>] : k \in {j \in 1..made[m] : Settled(<<m, j>>)}}'
               = {update[<<m, k>>] : k \in {j \in 1..made[m] : Settled(<<m, j>>)}}
  <2>1. ASSUME NEW k \in 1..made[m]
        PROVE  /\ Settled(<<m, k>>)' <=> Settled(<<m, k>>)
               /\ update'[<<m, k>>] = update[<<m, k>>]
    BY <1>0, <1>2, <1>3 DEF CallsTypeOK
  <2>3. made'[m] = IF m = l THEN made[m] + 1 ELSE made[m]
    BY <1>0 DEF CallsTypeOK
  <2>4. 1..n = (1..made[l]) \cup {n}
    BY <1>1, <1>n
  <2>5. CASE m # l
    BY <2>1, <2>3, <2>5
  <2>6. CASE m = l
    <3>1. {j \in 1..made[l] : Settled(<<l, j>>)}' = {j \in 1..made[l] : Settled(<<l, j>>)}
      BY <1>n, <1>s, <2>1, <2>3, <2>4, <2>6
    <3> QED
      BY <2>1, <2>6, <3>1
  <2> QED
    BY <2>5, <2>6
<1>5. answered' = answered
  BY <1>4 DEF answered
<1>6. ASSUME NEW m \in Listeners PROVE Replied(m)' <=> Replied(m)
  <2>1. CASE m = l
    <3>1. ~ Replied(l)
      BY <1>0 DEF Replied
    <3>2. Current(l)' = <<l, n>>
      BY <1>0, <1>n DEF Current, CallsTypeOK
    <3> QED
      BY <1>s, <2>1, <3>1, <3>2 DEF Replied
  <2>2. CASE m # l
    <3>1. pc'[m] = pc[m] /\ made'[m] = made[m]
      BY <1>0, <2>2 DEF CallsTypeOK
    <3>2. pc[m] = "callback" => Current(m) \in BotCalls
      BY <1>0, MadeIsNat DEF LinkInv, Link
    <3>3. Current(m)' = Current(m)
      BY <3>1 DEF Current
    <3> QED
      BY <1>2, <3>1, <3>2, <3>3 DEF Replied
  <2> QED
    BY <2>1, <2>2
<1>7. lastAnswered' = lastAnswered /\ answersInRun' = answersInRun
  BY <1>0, <1>6 DEF lastAnswered, answersInRun
<1>8. unanswered' = unanswered
  BY <1>0, <1>5 DEF unanswered
<1> QED
  BY <1>0, <1>5, <1>7, <1>8 DEF Answering!vars

\* What is in hand with its id was not taken before in this run, nor missed before.
LEMMA InHandIsNew ==
  ASSUME AnswerInv, NEW l \in Listeners, pc[l] = "callback", Identified(l)
  PROVE  /\ todo[l] \in 1..issued[l] /\ todo[l] \in (last[l] + 1)..issued[l]
         /\ todo[l] > confirmed[l] /\ todo[l] \notin missed[l]
<1>1. TypeInv /\ DeliveryOf(l) /\ MissedIsPast(l)
  BY DEF AnswerInv, DeliveryInv
<1>2. last[l] < todo[l] /\ confirmed[l] < todo[l]
  BY <1>1 DEF DeliveryOf
<1>3. todo[l] \in 1..issued[l]
  BY <1>1, InHand
<1>4. /\ issued[l] \in Nat /\ confirmed[l] \in Nat /\ todo[l] \in Nat /\ last[l] \in Nat
  BY <1>1, TelegramAssumption
     DEF TypeInv, TypeOK, ServerTypeOK, RunTypeOK, HistoryTypeOK
<1>5. todo[l] \notin missed[l]
  BY <1>1, <1>2, <1>4 DEF MissedIsPast
<1> QED
  BY <1>2, <1>3, <1>4, <1>5

\* A call that comes back answers the update that its callback was called with.
LEMMA SendsAnswers ==
  ASSUME AnswerInv, AnswerInv', NEW l \in Listeners, CallbackSends(l)
  PROVE  [Answering!Next]_Answering!vars
<1>2. LinkInv' => (\A c \in BotCalls : Settled(c) <=> phase[c] = "returned")'
  BY SettledIsReturned, PTL
<1>c. PICK c \in BotCalls : c = Current(l)
  BY SendsOwn DEF AnswerInv
<1>0. /\ LinkInv /\ LinkInv' /\ DeliveryInv /\ pc[l] = "callback" /\ Identified(l)
      /\ made[l] \in 1..MaxCalls
      /\ UNCHANGED <<pc, todo, last, count, missed, issued, confirmed, made, update>>
      /\ \A d \in BotCalls : d # c => phase'[d] = phase[d]
  BY <1>c, SendsOwn DEF AnswerInv, CallbackSends, At
<1>1. \A d \in BotCalls : Settled(d) <=> phase[d] = "returned"
  BY <1>0, SettledIsReturned
<1>3. phase[c] # "returned"
  <2>1. SP!Begin(c) \/ SP!Sends(c)
    BY <1>c, SameBegin, SameSends DEF CallbackSends
  <2> QED
    BY <2>1 DEF SP!Begin, SP!Sends, SP!Split, SP!Serialise, SP!Post, SP!NoConnection,
                SP!NoAnswer, SP!Refused, SP!AnswerNoObject, SP!Answer, SP!NextPiece,
                SP!Return
<1>4. CASE phase'[c] # "returned"
  <2>1. SameCalls
    BY <1>0, <1>3, <1>4 DEF SameCalls
  <2>2. \A m \in Listeners : SameCallback(m)
    BY <1>0 DEF SameCallback
  <2> QED
    BY <1>0, <2>1, <2>2, SameIsAnswered DEF Answering!vars
<1>5. CASE phase'[c] = "returned"
  <2>1. /\ ~ Settled(c) /\ Settled(c)'
        /\ \A d \in BotCalls : d # c => (Settled(d)' <=> Settled(d))
    BY <1>0, <1>1, <1>2, <1>3, <1>5
  <2>2. update[c] = todo[l] /\ c = <<l, made[l]>>
    BY <1>0, <1>c DEF LinkInv, Link, Current
  <2>3. \A m \in Listeners : \A k \in 1..made[m] : <<m, k>> \in BotCalls
    BY <1>0, MadeIsCall DEF LinkInv
  <2>4. made[l] \in 1..made[l]
    BY <1>0
  <2>5. ASSUME NEW m \in Listeners
        PROVE  answered'[m] = IF m = l THEN answered[m] \cup {todo[l]} ELSE answered[m]
    <3>1. CASE m # l
      BY <1>0, <2>1, <2>2, <2>3, <3>1 DEF answered
    <3>2. CASE m = l
      <4>1. \A k \in 1..made[l] : k # made[l] => (Settled(<<l, k>>)' <=> Settled(<<l, k>>))
        BY <2>1, <2>2, <2>3
      <4>2. \A k \in 1..made[l] : k = made[l] => Settled(<<l, k>>)' /\ update[<<l, k>>] = todo[l]
        BY <2>1, <2>2
      <4>3. \A k \in 1..made[l] : k = made[l] => ~ Settled(<<l, k>>)
        BY <2>1, <2>2
      <4> QED
        BY <1>0, <2>4, <3>2, <4>1, <4>2, <4>3 DEF answered
    <3> QED
      BY <3>1, <3>2
  <2>6. answered' = [answered EXCEPT ![l] = @ \cup {todo[l]}]
    BY <2>5 DEF answered
  <2>7. \A m \in Listeners : Replied(m)' <=> (Replied(m) \/ m = l)
    <3>1. Replied(l)' /\ Current(l) = c
      BY <1>0, <2>1, <2>2 DEF Replied, Current
    <3>2. ASSUME NEW m \in Listeners, m # l PROVE Replied(m)' <=> Replied(m)
      <4>1. Current(m)' = Current(m) /\ Current(m) # c
        BY <1>0, <2>2, <3>2 DEF Current
      <4>2. pc[m] = "callback" => Current(m) \in BotCalls
        BY <1>0, MadeIsNat DEF LinkInv, Link
      <4> QED
        BY <1>0, <2>1, <4>1, <4>2 DEF Replied
    <3> QED
      BY <3>1, <3>2
  <2>8. ~ Replied(l)
    BY <2>1, <2>2 DEF Replied, Current
  <2>9. /\ lastAnswered' = [lastAnswered EXCEPT ![l] = todo[l]]
        /\ answersInRun' = [answersInRun EXCEPT ![l] = @ + 1]
    BY <1>0, <2>7, <2>8 DEF lastAnswered, answersInRun
  <2>10. lastAnswered[l] = last[l]
    BY <2>8 DEF lastAnswered
  <2>11. unanswered' = unanswered
    <3>1. todo[l] \notin missed[l]
      BY <1>0, InHandIsNew
    <3> QED
      BY <1>0, <2>5, <3>1 DEF unanswered
  <2>12. /\ todo[l] \in 1..issued[l] /\ todo[l] \in (lastAnswered[l] + 1)..issued[l]
         /\ todo[l] > confirmed[l]
    BY <1>0, <2>10, InHandIsNew
  <2> QED
    BY <1>0, <2>6, <2>9, <2>11, <2>12 DEF Answering!Next, Answering!Execute, Answering!Take
<1> QED
  BY <1>4, <1>5

\* The callback of an item is left: it has answered, and that was seen when its call came
\* back; or it was not called, so that an item with its id was missed.
LEMMA EndsAnswers ==
  ASSUME AnswerInv, AnswerInv', NEW l \in Listeners, CallbackEnds(l)
  PROVE  [Answering!Next]_Answering!vars
<1>1. /\ pc \in [Listeners -> Locations] /\ todo \in [Listeners -> Nat]
      /\ last \in [Listeners -> Nat] /\ count \in [Listeners -> Nat]
      /\ missed \in [Listeners -> SUBSET Nat]
      /\ LinkInv /\ LinkInv'
  BY DEF AnswerInv, LinkInv, TypeInv, TypeOK, RunTypeOK, HistoryTypeOK
<1>2. /\ pc[l] = "callback" /\ pc' = [pc EXCEPT ![l] = "batch"]
      /\ ItemDone(l)
      /\ UNCHANGED <<issued, confirmed, made, update, phase>>
      /\ \/ Identified(l) /\ phase[Current(l)] = "returned"
         \/ ~Whole(l) /\ phase[Current(l)] = "idle"
  BY DEF CallbackEnds, CallbacksReturn, At, Goto
<1>3. SameCalls
  BY <1>2 DEF SameCalls
<1>4. answered' = answered
  BY <1>1, <1>3, SameIsSettled
<1>5. /\ Replied(l) <=> phase[Current(l)] = "returned"
      /\ ~ Replied(l)'
  <2>1. Current(l) \in BotCalls
    BY <1>1, <1>2, MadeIsNat DEF LinkInv, Link
  <2> QED
    BY <1>1, <1>2, <2>1, SettledIsReturned DEF Replied
<1>6. \A m \in Listeners : m # l => (Replied(m)' <=> Replied(m)) /\ todo'[m] = todo[m]
  BY <1>1, <1>2, <1>3, SameIsReplied DEF SameCallback, ItemDone
<1>7. executed[l] \subseteq answered[l]
  <2> SUFFICES ASSUME NEW u \in executed[l] PROVE u \in answered[l]
    OBVIOUS
  <2>1. PICK k \in 1..made[l] : update[<<l, k>>] = u /\ phase[<<l, k>>] = "returned"
    BY <1>1 DEF LinkInv, Link
  <2>2. Settled(<<l, k>>)
    BY <1>1, <2>1, SettledIsReturned, MadeIsCall DEF LinkInv
  <2> QED
    BY <2>1, <2>2 DEF answered
<1>8. CASE ~ Identified(l)
  <2>1. ~ Replied(l) /\ UNCHANGED <<last, count, missed>>
    BY <1>1, <1>2, <1>5, <1>8 DEF ItemDone
  <2>2. lastAnswered' = lastAnswered /\ answersInRun' = answersInRun
    BY <1>5, <1>6, <2>1 DEF lastAnswered, answersInRun
  <2>3. unanswered' = unanswered
    BY <1>4, <2>1 DEF unanswered
  <2> QED
    BY <1>2, <1>4, <2>2, <2>3 DEF Answering!vars
<1>9. CASE Identified(l)
  <2>1. /\ last' = [last EXCEPT ![l] = todo[l]] /\ count' = [count EXCEPT ![l] = @ + 1]
        /\ missed' = [missed EXCEPT ![l] =
                        IF ~Whole(l) THEN @ \cup ({todo[l]} \ executed[l]) ELSE @]
    BY <1>2, <1>9 DEF ItemDone
  <2>2. CASE Replied(l)
    <3>1. lastAnswered' = lastAnswered /\ answersInRun' = answersInRun
      BY <1>1, <1>5, <1>6, <2>1, <2>2 DEF lastAnswered, answersInRun
    <3>2. todo[l] \in answered[l]
      <4>1. update[Current(l)] = todo[l] /\ made[l] \in 1..made[l]
        <5>1. made[l] # 0 /\ update[Current(l)] = todo[l] /\ CallsTypeOK
          BY <1>1, <1>2 DEF LinkInv, Link
        <5>2. made[l] \in Nat
          BY <5>1, MadeIsNat
        <5> QED
          BY <5>1, <5>2
      <4> QED
        BY <2>2, <4>1 DEF answered, Replied, Current
    <3>3. unanswered' = unanswered
      BY <1>1, <1>4, <2>1, <3>2 DEF unanswered
    <3> QED
      BY <1>2, <1>4, <3>1, <3>3 DEF Answering!vars
  <2>3. CASE ~ Replied(l)
    <3>1. ~ Whole(l)
      BY <1>2, <1>5, <2>3
    <3>2. lastAnswered[l] = last[l]
      BY <2>3 DEF lastAnswered
    <3>3. /\ lastAnswered' = [lastAnswered EXCEPT ![l] = todo[l]]
          /\ answersInRun' = [answersInRun EXCEPT ![l] = @ + 1]
      BY <1>1, <1>5, <1>6, <2>1, <2>3 DEF lastAnswered, answersInRun
    <3>4. unanswered' = [unanswered EXCEPT ![l] = @ \cup ({todo[l]} \ answered[l])]
      <4> SUFFICES ASSUME NEW m \in Listeners
                   PROVE  missed'[m] \ answered[m]
                            = IF m = l THEN unanswered[m] \cup ({todo[l]} \ answered[m])
                              ELSE unanswered[m]
        BY <1>4 DEF unanswered
      <4> QED
        BY <1>1, <1>7, <2>1, <3>1 DEF unanswered
    <3>5. /\ todo[l] \in 1..issued[l] /\ todo[l] \in (lastAnswered[l] + 1)..issued[l]
          /\ todo[l] > confirmed[l]
      BY <1>2, <1>9, <3>2, InHandIsNew
    <3> QED
      BY <1>2, <1>4, <3>3, <3>4, <3>5 DEF Answering!Next, Answering!Miss, Answering!Take
  <2> QED
    BY <2>2, <2>3
<1> QED
  BY <1>8, <1>9

LEMMA MissedStep ==
  ASSUME TypeInv, DeliveryInv, InlineOnly, [BotNext]_botVars, NEW m \in Listeners,
         MissedIsPast(m)
  PROVE  MissedIsPast(m)'
<1>0. /\ TypeInv /\ \A l \in Listeners : num_threads[l] = 1
      /\ confirmed[m] \in Nat /\ last[m] \in Nat /\ todo[m] \in Nat /\ missed[m] \subseteq Nat
      /\ confirmed \in [Listeners -> Nat] /\ last \in [Listeners -> Nat]
      /\ missed \in [Listeners -> SUBSET Nat]
  BY DEF DeliveryInv, DeliveryOf, TypeInv, TypeOK, ServerTypeOK, RunTypeOK, HistoryTypeOK
<1>1. CASE UNCHANGED vars
  BY <1>1 DEF MissedIsPast
<1>2. CASE Outside
  <2>1. CASE UNCHANGED <<last, confirmed, missed>>
    BY <2>1 DEF MissedIsPast
  <2>2. ASSUME UNCHANGED <<last, missed>>, NEW l \in Listeners, IsForgotten(l)
        PROVE  MissedIsPast(m)'
    <3>1. PICK u \in Nat : u >= confirmed[l] /\ confirmed' = [confirmed EXCEPT ![l] = u]
      BY <2>2 DEF IsForgotten
    <3>2. confirmed'[m] \in Nat /\ confirmed'[m] >= confirmed[m]
      BY <1>0, <3>1
    <3> QED
      BY <1>0, <2>2, <3>2 DEF MissedIsPast
  <2>3. ASSUME confirmed' = confirmed, missed'[m] = Acknowledged(m) PROVE MissedIsPast(m)'
    BY <1>0, <2>3 DEF MissedIsPast, Acknowledged
  <2>4. ASSUME NEW l \in Listeners, LeaveRun(l) PROVE MissedIsPast(m)'
    <3>1. /\ confirmed' = confirmed
          /\ IF m = l THEN missed'[m] = Acknowledged(m)
             ELSE missed'[m] = missed[m] /\ last'[m] = last[m]
      BY <1>0, <2>4 DEF LeaveRun
    <3> QED
      BY <2>3, <3>1 DEF MissedIsPast
  <2>5. ASSUME NEW cause, Die(cause) PROVE MissedIsPast(m)'
    BY <2>3, <2>5 DEF Die
  <2> QED
    BY <1>2, <2>1, <2>2, <2>4, <2>5 DEF Outside, Steady, Comes
<1>3. ASSUME NEW l \in Listeners, BotRuns(l) \/ Answered(l) PROVE MissedIsPast(m)'
  <2>1. CASE CallbackBegins(l) \/ CallbackSends(l)
    BY <2>1 DEF CallbackBegins, ExecuteInline, TakeUpdate, CallbackSends, MissedIsPast
  <2>2. CASE CallbackEnds(l)
    <3>1. /\ pc[l] = "callback" /\ ItemDone(l) /\ confirmed' = confirmed
      BY <2>2 DEF CallbackEnds, CallbacksReturn, At
    <3>2. CASE m # l \/ ~Identified(l)
      <4>1. last'[m] = last[m] /\ missed'[m] = missed[m]
        BY <1>0, <3>1, <3>2 DEF ItemDone
      <4> QED
        BY <3>1, <4>1 DEF MissedIsPast
    <3>3. CASE m = l /\ Identified(l)
      <4>1. last'[m] = todo[m] /\ \A u \in missed'[m] : u \in missed[m] \/ u = todo[m]
        BY <1>0, <3>1, <3>3 DEF ItemDone
      <4>2. last[m] < todo[m]
        BY <3>1, <3>3 DEF DeliveryInv, DeliveryOf
      <4> QED
        BY <1>0, <3>1, <4>1, <4>2 DEF MissedIsPast
    <3> QED
      BY <3>2, <3>3
  <2> QED
    BY <1>0, <1>2, <1>3, <2>1, <2>2, PollsIsOutside, AnsweredIsOutside DEF BotRuns
<1>4. ASSUME NEW c \in BotCalls, ServerActs(c) PROVE MissedIsPast(m)'
  BY <1>1, <1>4 DEF ServerActs
<1> QED
  BY <1>0, <1>1, <1>2, <1>3, <1>4, HappensIsOutside DEF BotNext

LEMMA AnswersStep ==
  ASSUME AnswerInv, AnswerInv', InlineOnly, [BotNext]_botVars
  PROVE  [Answering!Next]_Answering!vars
<1>0. TypeInv /\ \A l \in Listeners : num_threads[l] = 1
  BY DEF AnswerInv, DeliveryInv, DeliveryOf
<1>1. ASSUME UNCHANGED <<vars, made, update, phase>> PROVE [Answering!Next]_Answering!vars
  <2>1. SameCalls /\ Outside
    BY <1>1 DEF SameCalls, Outside, Steady, SameCallback
  <2> QED
    BY <2>1, OutsideAnswers
<1>2. ASSUME NEW l \in Listeners, BotRuns(l) \/ Answered(l)
      PROVE  [Answering!Next]_Answering!vars
  <2>1. CASE Polls(l) \/ Answered(l)
    <3>1. SameCalls
      BY <2>1 DEF Polls, Answered, SameCalls
    <3> QED
      BY <1>0, <2>1, <3>1, PollsIsOutside, AnsweredIsOutside, OutsideAnswers
  <2> QED
    BY <1>2, <2>1, BeginsAnswers, SendsAnswers, EndsAnswers DEF BotRuns
<1>3. CASE Happens
  <2>1. SameCalls
    BY <1>3 DEF Happens, SameCalls
  <2> QED
    BY <1>0, <1>3, <2>1, HappensIsOutside, OutsideAnswers
<1>4. ASSUME NEW c \in BotCalls, ServerActs(c) PROVE [Answering!Next]_Answering!vars
  BY <1>1, <1>4 DEF ServerActs, S!Delivers, S!Refuses
<1> QED
  BY <1>1, <1>2, <1>3, <1>4 DEF BotNext

\* From end to end: a bot with inline listeners answers its updates in the order of their
\* coming and none twice in a run, and has the server forget none whose answer is not
\* settled but one that reached it, in that run, broken off behind its id; however often
\* polls and requests fail and the process dies.
THEOREM BotAnswers == ASSUME InlineOnly PROVE BotSafe => ImplementsAnswering
<1>1. BotInit => Answering!Init
  <2> SUFFICES ASSUME BotInit PROVE Answering!Init
    OBVIOUS
  <2>1. /\ pc = Each("idle") /\ last = Each(0) /\ count = Each(0) /\ made = Each(0)
        /\ issued = Each(0) /\ confirmed = Each(0)
    BY DEF BotInit, Init, ServerInit, Each
  <2>2. lastAnswered = Each(0) /\ answersInRun = Each(0)
    BY <2>1 DEF lastAnswered, answersInRun, Replied, Each
  <2>3. answered = Each({})
    BY <2>1 DEF answered, Each
  <2>4. unanswered = Each({})
    BY <2>3 DEF BotInit, Init, Each, unanswered
  <2> QED
    BY <2>1, <2>2, <2>3, <2>4 DEF Answering!Init, Each
<1>2. BotSafe => []AnswerInv
  <2>1. Safe => []DeliveryInv
    BY DeliveryInit, DeliveryStep, PTL DEF Safe
  <2> DEFINE Past == \A l \in Listeners : MissedIsPast(l)
  <2>2. BotInit => Past
    BY DEF BotInit, Init, Each, MissedIsPast
  <2>3. LinkInv /\ DeliveryInv /\ Past /\ [BotNext]_botVars => Past'
    BY MissedStep DEF LinkInv
  <2>4. BotSafe => []Past
    BY <2>1, <2>2, <2>3, LinkHolds, BotListens, PTL DEF BotSafe
  <2> QED
    BY <2>1, <2>4, LinkHolds, UnmadeHolds, BotListens, PTL DEF AnswerInv
<1>3. AnswerInv /\ AnswerInv' /\ [BotNext]_botVars => [Answering!Next]_Answering!vars
  BY AnswersStep
<1> QED
  BY <1>1, <1>2, <1>3, PTL DEF BotSafe, ImplementsAnswering, Answering!Spec
=============================================================================
