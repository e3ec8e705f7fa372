------------------------- MODULE PollDeliveryProofs -------------------------
(***************************************************************************)
(* A listener that executes inline loses no update and implements          *)
(* UpdateDelivery: for any number of such listeners, of updates and of      *)
(* updates in a reply, with every fault, crash and restart of the model.   *)
(***************************************************************************)
EXTENDS PollListenerProofs

USE DEF server, reply, pool, flags, handlers, signals, outcome, seen, asked, marks,
        history, process, vars

\* Every thread count the program asks for comes out as 1.
InlineOnly == \A n \in ThreadRequests : Resolve(n) = 1

\* The updates that the callbacks have had, or have missed: of all of them the listener
\* is done.
Had(l) == executed[l] \cup missed[l]

(* What the server was told to forget is had, and so is what it will be    *)
(* told with the next offset, except the update whose callbacks are         *)
(* running: its offset is advanced before they are called.  The rest says   *)
(* where a reply lies: after what was taken in this run and after what      *)
(* the server forgot, and within what the bot received, where the item that *)
(* is broken off is one of those and the next behind the whole ones.        *)
DeliveryOf(l) ==
  /\ num_threads[l] = 1 /\ threads[l] = <<>> /\ pc[l] # "spawn"
  /\ confirmed[l] <= issued[l] /\ offset[l] <= issued[l] + 1
  /\ \A u \in 1..confirmed[l] : u \in Had(l)
  /\ \A u \in 1..(offset[l] - 1) :
       u \in Had(l) \/ (pc[l] = "callback" /\ Identified(l) /\ u = todo[l])
  /\ pc[l] \in {"batch", "callback"} =>
       /\ \A u \in 1..(todo[l] - 1) : u \in Had(l)
       /\ last[l] < todo[l] /\ confirmed[l] < todo[l] /\ upto[l] <= issued[l]
       /\ tail[l] # "none" => upto[l] < issued[l] /\ todo[l] <= upto[l] + 1
  /\ pc[l] = "callback" /\ Identified(l) => todo[l] < offset[l]
  /\ pc[l] = "polling" => offset[l] <= confirmed[l] + 1
  /\ last[l] = 0 \/ last[l] < offset[l]
  /\ pc[l] \in {"idle", "arm", "install", "flag"} => last[l] = 0

DeliveryInv == TypeInv /\ \A l \in Listeners : DeliveryOf(l)

LEMMA DeliveryInit == ASSUME InlineOnly PROVE Init => DeliveryInv
<1> SUFFICES ASSUME Init, NEW l \in Listeners PROVE DeliveryOf(l)
  BY TypeInit DEF DeliveryInv
<1> QED
  BY InlineOnly DEF InlineOnly, Init, ServerInit, Each, DeliveryOf

(* The item in hand is one that the bot received, if line 90 reads its id. *)
LEMMA InHand ==
  ASSUME TypeInv, NEW l \in Listeners, DeliveryOf(l), pc[l] \in {"batch", "callback"},
         Identified(l)
  PROVE  todo[l] \in 1..issued[l]
<1>1. /\ issued[l] \in 0..MaxUpdate /\ todo[l] \in Nat /\ upto[l] \in Nat
      /\ confirmed[l] \in Nat
  BY DEF TypeInv, TypeOK, ServerTypeOK, RunTypeOK
<1>2. /\ confirmed[l] < todo[l] /\ upto[l] <= issued[l]
      /\ tail[l] # "none" => upto[l] < issued[l] /\ todo[l] <= upto[l] + 1
  BY DEF DeliveryOf
<1>3. todo[l] <= upto[l] \/ tail[l] = "id"
  BY DEF Identified, Whole
<1> QED
  BY <1>1, <1>2, <1>3, TelegramAssumption

(* A reply holds no more than the server has.                              *)
LEMMA ReplyFits ==
  ASSUME TypeInv, NEW l \in Listeners, DeliveryOf(l)
  PROVE  /\ issued[l] - confirmed[l] \in Nat
         /\ ReplySize(l) \in 0..(issued[l] - confirmed[l])
<1>1. issued[l] \in Nat /\ confirmed[l] \in Nat
  <2>1. issued[l] \in 0..MaxUpdate /\ confirmed[l] \in Nat
    BY DEF TypeInv, TypeOK, ServerTypeOK
  <2> QED
    BY <2>1, TelegramAssumption
<1>2. confirmed[l] <= issued[l]
  BY DEF DeliveryOf
<1>3. issued[l] - confirmed[l] \in Nat
  BY <1>1, <1>2
<1> DEFINE held == issued[l] - confirmed[l]
<1>4. ReplySize(l) = IF held <= Limit THEN held ELSE Limit
  BY DEF ReplySize
<1>5. Limit \in Nat
  BY TelegramAssumption
<1> HIDE DEF held
<1>6. held \in Nat => ReplySize(l) \in 0..held
  BY <1>4, <1>5
<1> QED
  BY <1>3, <1>6 DEF held

(* The offset moves past the update and never back.                        *)
LEMMA NextOffsetMoves ==
  ASSUME NEW u \in Nat, NEW old \in Nat
  PROVE  /\ NextOffset(u, old) \in Nat
         /\ u < NextOffset(u, old) /\ old <= NextOffset(u, old)
         /\ NextOffset(u, old) = u + 1 \/ NextOffset(u, old) = old
BY DEF NextOffset

(* A reply of n updates leaves its reader where DeliveryOf says.           *)
LEMMA DeliveryReply ==
  ASSUME TypeInv, NEW l \in Listeners, NEW m \in Listeners,
         DeliveryOf(l), DeliveryOf(m),
         NEW n \in 0..(issued[l] - confirmed[l]), NEW rest \in Tails,
         rest # "none" => n < issued[l] - confirmed[l], Reply(l, n, rest)
  PROVE  DeliveryOf(m)'
<1>0. ServerTypeOK /\ RunTypeOK /\ last \in [Listeners -> Nat]
  BY DEF TypeInv, TypeOK, HistoryTypeOK
<1>1. CASE m # l
  BY <1>0, <1>1 DEF RunTypeOK, Reply, Goto, DeliveryOf, Had, Identified, Whole
<1>2. CASE m = l
  <2>1. /\ pc[l] = "polling" /\ pc'[l] = "batch"
        /\ todo'[l] = confirmed[l] + 1 /\ upto'[l] = confirmed[l] + n
        /\ tail'[l] = rest
        /\ UNCHANGED <<issued, confirmed, offset, num_threads, threads, executed, missed,
                       last>>
    BY <1>0 DEF RunTypeOK, Reply, At, Goto
  <2>2. /\ confirmed[l] \in Nat /\ issued[l] \in Nat /\ offset[l] \in Nat
        /\ last[l] \in Nat /\ confirmed[l] + n <= issued[l] /\ last[l] <= confirmed[l]
        /\ rest # "none" => confirmed[l] + n < issued[l]
    <3>1. issued[l] \in 0..MaxUpdate
      BY <1>0 DEF ServerTypeOK
    <3>2. confirmed[l] \in Nat /\ offset[l] \in Nat /\ last[l] \in Nat
      BY <1>0 DEF ServerTypeOK, RunTypeOK
    <3>3. /\ offset[l] <= confirmed[l] + 1 /\ confirmed[l] <= issued[l]
          /\ last[l] = 0 \/ last[l] < offset[l]
      BY <2>1 DEF DeliveryOf
    <3> QED
      BY <3>1, <3>2, <3>3, TelegramAssumption
  <2>3. /\ \A u \in 1..confirmed[l] : u \in Had(l)
        /\ \A u \in 1..(offset[l] - 1) : u \in Had(l)
    BY <2>1 DEF DeliveryOf
  <2>4. (confirmed[l] + 1) - 1 = confirmed[l] /\ Had(l)' = Had(l)
    BY <2>1, <2>2 DEF Had
  <2>5. \A u \in 1..(todo'[l] - 1) : u \in Had(l)'
    BY <2>1, <2>3, <2>4
  <2>6. /\ last'[l] < todo'[l] /\ confirmed'[l] < todo'[l] /\ upto'[l] <= issued'[l]
        /\ tail'[l] # "none" => upto'[l] < issued'[l] /\ todo'[l] <= upto'[l] + 1
    BY <2>1, <2>2
  <2>7. /\ num_threads'[l] = 1 /\ threads'[l] = <<>>
        /\ confirmed'[l] <= issued'[l] /\ offset'[l] <= issued'[l] + 1
        /\ \A u \in 1..confirmed'[l] : u \in Had(l)'
        /\ \A u \in 1..(offset'[l] - 1) : u \in Had(l)'
        /\ last'[l] = 0 \/ last'[l] < offset'[l]
    BY <2>1, <2>3, <2>4 DEF DeliveryOf
  <2> QED
    BY <1>2, <2>1, <2>5, <2>6, <2>7 DEF DeliveryOf
<1> QED
  BY <1>1, <1>2

(* So does the end of the run.                                             *)
LEMMA DeliveryLeaves ==
  ASSUME TypeInv, NEW l \in Listeners, NEW m \in Listeners, DeliveryOf(m), LeaveRun(l)
  PROVE  DeliveryOf(m)'
<1>0. ServerTypeOK /\ RunTypeOK /\ last \in [Listeners -> Nat]
      /\ threads \in [Listeners -> Seq({"running", "returned"})]
      /\ missed \in [Listeners -> SUBSET Nat]
  BY DEF TypeInv, TypeOK, PoolTypeOK, HistoryTypeOK
<1>1. CASE m # l
  BY <1>0, <1>1
     DEF RunTypeOK, LeaveRun, DropReply, Goto, DeliveryOf, Had, Identified, Whole
<1>2. CASE m = l
  <2>1. /\ pc'[m] = "idle" /\ offset'[m] = 0 /\ threads'[m] = <<>> /\ last'[m] = 0
        /\ missed'[m] = Acknowledged(m)
        /\ UNCHANGED <<issued, confirmed, num_threads, executed>>
    BY <1>0, <1>2 DEF RunTypeOK, LeaveRun, Goto
  <2>2. /\ num_threads[m] = 1 /\ confirmed[m] <= issued[m]
        /\ \A u \in 1..confirmed'[m] : u \in Had(m)'
    BY <2>1 DEF DeliveryOf, Had, Acknowledged
  <2>3. issued[m] \in Nat /\ 1..(0 - 1) = {}
    BY <1>0, TelegramAssumption DEF ServerTypeOK
  <2> QED
    BY <2>1, <2>2, <2>3 DEF DeliveryOf
<1> QED
  BY <1>1, <1>2

(* And so does the end of the process.                                     *)
LEMMA DeliveryDies ==
  ASSUME TypeInv, InlineOnly, NEW m \in Listeners, DeliveryOf(m), NEW cause, Die(cause)
  PROVE  DeliveryOf(m)'
<1>1. /\ pc'[m] = "idle" /\ offset'[m] = 0 /\ threads'[m] = <<>> /\ last'[m] = 0
      /\ num_threads'[m] = 1 /\ missed'[m] = Acknowledged(m)
      /\ UNCHANGED <<issued, confirmed, executed>>
  BY DEF Die, Each, InlineOnly
<1>2. /\ confirmed[m] <= issued[m]
      /\ \A u \in 1..confirmed'[m] : u \in Had(m)'
  BY <1>1 DEF DeliveryOf, Had, Acknowledged
<1>3. issued[m] \in Nat /\ 1..(0 - 1) = {}
  BY TelegramAssumption DEF TypeInv, TypeOK, ServerTypeOK
<1> QED
  BY <1>1, <1>2, <1>3 DEF DeliveryOf

(* A step of l, seen at any listener m, itself included.                   *)
LEMMA DeliveryListener ==
  ASSUME TypeInv, InlineOnly,
         NEW l \in Listeners, NEW m \in Listeners, DeliveryOf(l), DeliveryOf(m),
         BotReceives(l) \/ CallRun(l) \/ SetNumThreads(l) \/ Stop(l)
           \/ Runs(l) \/ ReplyUpdates(l) \/ Worker(l) \/ Fails(l)
  PROVE  DeliveryOf(m)'
<1>0. /\ ServerTypeOK /\ RunTypeOK
      /\ threads \in [Listeners -> Seq({"running", "returned"})]
      /\ executed \in [Listeners -> SUBSET Nat] /\ last \in [Listeners -> Nat]
      /\ missed \in [Listeners -> SUBSET Nat]
  BY DEF TypeInv, TypeOK, PoolTypeOK, HistoryTypeOK
<1> USE <1>0 DEF ServerTypeOK, RunTypeOK, At, Goto, Had, Identified, Whole
<1>32. ASSUME Unwind(l, <<>>) PROVE DeliveryOf(m)'
  BY <1>32, DeliveryLeaves DEF Unwind
<1>1. CASE BotReceives(l)
  <2>1. /\ issued'[m] = issued[m] \/ issued'[m] = issued[m] + 1
        /\ UNCHANGED <<pc, confirmed, offset, todo, upto, tail, num_threads, threads,
                       executed, missed, last>>
    BY <1>1 DEF BotReceives, Publish
  <2>2. /\ issued[m] \in Nat /\ confirmed[m] \in Nat /\ offset[m] \in Nat
        /\ upto[m] \in Nat
    BY TelegramAssumption
  <2>4. /\ confirmed[m] <= issued[m] /\ offset[m] <= issued[m] + 1
        /\ pc[m] \in {"batch", "callback"} =>
             upto[m] <= issued[m] /\ (tail[m] # "none" => upto[m] < issued[m])
    BY DEF DeliveryOf
  <2>3. /\ confirmed[m] <= issued'[m] /\ offset[m] <= issued'[m] + 1
        /\ pc[m] \in {"batch", "callback"} =>
             upto[m] <= issued'[m] /\ (tail[m] # "none" => upto[m] < issued'[m])
    <3> HIDE <1>0 DEF ServerTypeOK, RunTypeOK
    <3> QED
      BY <2>1, <2>2, <2>4
  <2> HIDE <1>0 DEF ServerTypeOK, RunTypeOK
  <2> QED
    BY <2>1, <2>3 DEF DeliveryOf
<1>2. CASE CallRun(l)
  BY <1>2 DEF CallRun, DeliveryOf
<1>3. CASE SetNumThreads(l)
  BY <1>3, InlineOnly DEF SetNumThreads, InlineOnly, DeliveryOf
<1>4. CASE Stop(l)
  BY <1>4 DEF Stop, DeliveryOf
<1>5. CASE ArmGlobal(l)
  BY <1>5 DEF ArmGlobal, DeliveryOf
<1>6. CASE InstallHandler(l)
  BY <1>6 DEF InstallHandler, DeliveryOf
<1>7. CASE FlagHandler(l)
  <2>1. CASE m # l
    BY <1>7, <2>1 DEF FlagHandler, DeliveryOf
  <2>2. CASE m = l
    <3>1. /\ pc[l] = "flag" /\ pc'[l] = "head" /\ offset'[l] = 0
          /\ UNCHANGED <<issued, confirmed, num_threads, threads, executed, missed, last>>
      BY <1>7 DEF FlagHandler, DeliveryOf
    <3>2. /\ issued[l] \in Nat /\ 1..(0 - 1) = {}
          /\ last[l] = 0 /\ num_threads[l] = 1 /\ threads[l] = <<>>
          /\ confirmed[l] <= issued[l] /\ \A u \in 1..confirmed[l] : u \in Had(l)
      BY <3>1, TelegramAssumption DEF DeliveryOf
    <3> QED
      BY <2>2, <3>1, <3>2 DEF DeliveryOf
  <2> QED
    BY <2>1, <2>2
<1>8. CASE SpawnThread(l)
  BY <1>8 DEF SpawnThread, DeliveryOf
<1>9. CASE LeaveSpawnBlock(l)
  BY <1>9 DEF LeaveSpawnBlock, DeliveryOf
<1>10. CASE TestOwn(l)
  BY <1>10 DEF TestOwn, DeliveryOf
<1>11. CASE TestGlobal(l)
  BY <1>11 DEF TestGlobal, DeliveryOf
<1>12. CASE SendRequest(l)
  <2>1. CASE m # l
    BY <1>12, <2>1 DEF SendRequest, Confirm, DeliveryOf
  <2>2. CASE m = l
    <3>1. /\ pc[l] = "send" /\ pc'[l] = "polling"
          /\ confirmed'[l] =
               IF offset[l] - 1 > confirmed[l] THEN offset[l] - 1 ELSE confirmed[l]
          /\ UNCHANGED <<issued, offset, num_threads, threads, executed, missed, last>>
      BY <1>12 DEF SendRequest, Confirm
    <3>2. issued[l] \in Nat /\ confirmed[l] \in Nat /\ offset[l] \in Nat
      BY TelegramAssumption
    <3>3. /\ num_threads[l] = 1 /\ threads[l] = <<>>
          /\ confirmed[l] <= issued[l] /\ offset[l] <= issued[l] + 1
          /\ \A u \in 1..confirmed[l] : u \in Had(l)
          /\ \A u \in 1..(offset[l] - 1) : u \in Had(l)
          /\ last[l] = 0 \/ last[l] < offset[l]
      BY <3>1 DEF DeliveryOf
    <3> HIDE <1>0 DEF ServerTypeOK, RunTypeOK
    <3>4. confirmed'[l] <= issued[l] /\ offset[l] <= confirmed'[l] + 1
      BY <3>1, <3>2, <3>3
    <3>5. \A u \in 1..confirmed'[l] : u \in Had(l)
      BY <3>1, <3>3
    <3> QED
      BY <2>2, <3>1, <3>3, <3>4, <3>5 DEF DeliveryOf
  <2> QED
    BY <2>1, <2>2
<1>13. CASE HoldExpires(l)
  BY <1>13 DEF HoldExpires, DeliveryOf
<1>14. CASE ReplyEmpty(l)
  BY <1>14 DEF ReplyEmpty, DeliveryOf
<1>15. CASE ReadTimesOut(l)
  BY <1>15 DEF ReadTimesOut, Excuse, DeliveryOf
<1>16. CASE ExecuteInline(l)
  <2>1. CASE m # l
    BY <1>16, <2>1 DEF ExecuteInline, TakeUpdate, DeliveryOf
  <2>2. CASE m = l
    <3>0. PICK update_id \in UpdateIds(l) :
            offset' = [offset EXCEPT ![l] = NextOffset(update_id, @)]
      BY <1>16 DEF ExecuteInline, TakeUpdate
    <3> DEFINE next == NextOffset(update_id, offset[l])
    <3>1. /\ pc[l] = "batch" /\ pc'[l] = "callback" /\ offset'[l] = next
          /\ UNCHANGED <<issued, confirmed, todo, upto, tail, num_threads, threads,
                         executed, missed, last>>
      BY <1>16, <3>0 DEF ExecuteInline, TakeUpdate
    <3>2. /\ issued[l] \in Nat /\ todo[l] \in Nat /\ upto[l] \in Nat
          /\ offset[l] \in Nat /\ last[l] \in Nat
      BY TelegramAssumption
    <3>3. /\ upto[l] <= issued[l] /\ last[l] < todo[l] /\ offset[l] <= issued[l] + 1
          /\ \A u \in 1..(todo[l] - 1) : u \in Had(l)
          /\ \A u \in 1..(offset[l] - 1) : u \in Had(l)
          /\ tail[l] # "none" => upto[l] < issued[l] /\ todo[l] <= upto[l] + 1
          /\ last[l] = 0 \/ last[l] < offset[l]
      BY <3>1 DEF DeliveryOf
    <3>7. num_threads[l] = 1 /\ threads[l] = <<>> /\ confirmed[l] <= issued[l]
          /\ \A u \in 1..confirmed[l] : u \in Had(l)
          /\ confirmed[l] < todo[l]
      BY <3>1 DEF DeliveryOf
    <3>8. /\ IF Identified(l) THEN update_id = todo[l] ELSE update_id \in 1..(todo[l] - 1)
          /\ update_id <= issued[l]
      <4>1. IF Identified(l) THEN update_id = todo[l] ELSE update_id \in 1..(todo[l] - 1)
        BY DEF UpdateIds
      <4>2. ~Identified(l) => todo[l] <= issued[l]
        <5>1. ~Identified(l) => tail[l] = "digits"
          BY DEF UpdateIds
        <5> QED
          BY <5>1, <3>2, <3>3
      <4>3. Identified(l) => todo[l] <= issued[l]
        BY <3>1, <3>2, InHand
      <4> QED
        BY <3>2, <4>1, <4>2, <4>3
    <3>6. /\ update_id \in Nat /\ next \in Nat
          /\ update_id < next /\ offset[l] <= next
          /\ next = update_id + 1 \/ next = offset[l]
      <4>1. update_id \in Nat
        BY <3>2, <3>8
      <4> QED
        BY <3>2, <4>1, NextOffsetMoves
    <3> HIDE <1>0 DEF next, ServerTypeOK, RunTypeOK
    <3>4. next <= issued[l] + 1 /\ (last[l] = 0 \/ last[l] < next)
      BY <3>1, <3>2, <3>3, <3>6, <3>8
    <3>5. \A u \in 1..(next - 1) : u \in Had(l) \/ (Identified(l) /\ u = todo[l])
      <4> SUFFICES ASSUME NEW u \in 1..(next - 1), ~(Identified(l) /\ u = todo[l])
                   PROVE  u \in Had(l)
        OBVIOUS
      <4>1. u \in 1..(todo[l] - 1) \/ u \in 1..(offset[l] - 1)
        <5> HIDE DEF Identified
        <5> QED
          BY <3>2, <3>6, <3>8
      <4> QED
        BY <4>1, <3>3
    <3>9. Identified(l) => todo[l] < next
      BY <3>6, <3>8
    <3>10. Had(l)' = Had(l) /\ Identified(l)' = Identified(l)
      BY <3>1
    <3> HIDE DEF Had, Identified
    <3> QED
      BY <2>2, <3>1, <3>3, <3>4, <3>5, <3>6, <3>7, <3>9, <3>10 DEF DeliveryOf
  <2> QED
    BY <2>1, <2>2
<1>17. CASE PostToPool(l)
  BY <1>17 DEF PostToPool, TakeUpdate, NextOffset, DeliveryOf
<1>18. CASE CallbacksReturn(l)
  <2>1. CASE m # l
    BY <1>18, <2>1 DEF CallbacksReturn, ItemDone, DeliveryOf
  <2>2. CASE m = l
    <3>1. /\ pc[l] = "callback" /\ pc'[l] = "batch"
          /\ tail'[l] = IF Whole(l) THEN tail[l] ELSE "none"
          /\ todo'[l] = IF Identified(l) THEN todo[l] + 1 ELSE todo[l]
          /\ last'[l] = IF Identified(l) THEN todo[l] ELSE last[l]
          /\ Had(l)' = IF Identified(l) THEN Had(l) \cup {todo[l]} ELSE Had(l)
          /\ UNCHANGED <<issued, confirmed, offset, upto, num_threads, threads>>
      BY <1>18 DEF CallbacksReturn, ItemDone
    <3>2. /\ num_threads[l] = 1 /\ threads[l] = <<>> /\ upto[l] <= issued[l]
          /\ confirmed[l] <= issued[l] /\ offset[l] <= issued[l] + 1
          /\ confirmed[l] < todo[l] /\ last[l] < todo[l]
          /\ \A u \in 1..(todo[l] - 1) : u \in Had(l)
          /\ \A u \in 1..confirmed[l] : u \in Had(l)
          /\ \A u \in 1..(offset[l] - 1) : u \in Had(l) \/ (Identified(l) /\ u = todo[l])
          /\ Identified(l) => todo[l] < offset[l]
          /\ last[l] = 0 \/ last[l] < offset[l]
          /\ tail[l] # "none" => upto[l] < issued[l] /\ todo[l] <= upto[l] + 1
      BY <3>1 DEF DeliveryOf
    <3>3. /\ todo[l] \in Nat /\ confirmed[l] \in Nat /\ last[l] \in Nat
          /\ upto[l] \in Nat
      OBVIOUS
    <3>4. tail'[l] # "none" => tail[l] # "none" /\ todo[l] <= upto[l]
      BY <3>1
    <3> HIDE <1>0 DEF ServerTypeOK, RunTypeOK, Had, Identified, Whole
    <3>5. tail'[l] # "none" => upto'[l] < issued'[l] /\ todo'[l] <= upto'[l] + 1
      BY <3>1, <3>2, <3>3, <3>4
    <3>6. \A u \in 1..(todo'[l] - 1) : u \in Had(l)'
      <4>1. CASE Identified(l)
        <5>1. \A u \in 1..todo[l] : u = todo[l] \/ u \in 1..(todo[l] - 1)
          BY <3>3
        <5>2. todo'[l] - 1 = todo[l]
          BY <3>1, <3>3, <4>1
        <5> QED
          BY <3>1, <3>2, <4>1, <5>1, <5>2
      <4>2. CASE ~Identified(l)
        BY <3>1, <3>2, <4>2
      <4> QED
        BY <4>1, <4>2
    <3>7. /\ last'[l] < todo'[l] /\ confirmed'[l] < todo'[l]
          /\ last'[l] = 0 \/ last'[l] < offset'[l]
      BY <3>1, <3>2, <3>3
    <3>8. /\ \A u \in 1..confirmed'[l] : u \in Had(l)'
          /\ \A u \in 1..(offset'[l] - 1) : u \in Had(l)'
      BY <3>1, <3>2
    <3> QED
      BY <2>2, <3>1, <3>2, <3>5, <3>6, <3>7, <3>8 DEF DeliveryOf
  <2> QED
    BY <2>1, <2>2
<1>19. CASE EndOfBatch(l)
  BY <1>19 DEF EndOfBatch, DropReply, DeliveryOf
<1>20. CASE Fault(l)
  BY <1>20 DEF Fault, ClearGlobal, DeliveryOf
<1>21. CASE RestoreHandler(l)
  BY <1>21 DEF RestoreHandler, DeliveryOf
<1>22. CASE Unflag(l)
  BY <1>22 DEF Unflag, DeliveryOf
<1>23. CASE StopContext(l)
  BY <1>23 DEF StopContext, DeliveryOf
<1>24. CASE Join(l)
  BY <1>24, <1>32 DEF Join, DeliveryOf
<1>25. CASE ReplyUpdates(l)
  <2>1. ReplySize(l) \in 0..(issued[l] - confirmed[l])
    BY ReplyFits
  <2>2. Reply(l, ReplySize(l), "none") /\ "none" \in Tails
    BY <1>25 DEF ReplyUpdates, Tails
  <2> QED
    BY <2>1, <2>2, DeliveryReply
<1>26. CASE Worker(l)
  BY <1>26 DEF Worker, WorkerRuns, DeliveryOf
<1>27. CASE SpawnFails(l)
  BY <1>27 DEF SpawnFails, DeliveryOf
<1>28. CASE PollFails(l)
  BY <1>28 DEF PollFails, Excuse, DeliveryOf
<1>29. CASE ReplyDamaged(l)
  <2>1. PICK n \in 0..(ReplySize(l) - 1), rest \in Tails : Reply(l, n, rest)
    BY <1>29 DEF ReplyDamaged
  <2>2. n \in 0..(issued[l] - confirmed[l]) /\ n < issued[l] - confirmed[l]
    <3> DEFINE held == issued[l] - confirmed[l]
    <3>1. held \in Nat /\ ReplySize(l) \in 0..held /\ n \in 0..(ReplySize(l) - 1)
      BY <2>1, ReplyFits
    <3> HIDE <1>0 DEF held
    <3>2. n \in 0..held /\ n < held
      BY <3>1
    <3> QED
      BY <3>2 DEF held
  <2> QED
    BY <2>1, <2>2, DeliveryReply
<1>30. CASE ReplyNoResult(l)
  BY <1>30 DEF ReplyNoResult, DeliveryOf
<1>31. CASE CallbackThrows(l)
  BY <1>31, <1>32 DEF CallbackThrows, DeliveryOf
<1>33. CASE ItemThrows(l)
  BY <1>33 DEF ItemThrows, DropReply, Excuse, DeliveryOf
<1>34. CASE ItemAborts(l)
  BY <1>34, InlineOnly, DeliveryDies DEF ItemAborts
<1> QED
  BY <1>1, <1>2, <1>3, <1>4, <1>5, <1>6, <1>7, <1>8, <1>9, <1>10, <1>11,
     <1>12, <1>13, <1>14, <1>15, <1>16, <1>17, <1>18, <1>19, <1>20, <1>21,
     <1>22, <1>23, <1>24, <1>25, <1>26, <1>27, <1>28, <1>29, <1>30, <1>31,
     <1>33, <1>34
     DEF Runs, Fails

LEMMA DeliveryStep ==
  ASSUME InlineOnly PROVE DeliveryInv /\ [Next]_vars => DeliveryInv'
<1> SUFFICES ASSUME DeliveryInv, [Next]_vars, NEW m \in Listeners PROVE DeliveryOf(m)'
  BY TypeStep DEF DeliveryInv
<1>0. TypeInv /\ DeliveryOf(m)
  BY DEF DeliveryInv
<1> USE DEF Had, Identified, Whole
<1>1. ASSUME NEW l \in Listeners,
             BotReceives(l) \/ CallRun(l) \/ SetNumThreads(l) \/ Stop(l)
               \/ Runs(l) \/ ReplyUpdates(l) \/ Worker(l) \/ Fails(l)
      PROVE  DeliveryOf(m)'
  BY <1>1, <1>0, DeliveryListener DEF DeliveryInv
<1>2. CASE StopAll
  BY <1>2, <1>0 DEF StopAll, ClearGlobal, Excuse, DeliveryOf
<1>3. CASE SigintHandled
  BY <1>3, <1>0 DEF SigintHandled, Disarm, DeliveryOf
<1>4. CASE SigintKills
  BY <1>4, <1>0, InlineOnly, DeliveryDies DEF SigintKills
<1>5. CASE HandlerStops
  BY <1>5, <1>0 DEF HandlerStops, ClearGlobal, Excuse, DeliveryOf
<1>6. CASE HandlerRestores
  BY <1>6, <1>0 DEF HandlerRestores, DeliveryOf
<1>7. CASE HandlerUnflags
  BY <1>7, <1>0 DEF HandlerUnflags, DeliveryOf
<1>8. CASE Crash
  BY <1>8, <1>0, InlineOnly, DeliveryDies DEF Crash
<1>9. CASE Restart
  BY <1>9, <1>0 DEF Restart, DeliveryOf
<1>10. CASE UNCHANGED vars
  BY <1>10, <1>0 DEF DeliveryOf
<1>11. CASE SetSignalHandler
  BY <1>11, <1>0 DEF SetSignalHandler, DeliveryOf
<1>12. CASE UnsetSignalHandler
  BY <1>12, <1>0 DEF UnsetSignalHandler, Disarm, DeliveryOf
<1>13. CASE SetFlag
  BY <1>13, <1>0 DEF SetFlag, DeliveryOf
<1> QED
  BY <1>1, <1>2, <1>3, <1>4, <1>5, <1>6, <1>7, <1>8, <1>9, <1>10, <1>11, <1>12, <1>13
     DEF Next, Handler

\* No update is lost but one whose own item breaks off behind its id: the server is told
\* to forget only what was executed, or what the run that acknowledged it has got in such
\* an item; for every number of inline listeners, of updates and of updates in a reply.
THEOREM NoUpdateLost == ASSUME InlineOnly PROVE Safe => []AckedWasExecuted
<1>1. Safe => []DeliveryInv
  BY DeliveryInit, DeliveryStep, PTL DEF Safe
<1>2. DeliveryInv => AckedWasExecuted
  BY DEF DeliveryInv, DeliveryOf, Had, AckedWasExecuted
<1> QED
  BY <1>1, <1>2, PTL

-----------------------------------------------------------------------------
(* The refinement: what each step is to UpdateDelivery.                    *)

LEMMA EndsSession ==
  ASSUME TypeInv, NEW l \in Listeners, LeaveRun(l) PROVE Delivery!NewSession
<1>1. /\ last \in [Listeners -> Nat] /\ count \in [Listeners -> Nat]
      /\ missed \in [Listeners -> SUBSET Nat]
  BY DEF TypeInv, TypeOK, HistoryTypeOK
<1>2. /\ last' = [b \in Listeners |-> IF b \in {l} THEN 0 ELSE last[b]]
      /\ count' = [b \in Listeners |-> IF b \in {l} THEN 0 ELSE count[b]]
      /\ missed' = [b \in Listeners |->
                      IF b \in {l} THEN missed[b] \cap 1..confirmed[b] ELSE missed[b]]
  BY <1>1 DEF LeaveRun, Acknowledged
<1>3. UNCHANGED <<issued, confirmed, executed>>
  BY DEF LeaveRun
<1> QED
  BY <1>2, <1>3 DEF Delivery!NewSession

LEMMA EndsSessions ==
  ASSUME NEW cause, Die(cause) PROVE Delivery!NewSession
<1>1. /\ last' = [b \in Listeners |-> IF b \in Listeners THEN 0 ELSE last[b]]
      /\ count' = [b \in Listeners |-> IF b \in Listeners THEN 0 ELSE count[b]]
      /\ missed' = [b \in Listeners |->
                      IF b \in Listeners THEN missed[b] \cap 1..confirmed[b] ELSE missed[b]]
  BY DEF Die, Each, Acknowledged
<1> QED
  BY <1>1 DEF Die, Delivery!NewSession

LEMMA MapsListener ==
  ASSUME DeliveryInv, InlineOnly, NEW l \in Listeners,
         BotReceives(l) \/ CallRun(l) \/ SetNumThreads(l) \/ Stop(l)
           \/ Runs(l) \/ ReplyUpdates(l) \/ Worker(l) \/ Fails(l)
  PROVE  [Delivery!Next]_Delivery!vars
<1>0. /\ TypeInv /\ DeliveryOf(l)
      /\ ServerTypeOK /\ RunTypeOK
      /\ executed \in [Listeners -> SUBSET Nat] /\ last \in [Listeners -> Nat]
      /\ missed \in [Listeners -> SUBSET Nat]
  BY DEF DeliveryInv, TypeInv, TypeOK, HistoryTypeOK
<1>1. CASE BotReceives(l)
  BY <1>1 DEF BotReceives, Publish, Delivery!Next, Delivery!Receive
<1>2. CASE SendRequest(l)
  <2> DEFINE u == IF offset[l] - 1 > confirmed[l] THEN offset[l] - 1 ELSE confirmed[l]
  <2>1. /\ confirmed' = [confirmed EXCEPT ![l] = u]
        /\ UNCHANGED <<issued, executed, missed, last, count>> /\ pc[l] = "send"
    BY <1>0, <1>2 DEF SendRequest, Confirm, At
  <2>2. /\ issued[l] \in 0..MaxUpdate /\ confirmed[l] \in Nat /\ offset[l] \in Nat
        /\ confirmed[l] <= issued[l] /\ offset[l] <= issued[l] + 1
        /\ \A v \in 1..confirmed[l] : v \in executed[l] \cup missed[l]
        /\ \A v \in 1..(offset[l] - 1) : v \in executed[l] \cup missed[l]
    BY <1>0, <2>1 DEF ServerTypeOK, RunTypeOK, DeliveryOf, Had
  <2>3. u \in confirmed[l]..issued[l]
    BY <2>2, TelegramAssumption
  <2>4. (confirmed[l] + 1)..u \subseteq executed[l] \cup missed[l]
    BY <2>2
  <2> HIDE DEF u
  <2> QED
    BY <2>1, <2>3, <2>4 DEF Delivery!Next, Delivery!Forget
<1>3. CASE CallbacksReturn(l)
  <2>1. UNCHANGED <<issued, confirmed>> /\ pc[l] = "callback"
    BY <1>3 DEF CallbacksReturn, At
  <2>2. CASE ~Identified(l)
    <3>1. UNCHANGED <<last, count>>
      BY <1>3, <2>2 DEF CallbacksReturn, ItemDone
    <3>2. UNCHANGED <<executed, missed>>
      BY <1>0, <1>3, <2>2 DEF CallbacksReturn, ItemDone, Identified
    <3> QED
      BY <2>1, <3>1, <3>2 DEF Delivery!vars
  <2>3. CASE Identified(l)
    <3>1. /\ last' = [last EXCEPT ![l] = todo[l]]
          /\ count' = [count EXCEPT ![l] = @ + 1]
      BY <1>3, <2>3 DEF CallbacksReturn, ItemDone
    <3>2. /\ todo[l] \in 1..issued[l] /\ todo[l] \in (last[l] + 1)..issued[l]
          /\ todo[l] > confirmed[l]
      <4>1. /\ last[l] < todo[l] /\ confirmed[l] < todo[l] /\ todo[l] \in 1..issued[l]
        BY <1>0, <2>1, <2>3, InHand DEF DeliveryOf
      <4>2. /\ issued[l] \in 0..MaxUpdate /\ confirmed[l] \in Nat /\ last[l] \in Nat
        BY <1>0 DEF ServerTypeOK, RunTypeOK
      <4> QED
        BY <4>1, <4>2, TelegramAssumption
    <3>3. Delivery!Take(l, todo[l])
      BY <2>1, <3>1, <3>2 DEF Delivery!Take
    <3>4. CASE Whole(l)
      <4>1. executed' = [executed EXCEPT ![l] = @ \cup {todo[l]}] /\ missed' = missed
        BY <1>0, <1>3, <3>4 DEF CallbacksReturn, ItemDone
      <4> QED
        BY <3>2, <3>3, <4>1 DEF Delivery!Next, Delivery!Execute
    <3>5. CASE ~Whole(l)
      <4>1. /\ missed' = [missed EXCEPT ![l] = @ \cup ({todo[l]} \ executed[l])]
            /\ executed' = executed
        BY <1>0, <1>3, <2>3, <3>5 DEF CallbacksReturn, ItemDone
      <4> QED
        BY <3>2, <3>3, <4>1 DEF Delivery!Next, Delivery!Miss
    <3> QED
      BY <3>4, <3>5
  <2> QED
    BY <2>2, <2>3
<1>4. ASSUME NEW unjoined, Unwind(l, unjoined) PROVE Delivery!NewSession
  BY <1>0, <1>4, EndsSession, EndsSessions DEF Unwind
<1>5. CASE Join(l) \/ SpawnFails(l) \/ CallbackThrows(l)
  BY <1>4, <1>5 DEF Join, SpawnFails, CallbackThrows, Delivery!Next
<1>6. CASE Worker(l)
  BY <1>0, <1>6 DEF Worker, WorkerRuns, DeliveryOf
<1>7. CASE ReplyUpdates(l) \/ ReplyDamaged(l)
  BY <1>7 DEF ReplyUpdates, ReplyDamaged, Reply, Delivery!vars
<1>8. CASE ExecuteInline(l) \/ EndOfBatch(l) \/ ItemThrows(l)
  BY <1>8 DEF ExecuteInline, EndOfBatch, ItemThrows, Delivery!vars
<1>14. CASE ItemAborts(l)
  BY <1>14, EndsSessions DEF ItemAborts, Delivery!Next
<1>13. ~ PostToPool(l)
  BY <1>0 DEF PostToPool, DeliveryOf
<1>9. CASE CallRun(l) \/ SetNumThreads(l) \/ Stop(l) \/ Fault(l)
  BY <1>9 DEF CallRun, SetNumThreads, Stop, Fault, Delivery!vars
<1>10. CASE \/ ArmGlobal(l) \/ InstallHandler(l) \/ FlagHandler(l)
            \/ SpawnThread(l) \/ LeaveSpawnBlock(l)
  BY <1>10 DEF ArmGlobal, InstallHandler, FlagHandler, SpawnThread, LeaveSpawnBlock,
               Delivery!vars
<1>11. CASE \/ TestOwn(l) \/ TestGlobal(l) \/ HoldExpires(l) \/ ReplyEmpty(l)
            \/ ReadTimesOut(l) \/ PollFails(l) \/ ReplyNoResult(l)
  BY <1>11 DEF TestOwn, TestGlobal, HoldExpires, ReplyEmpty, ReadTimesOut, PollFails,
               ReplyNoResult, Delivery!vars
<1>12. CASE RestoreHandler(l) \/ Unflag(l) \/ StopContext(l)
  BY <1>12 DEF RestoreHandler, Unflag, StopContext, Delivery!vars
<1> QED
  BY <1>1, <1>2, <1>3, <1>5, <1>6, <1>7, <1>8, <1>9, <1>10, <1>11, <1>12, <1>13,
     <1>14
     DEF Runs, Fails, Delivery!Next

LEMMA MapsStep ==
  ASSUME DeliveryInv, InlineOnly, [Next]_vars
  PROVE  [Delivery!Next]_Delivery!vars
<1>1. ASSUME NEW l \in Listeners,
             BotReceives(l) \/ CallRun(l) \/ SetNumThreads(l) \/ Stop(l)
               \/ Runs(l) \/ ReplyUpdates(l) \/ Worker(l) \/ Fails(l)
      PROVE  [Delivery!Next]_Delivery!vars
  BY <1>1, MapsListener
<1>2. CASE StopAll \/ SigintHandled \/ Handler
  BY <1>2 DEF StopAll, SigintHandled, Handler, HandlerStops, HandlerRestores,
              HandlerUnflags, Delivery!vars
<1>5. CASE SetSignalHandler \/ UnsetSignalHandler \/ SetFlag
  BY <1>5 DEF SetSignalHandler, UnsetSignalHandler, SetFlag, Delivery!vars
<1>3. CASE SigintKills \/ Crash
  BY <1>3, EndsSessions DEF SigintKills, Crash, Delivery!Next
<1>4. CASE Restart \/ UNCHANGED vars
  BY <1>4 DEF Restart, Delivery!vars
<1> QED
  BY <1>1, <1>2, <1>3, <1>4, <1>5 DEF Next

\* A listener whose callbacks run inline is an UpdateDelivery: in order and at most once
\* in a run, and forgotten by the server only when executed, or when the run that
\* acknowledged it had got its item broken off behind the id; through every failure.
THEOREM ListenerImplementsDelivery == ASSUME InlineOnly PROVE Safe => ImplementsDelivery
<1>1. Init => Delivery!Init
  BY DEF Init, ServerInit, Each, Delivery!Init
<1>2. DeliveryInv /\ [Next]_vars => [Delivery!Next]_Delivery!vars
  BY MapsStep
<1>3. Safe => []DeliveryInv
  BY DeliveryInit, DeliveryStep, PTL DEF Safe
<1> QED
  BY <1>1, <1>2, <1>3, PTL DEF Safe, ImplementsDelivery, Delivery!Spec

-----------------------------------------------------------------------------
(* Updates are handed over without a gap, inline or with a pool.           *)

Early == {"idle", "arm", "install", "flag"}

\* What a reply begins with.
NextDue(l) == (IF last[l] = 0 THEN confirmed[l] ELSE last[l]) + 1

(* The server has forgotten nothing that this run has not taken, and a      *)
(* request that is under way has told it of all of that.  The offset is one *)
(* past what was taken, except while a callback runs: it is one past its     *)
(* update then.  When nothing was taken it is no further than what the      *)
(* server has forgotten; an id of which some digits are missing moves it     *)
(* there from 0, and no further.                                           *)
HandoverOf(l) ==
  /\ confirmed[l] <= issued[l] /\ last[l] <= issued[l]
  /\ last[l] # 0 => confirmed[l] <= last[l]
  /\ pc[l] \in Early => last[l] = 0
  /\ IF pc[l] = "callback" /\ Identified(l) THEN offset[l] = todo[l] + 1
     ELSE IF last[l] = 0 THEN offset[l] <= confirmed[l] + 1 ELSE offset[l] = last[l] + 1
  /\ pc[l] = "polling" => last[l] \in {0, confirmed[l]}
  /\ pc[l] \in {"batch", "callback"} =>
       /\ todo[l] = NextDue(l) /\ upto[l] <= issued[l]
       /\ tail[l] # "none" => upto[l] < issued[l] /\ todo[l] <= upto[l] + 1

HandoverInv == TypeInv /\ \A l \in Listeners : HandoverOf(l)

LEMMA HandoverInit == Init => HandoverInv
<1> SUFFICES ASSUME Init, NEW l \in Listeners PROVE HandoverOf(l)
  BY TypeInit DEF HandoverInv
<1> QED
  BY DEF Init, ServerInit, Each, HandoverOf

\* A step of any other kind than those that take updates.
Calm(m) ==
  /\ issued[m] <= issued'[m]
  /\ confirmed'[m] = confirmed[m] /\ offset'[m] = offset[m] /\ last'[m] = last[m]
  /\ \/ UNCHANGED <<pc[m], todo[m], upto[m], tail[m]>>
     \/ /\ pc[m] # "callback" /\ pc'[m] \notin {"polling", "batch", "callback"}
        /\ pc'[m] \in Early => pc[m] \in Early

LEMMA HandoverTypes ==
  ASSUME TypeInv, NEW m \in Listeners
  PROVE  /\ issued[m] \in Nat /\ confirmed[m] \in Nat /\ offset[m] \in Nat
         /\ todo[m] \in Nat /\ upto[m] \in Nat /\ last[m] \in Nat
BY TelegramAssumption DEF TypeInv, TypeOK, ServerTypeOK, RunTypeOK, HistoryTypeOK

LEMMA CalmKeeps ==
  ASSUME TypeInv, TypeInv', NEW m \in Listeners, HandoverOf(m), Calm(m)
  PROVE  HandoverOf(m)'
<1>1. /\ issued[m] \in Nat /\ confirmed[m] \in Nat /\ upto[m] \in Nat /\ last[m] \in Nat
  BY HandoverTypes
<1>2. issued'[m] \in Nat
  BY TelegramAssumption DEF TypeInv, TypeOK, ServerTypeOK
<1> QED
  BY <1>1, <1>2 DEF Calm, HandoverOf, NextDue, Early, Identified, Whole

LEMMA CalmWithout ==
  ASSUME TypeInv, NEW m \in Listeners,
         UNCHANGED <<server, offset, todo, upto, tail, last>>, pc'[m] = pc[m]
  PROVE  Calm(m)
BY HandoverTypes DEF Calm

\* The end of a run of l, and of all of them.
LEMMA HandoverLeaves ==
  ASSUME TypeInv, NEW l \in Listeners, NEW m \in Listeners, HandoverOf(m), LeaveRun(l)
  PROVE  HandoverOf(m)'
<1>0. RunTypeOK /\ last \in [Listeners -> Nat]
  BY DEF TypeInv, TypeOK, HistoryTypeOK
<1>1. issued[m] \in Nat /\ confirmed[m] \in Nat
  BY HandoverTypes
<1>2. CASE m # l
  BY <1>0, <1>2
     DEF RunTypeOK, LeaveRun, DropReply, Goto, HandoverOf, NextDue, Identified, Whole
<1>3. CASE m = l
  <2>1. /\ pc'[m] = "idle" /\ offset'[m] = 0 /\ last'[m] = 0
        /\ UNCHANGED <<issued, confirmed>>
    BY <1>0, <1>3 DEF RunTypeOK, LeaveRun, Goto
  <2> QED
    BY <1>1, <2>1 DEF HandoverOf
<1> QED
  BY <1>2, <1>3

LEMMA HandoverDies ==
  ASSUME TypeInv, NEW m \in Listeners, HandoverOf(m), NEW cause, Die(cause)
  PROVE  HandoverOf(m)'
<1>1. issued[m] \in Nat /\ confirmed[m] \in Nat
  BY HandoverTypes
<1> QED
  BY <1>1 DEF Die, Each, HandoverOf

LEMMA HandoverUnwinds ==
  ASSUME TypeInv, NEW l \in Listeners, NEW m \in Listeners, HandoverOf(m),
         NEW unjoined, Unwind(l, unjoined)
  PROVE  HandoverOf(m)'
BY HandoverLeaves, HandoverDies DEF Unwind

(* A reply begins with the update that is due.                             *)
LEMMA HandoverReply ==
  ASSUME TypeInv, NEW l \in Listeners, HandoverOf(l),
         NEW n \in 0..ReplySize(l), NEW rest \in Tails,
         rest # "none" => n < ReplySize(l), Reply(l, n, rest)
  PROVE  HandoverOf(l)'
<1>1. /\ issued[l] \in Nat /\ confirmed[l] \in Nat /\ last[l] \in Nat
  BY HandoverTypes
<1>2. /\ pc[l] = "polling" /\ pc'[l] = "batch"
      /\ todo'[l] = confirmed[l] + 1 /\ upto'[l] = confirmed[l] + n /\ tail'[l] = rest
      /\ UNCHANGED <<issued, confirmed, offset, last>>
  BY DEF TypeInv, TypeOK, RunTypeOK, Reply, At, Goto
<1>3. /\ confirmed[l] <= issued[l] /\ last[l] <= issued[l]
      /\ last[l] \in {0, confirmed[l]}
      /\ IF last[l] = 0 THEN offset[l] <= confirmed[l] + 1 ELSE offset[l] = last[l] + 1
  BY <1>2 DEF HandoverOf
<1>4. /\ confirmed[l] + n <= issued[l]
      /\ rest # "none" => confirmed[l] + n < issued[l]
  <2>1. issued[l] - confirmed[l] \in Nat
    BY <1>1, <1>3
  <2>2. ReplySize(l) <= issued[l] - confirmed[l] /\ ReplySize(l) \in Nat
    BY <2>1, TelegramAssumption DEF ReplySize
  <2> QED
    BY <1>1, <2>1, <2>2
<1> QED
  BY <1>1, <1>2, <1>3, <1>4 DEF HandoverOf, NextDue, Early, Identified, Whole

(* A request makes the server forget what was taken; an update is taken     *)
(* when its callbacks return, or when it is posted.                        *)
LEMMA HandoverRequest ==
  ASSUME TypeInv, NEW l \in Listeners, HandoverOf(l), SendRequest(l)
  PROVE  /\ HandoverOf(l)'
         /\ confirmed'[l] = IF last[l] = 0 THEN confirmed[l] ELSE last[l]
<1>1. /\ issued[l] \in Nat /\ confirmed[l] \in Nat /\ last[l] \in Nat
  BY HandoverTypes
<1>2. /\ pc[l] = "send" /\ pc'[l] = "polling"
      /\ confirmed'[l] = IF offset[l] - 1 > confirmed[l] THEN offset[l] - 1 ELSE confirmed[l]
      /\ UNCHANGED <<issued, offset, todo, upto, last>>
  BY DEF TypeInv, TypeOK, RunTypeOK, ServerTypeOK, SendRequest, Confirm, At, Goto
<1>3. /\ confirmed[l] <= issued[l] /\ last[l] <= issued[l]
      /\ last[l] # 0 => confirmed[l] <= last[l]
      /\ IF last[l] = 0 THEN offset[l] <= confirmed[l] + 1 ELSE offset[l] = last[l] + 1
  BY <1>2 DEF HandoverOf
<1>4. confirmed'[l] = IF last[l] = 0 THEN confirmed[l] ELSE last[l]
  BY <1>1, <1>2, <1>3, HandoverTypes
<1> QED
  BY <1>1, <1>2, <1>3, <1>4 DEF HandoverOf, Early

LEMMA HandoverTakes ==
  ASSUME TypeInv, NEW l \in Listeners, HandoverOf(l),
         ExecuteInline(l) \/ PostToPool(l) \/ CallbacksReturn(l)
  PROVE  /\ HandoverOf(l)'
         /\ Identified(l) => todo[l] = NextDue(l) /\ todo[l] <= issued[l]
<1>0. RunTypeOK /\ last \in [Listeners -> Nat]
  BY DEF TypeInv, TypeOK, HistoryTypeOK
<1>1. /\ issued[l] \in Nat /\ confirmed[l] \in Nat /\ last[l] \in Nat
      /\ offset[l] \in Nat /\ todo[l] \in Nat /\ upto[l] \in Nat
  BY HandoverTypes
<1>2. /\ pc[l] \in {"batch", "callback"}
      /\ upto[l] <= issued[l] /\ todo[l] = NextDue(l)
      /\ tail[l] # "none" => upto[l] < issued[l] /\ todo[l] <= upto[l] + 1
      /\ confirmed[l] <= issued[l] /\ last[l] <= issued[l]
      /\ last[l] # 0 => confirmed[l] <= last[l]
      /\ IF pc[l] = "callback" /\ Identified(l) THEN offset[l] = todo[l] + 1
         ELSE IF last[l] = 0 THEN offset[l] <= confirmed[l] + 1 ELSE offset[l] = last[l] + 1
  BY DEF ExecuteInline, PostToPool, CallbacksReturn, TakeUpdate, At, HandoverOf
<1>3. todo[l] # 0 /\ confirmed[l] < todo[l]
  BY <1>1, <1>2 DEF NextDue
<1>4. Identified(l) => todo[l] <= issued[l]
  BY <1>1, <1>2 DEF Identified, Whole
<1>5. ASSUME TakeUpdate(l)
      PROVE  IF Identified(l) THEN offset'[l] = todo[l] + 1
             ELSE IF last[l] = 0 THEN offset'[l] <= confirmed[l] + 1
             ELSE offset'[l] = last[l] + 1
  <2>1. PICK update_id \in UpdateIds(l) :
          offset' = [offset EXCEPT ![l] = NextOffset(update_id, @)]
    BY <1>5 DEF TakeUpdate
  <2>2. /\ IF Identified(l) THEN update_id = todo[l] ELSE update_id \in 1..(todo[l] - 1)
        /\ pc[l] = "batch" /\ offset'[l] = NextOffset(update_id, offset[l])
    BY <1>0, <1>5, <2>1 DEF UpdateIds, TakeUpdate, At, RunTypeOK
  <2>3. /\ IF last[l] = 0 THEN offset[l] <= confirmed[l] + 1 ELSE offset[l] = last[l] + 1
        /\ todo[l] = (IF last[l] = 0 THEN confirmed[l] ELSE last[l]) + 1
    BY <1>2, <2>2 DEF NextDue
  <2> HIDE DEF Identified
  <2>4. CASE Identified(l)
    BY <1>1, <1>2, <2>2, <2>3, <2>4 DEF NextOffset
  <2>5. CASE ~Identified(l)
    BY <1>1, <2>2, <2>3, <2>5 DEF NextOffset
  <2> QED
    BY <2>4, <2>5
<1>6. CASE ExecuteInline(l)
  <2>1. /\ pc[l] = "batch" /\ pc'[l] = "callback" /\ TakeUpdate(l)
        /\ UNCHANGED <<issued, confirmed, todo, upto, tail, last>>
    BY <1>0, <1>6 DEF RunTypeOK, ExecuteInline, TakeUpdate, At, Goto
  <2>2. Identified(l)' = Identified(l)
    BY <2>1 DEF Identified, Whole
  <2> QED
    BY <1>1, <1>2, <1>3, <1>4, <1>5, <2>1, <2>2 DEF HandoverOf, NextDue, Early
<1>7. CASE PostToPool(l) \/ CallbacksReturn(l)
  <2>1. /\ pc'[l] = "batch" /\ UNCHANGED <<issued, confirmed, upto>>
        /\ tail'[l] = IF Whole(l) THEN tail[l] ELSE "none"
        /\ todo'[l] = IF Identified(l) THEN todo[l] + 1 ELSE todo[l]
        /\ last'[l] = IF Identified(l) THEN todo[l] ELSE last[l]
    BY <1>0, <1>7
       DEF RunTypeOK, PostToPool, CallbacksReturn, TakeUpdate, ItemDone, At, Goto
  <2>2. IF Identified(l) THEN offset'[l] = todo[l] + 1
        ELSE IF last[l] = 0 THEN offset'[l] <= confirmed[l] + 1
        ELSE offset'[l] = last[l] + 1
    <3>1. CASE PostToPool(l)
      BY <1>5, <3>1 DEF PostToPool
    <3>2. CASE CallbacksReturn(l)
      BY <1>2, <3>2 DEF CallbacksReturn, At
    <3> QED
      BY <1>7, <3>1, <3>2
  <2>3. tail'[l] # "none" => upto[l] < issued[l] /\ todo'[l] <= upto[l] + 1
    BY <1>1, <1>2, <2>1 DEF Identified, Whole
  <2>4. todo'[l] = NextDue(l)' /\ last'[l] <= issued[l]
        /\ (last'[l] # 0 => confirmed[l] <= last'[l])
    BY <1>1, <1>2, <1>3, <1>4, <2>1 DEF NextDue
  <2>5. IF last'[l] = 0 THEN offset'[l] <= confirmed[l] + 1 ELSE offset'[l] = last'[l] + 1
    BY <1>3, <2>1, <2>2
  <2> QED
    BY <1>2, <2>1, <2>3, <2>4, <2>5 DEF HandoverOf, Early
<1> QED
  BY <1>2, <1>4, <1>6, <1>7

\* The steps of a run that take nothing.
QuietStep(l) ==
  \/ CallRun(l) \/ SetNumThreads(l) \/ Stop(l)
  \/ ArmGlobal(l) \/ InstallHandler(l) \/ SpawnThread(l) \/ LeaveSpawnBlock(l)
  \/ TestOwn(l) \/ TestGlobal(l) \/ HoldExpires(l) \/ ReplyEmpty(l) \/ ReadTimesOut(l)
  \/ EndOfBatch(l) \/ ItemThrows(l) \/ Fault(l) \/ RestoreHandler(l) \/ Unflag(l) \/ StopContext(l)
  \/ PollFails(l) \/ ReplyNoResult(l) \/ Worker(l)

LEMMA QuietIsCalm ==
  ASSUME TypeInv, NEW l \in Listeners, NEW m \in Listeners, QuietStep(l)
  PROVE  Calm(m)
<1>0. RunTypeOK
  BY DEF TypeInv, TypeOK
<1>1. UNCHANGED <<server, offset, last>>
  BY DEF QuietStep, CallRun, SetNumThreads, Stop, ArmGlobal, InstallHandler, SpawnThread,
         LeaveSpawnBlock, TestOwn, TestGlobal, HoldExpires, ReplyEmpty, ReadTimesOut,
         EndOfBatch, ItemThrows, Fault, RestoreHandler, Unflag, StopContext, PollFails,
         ReplyNoResult, Worker, WorkerRuns
<1>2. pc \in [Listeners -> Locations]
  BY <1>0 DEF RunTypeOK
<1>3. \/ UNCHANGED <<pc[m], todo[m], upto[m], tail[m]>>
      \/ /\ pc[m] # "callback" /\ pc'[m] \notin {"polling", "batch", "callback"}
         /\ pc'[m] \in Early => pc[m] \in Early
  <2>1. CASE SetNumThreads(l) \/ Stop(l) \/ SpawnThread(l) \/ Worker(l)
    BY <2>1 DEF SetNumThreads, Stop, SpawnThread, Worker, WorkerRuns
  <2>2. CASE CallRun(l) \/ ArmGlobal(l) \/ InstallHandler(l)
    BY <1>2, <2>2 DEF CallRun, ArmGlobal, InstallHandler, At, Goto, Early
  <2>3. CASE LeaveSpawnBlock(l) \/ TestOwn(l) \/ TestGlobal(l) \/ HoldExpires(l)
    BY <1>2, <2>3 DEF LeaveSpawnBlock, TestOwn, TestGlobal, HoldExpires, At, Goto, Early
  <2>4. CASE ReplyEmpty(l) \/ ReadTimesOut(l) \/ Fault(l)
    BY <1>2, <2>4 DEF ReplyEmpty, ReadTimesOut, Fault, At, Goto, Early
  <2>5. CASE \/ RestoreHandler(l) \/ Unflag(l) \/ StopContext(l)
             \/ PollFails(l) \/ ReplyNoResult(l)
    BY <1>2, <2>5
       DEF RestoreHandler, Unflag, StopContext, PollFails, ReplyNoResult, At, Goto, Early
  <2>6. CASE EndOfBatch(l) \/ ItemThrows(l)
    <3>1. pc[l] = "batch" /\ \E to \in {"head", "fault"} : Goto(l, to)
      BY <2>6 DEF EndOfBatch, ItemThrows, At
    <3>2. m # l => UNCHANGED <<todo[m], upto[m], tail[m]>>
      BY <1>0, <2>6 DEF RunTypeOK, EndOfBatch, ItemThrows, DropReply
    <3> QED
      BY <1>2, <3>1, <3>2 DEF Goto, Early
  <2> QED
    BY <2>1, <2>2, <2>3, <2>4, <2>5, <2>6 DEF QuietStep
<1> QED
  BY <1>1, <1>3, HandoverTypes DEF Calm

\* What a step of l does to another listener.
LEMMA HandoverOthers ==
  ASSUME TypeInv, NEW l \in Listeners, NEW m \in Listeners, m # l,
         \/ BotReceives(l) \/ FlagHandler(l) \/ SendRequest(l)
         \/ ExecuteInline(l) \/ PostToPool(l) \/ CallbacksReturn(l)
         \/ ReplyUpdates(l) \/ ReplyDamaged(l)
  PROVE  Calm(m)
<1>0. ServerTypeOK /\ RunTypeOK /\ last \in [Listeners -> Nat]
  BY DEF TypeInv, TypeOK, HistoryTypeOK
<1>1. CASE BotReceives(l) \/ FlagHandler(l) \/ SendRequest(l)
  <2>1. UNCHANGED <<offset[m], todo, upto, tail, last, pc[m], issued[m], confirmed[m]>>
    BY <1>0, <1>1
       DEF ServerTypeOK, RunTypeOK, BotReceives, Publish, FlagHandler, SendRequest,
           Confirm, Goto
  <2> QED
    BY <2>1, HandoverTypes DEF Calm
<1>2. CASE ExecuteInline(l) \/ PostToPool(l) \/ CallbacksReturn(l)
  <2>1. UNCHANGED <<offset[m], todo[m], upto, tail[m], last[m], pc[m], server>>
    BY <1>0, <1>2
       DEF RunTypeOK, ExecuteInline, PostToPool, CallbacksReturn, TakeUpdate, ItemDone, Goto
  <2> QED
    BY <2>1, HandoverTypes DEF Calm
<1>3. CASE ReplyUpdates(l) \/ ReplyDamaged(l)
  <2>1. UNCHANGED <<offset, todo[m], upto[m], tail[m], last, pc[m], server>>
    BY <1>0, <1>3 DEF RunTypeOK, ReplyUpdates, ReplyDamaged, Reply, Goto
  <2> QED
    BY <2>1, HandoverTypes DEF Calm
<1> QED
  BY <1>1, <1>2, <1>3

LEMMA HandoverListener ==
  ASSUME TypeInv, TypeInv', NEW l \in Listeners, NEW m \in Listeners, HandoverOf(m),
         BotReceives(l) \/ CallRun(l) \/ SetNumThreads(l) \/ Stop(l)
           \/ Runs(l) \/ ReplyUpdates(l) \/ Worker(l) \/ Fails(l)
  PROVE  HandoverOf(m)'
<1>1. CASE QuietStep(l)
  BY <1>1, QuietIsCalm, CalmKeeps
<1>2. CASE Join(l) \/ SpawnFails(l) \/ CallbackThrows(l) \/ ItemAborts(l)
  BY <1>2, HandoverUnwinds, HandoverDies DEF Join, SpawnFails, CallbackThrows, ItemAborts
<1>3. CASE /\ m # l
           /\ \/ BotReceives(l) \/ FlagHandler(l) \/ SendRequest(l)
              \/ ExecuteInline(l) \/ PostToPool(l) \/ CallbacksReturn(l)
              \/ ReplyUpdates(l) \/ ReplyDamaged(l)
  BY <1>3, HandoverOthers, CalmKeeps
<1>4. CASE m = l /\ BotReceives(l)
  <2>1. issued[m] <= issued'[m]
    BY <1>4, TelegramAssumption
       DEF TypeInv, TypeOK, ServerTypeOK, BotReceives, Publish
  <2> QED
    BY <1>4, <2>1, CalmKeeps DEF BotReceives, Publish, Calm
<1>5. CASE m = l /\ FlagHandler(l)
  <2>1. /\ pc[l] = "flag" /\ pc'[l] \in {"head", "spawn"} /\ offset'[l] = 0
        /\ UNCHANGED <<issued, confirmed, last>>
    BY <1>5 DEF TypeInv, TypeOK, RunTypeOK, FlagHandler, At, Goto
  <2>2. last[l] = 0 /\ confirmed[l] <= issued[l]
    BY <1>5, <2>1 DEF HandoverOf, Early
  <2> QED
    BY <1>5, <2>1, <2>2, HandoverTypes DEF HandoverOf, Early
<1>6. CASE m = l /\ SendRequest(l)
  BY <1>6, HandoverRequest
<1>7. CASE m = l /\ (ExecuteInline(l) \/ PostToPool(l) \/ CallbacksReturn(l))
  BY <1>7, HandoverTakes
<1>8. CASE m = l /\ (ReplyUpdates(l) \/ ReplyDamaged(l))
  <2>1. CASE ReplyDamaged(l)
    <3>1. PICK n \in 0..(ReplySize(l) - 1), rest \in Tails : Reply(l, n, rest)
      BY <2>1 DEF ReplyDamaged
    <3>2. issued[l] \in Nat /\ confirmed[l] \in Nat /\ confirmed[l] <= issued[l]
      BY <1>8, HandoverTypes DEF HandoverOf
    <3>3. ReplySize(l) \in Nat
      BY <3>2, TelegramAssumption DEF ReplySize
    <3>4. n \in 0..ReplySize(l) /\ n < ReplySize(l)
      BY <3>1, <3>3
    <3> QED
      BY <1>8, <3>1, <3>4, HandoverReply
  <2>2. CASE ReplyUpdates(l)
    <3>1. issued[l] \in Nat /\ confirmed[l] \in Nat /\ confirmed[l] <= issued[l]
      BY <1>8, HandoverTypes DEF HandoverOf
    <3>2. ReplySize(l) \in 0..ReplySize(l)
      BY <3>1, TelegramAssumption DEF ReplySize
    <3>3. Reply(l, ReplySize(l), "none") /\ "none" \in Tails
      BY <2>2 DEF ReplyUpdates, Tails
    <3> QED
      BY <1>8, <3>2, <3>3, HandoverReply
  <2> QED
    BY <1>8, <2>1, <2>2
<1> QED
  BY <1>1, <1>2, <1>3, <1>4, <1>5, <1>6, <1>7, <1>8 DEF Runs, Fails, QuietStep

\* Everything else leaves the listeners where they are, ends them, or starts the process.
LEMMA HandoverProcess ==
  ASSUME TypeInv, TypeInv', NEW m \in Listeners, HandoverOf(m),
         \/ StopAll \/ SetSignalHandler \/ UnsetSignalHandler \/ SetFlag
         \/ SigintHandled \/ SigintKills \/ Handler
         \/ Crash \/ Restart \/ UNCHANGED vars
  PROVE  HandoverOf(m)'
<1>1. CASE SigintKills \/ Crash
  BY <1>1, HandoverDies DEF SigintKills, Crash
<1>2. CASE \/ StopAll \/ SetSignalHandler \/ UnsetSignalHandler \/ SetFlag
           \/ SigintHandled \/ Handler \/ Restart \/ UNCHANGED vars
  <2>1. UNCHANGED <<server, offset, todo, upto, tail, last, pc>>
    BY <1>2 DEF StopAll, SetSignalHandler, UnsetSignalHandler, SetFlag, SigintHandled,
                Handler, HandlerStops, HandlerRestores, HandlerUnflags, Restart
  <2> QED
    BY <2>1, CalmWithout, CalmKeeps
<1> QED
  BY <1>1, <1>2

LEMMA HandoverStep == HandoverInv /\ [Next]_vars => HandoverInv'
<1> SUFFICES ASSUME HandoverInv, [Next]_vars, NEW m \in Listeners PROVE HandoverOf(m)'
  BY TypeStep DEF HandoverInv
<1>1. TypeInv /\ TypeInv' /\ HandoverOf(m)
  BY TypeStep DEF HandoverInv
<1> QED
  BY <1>1, HandoverListener, HandoverProcess DEF Next

-----------------------------------------------------------------------------
(* What each step is to UpdateHandover.                                    *)

LEMMA EndsHandover ==
  ASSUME TypeInv, NEW l \in Listeners, LeaveRun(l) PROVE Handover!NewSession
<1>1. /\ last' = [b \in Listeners |-> IF b \in {l} THEN 0 ELSE last[b]]
      /\ count' = [b \in Listeners |-> IF b \in {l} THEN 0 ELSE count[b]]
  BY DEF TypeInv, TypeOK, HistoryTypeOK, LeaveRun
<1>2. UNCHANGED <<issued, confirmed>>
  BY DEF LeaveRun
<1> QED
  BY <1>1, <1>2 DEF Handover!NewSession

LEMMA EndsHandovers ==
  ASSUME NEW cause, Die(cause) PROVE Handover!NewSession
<1>1. /\ last' = [b \in Listeners |-> IF b \in Listeners THEN 0 ELSE last[b]]
      /\ count' = [b \in Listeners |-> IF b \in Listeners THEN 0 ELSE count[b]]
  BY DEF Die, Each
<1> QED
  BY <1>1 DEF Die, Handover!NewSession

LEMMA HandsOverListener ==
  ASSUME HandoverInv, NEW l \in Listeners,
         BotReceives(l) \/ CallRun(l) \/ SetNumThreads(l) \/ Stop(l)
           \/ Runs(l) \/ ReplyUpdates(l) \/ Worker(l) \/ Fails(l)
  PROVE  [Handover!Next]_Handover!vars
<1>0. TypeInv /\ HandoverOf(l)
  BY DEF HandoverInv
<1>1. CASE BotReceives(l)
  BY <1>1 DEF BotReceives, Publish, Handover!Next, Handover!Receive
<1>2. CASE SendRequest(l)
  <2>1. confirmed'[l] = IF last[l] = 0 THEN confirmed[l] ELSE last[l]
    BY <1>0, <1>2, HandoverRequest
  <2>2. confirmed' = [confirmed EXCEPT ![l] = confirmed'[l]]
        /\ UNCHANGED <<issued, last, count>>
    BY <1>0, <1>2 DEF TypeInv, TypeOK, ServerTypeOK, SendRequest, Confirm
  <2>3. CASE last[l] = 0
    <3>1. confirmed' = confirmed
      BY <1>0, <2>1, <2>2, <2>3 DEF TypeInv, TypeOK, ServerTypeOK
    <3> QED
      BY <2>2, <3>1 DEF Handover!vars
  <2>4. CASE last[l] # 0
    BY <2>1, <2>2, <2>4 DEF Handover!Next, Handover!Forget
  <2> QED
    BY <2>3, <2>4
<1>3. CASE PostToPool(l) \/ CallbacksReturn(l)
  <2>1. UNCHANGED <<issued, confirmed>>
    BY <1>3 DEF PostToPool, CallbacksReturn
  <2>2. CASE Identified(l)
    <3>1. todo[l] = NextDue(l) /\ todo[l] <= issued[l]
      BY <1>0, <1>3, <2>2, HandoverTakes
    <3>2. last' = [last EXCEPT ![l] = todo[l]] /\ count' = [count EXCEPT ![l] = @ + 1]
      BY <1>3, <2>2 DEF PostToPool, CallbacksReturn, ItemDone
    <3>3. todo[l] = Handover!Due(l)
      BY <1>0, <3>1, HandoverTypes DEF NextDue, Handover!Due
    <3> QED
      BY <2>1, <3>1, <3>2, <3>3 DEF Handover!Next, Handover!Take
  <2>3. CASE ~Identified(l)
    BY <1>3, <2>1, <2>3 DEF PostToPool, CallbacksReturn, ItemDone, Handover!vars
  <2> QED
    BY <2>2, <2>3
<1>4. CASE Join(l) \/ SpawnFails(l) \/ CallbackThrows(l) \/ ItemAborts(l)
  BY <1>0, <1>4, EndsHandover, EndsHandovers
     DEF Join, SpawnFails, CallbackThrows, ItemAborts, Unwind, Handover!Next
<1>5. CASE FlagHandler(l) \/ ExecuteInline(l) \/ ReplyUpdates(l) \/ ReplyDamaged(l)
  BY <1>5 DEF FlagHandler, ExecuteInline, TakeUpdate, ReplyUpdates, ReplyDamaged, Reply,
              Handover!vars
<1>6. CASE QuietStep(l)
  BY <1>6 DEF QuietStep, CallRun, SetNumThreads, Stop, ArmGlobal, InstallHandler,
              SpawnThread, LeaveSpawnBlock, TestOwn, TestGlobal, HoldExpires, ReplyEmpty,
              ReadTimesOut, EndOfBatch, ItemThrows, Fault, RestoreHandler, Unflag,
              StopContext, PollFails, ReplyNoResult, Worker, WorkerRuns, Handover!vars
<1> QED
  BY <1>1, <1>2, <1>3, <1>4, <1>5, <1>6 DEF Runs, Fails, QuietStep

LEMMA HandsOverStep ==
  ASSUME HandoverInv, [Next]_vars PROVE [Handover!Next]_Handover!vars
<1>1. CASE SigintKills \/ Crash
  BY <1>1, EndsHandovers DEF SigintKills, Crash, Handover!Next
<1>2. CASE \/ StopAll \/ SetSignalHandler \/ UnsetSignalHandler \/ SetFlag
           \/ SigintHandled \/ Handler \/ Restart \/ UNCHANGED vars
  BY <1>2 DEF StopAll, SetSignalHandler, UnsetSignalHandler, SetFlag, SigintHandled,
              Handler, HandlerStops, HandlerRestores, HandlerUnflags, Restart,
              Handover!vars
<1> QED
  BY <1>1, <1>2, HandsOverListener DEF Next

\* With any number of threads, inline or a pool, and however they are changed between two
\* updates of a reply: no update is skipped, none is taken twice in a run, and a request
\* acknowledges what the run took before it and nothing else.
THEOREM ListenerImplementsHandover == Safe => ImplementsHandover
<1>1. Init => Handover!Init
  BY DEF Init, ServerInit, Each, Handover!Init
<1>2. HandoverInv /\ [Next]_vars => [Handover!Next]_Handover!vars
  BY HandsOverStep
<1>3. Safe => []HandoverInv
  BY HandoverInit, HandoverStep, PTL DEF Safe
<1> QED
  BY <1>1, <1>2, <1>3, PTL DEF Safe, ImplementsHandover, Handover!Spec
=============================================================================
