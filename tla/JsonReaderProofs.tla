-------------------------- MODULE JsonReaderProofs --------------------------
(***************************************************************************)
(* Whatever the types and however deep the objects: what a reading leaves    *)
(* out is what was damaged, and what it hands on has no other hole.  The    *)
(* invariant says of an exception under way that it comes from a damaged     *)
(* item to which the calls still on the stack lead, through none that would  *)
(* have caught it, and of every other damaged item that its part is lost.   *)
(***************************************************************************)
EXTENDS AnswerReader, SequenceTheorems, TLAPS

USE DEF vars

Kinds == {"missing", "unsent", "wrong"}
Records == [around : Seq(Frames), name : STRING, how : Hows, kind : Kinds]

-----------------------------------------------------------------------------
(* Lemmas about the stack.                                                 *)

LEMMA TopIsFrame ==
  ASSUME TypeOK, stack # <<>>
  PROVE  /\ Len(stack) \in Nat \ {0}
         /\ Top = stack[Len(stack)] /\ Top \in Frames
         /\ Top.type \in DOMAIN Schema /\ Top.name \in STRING /\ Top.how \in Hows
         /\ Top.at \in Nat \ {0}
<1>1. stack \in Seq(Frames)
  BY DEF TypeOK
<1>2. Len(stack) \in Nat \ {0} /\ stack[Len(stack)] \in Frames
  BY <1>1
<1> QED
  BY <1>2 DEF Top, Frames

LEMMA ItemIsRecord ==
  ASSUME TypeOK, Reading
  PROVE  /\ Item.name \in STRING /\ Item.how \in Hows
         /\ Item.how \in Objects => Item.type \in DOMAIN Schema
<1>1. Item \in ItemRecords
  <2>1. CASE stack = <<>>
    BY <2>1, ReaderAssumption DEF TypeOK, Item
  <2>2. CASE stack # <<>>
    <3>1. Top.type \in DOMAIN Schema /\ Top.at \in Nat \ {0}
      BY <2>2, TopIsFrame
    <3>2. Schema[Top.type] \in Seq(ItemRecords)
      BY <3>1, ReaderAssumption
    <3>3. Top.at <= Len(Schema[Top.type])
      BY <2>2 DEF Reading
    <3>4. Schema[Top.type][Top.at] \in ItemRecords
      BY <3>1, <3>2, <3>3
    <3> QED
      BY <2>2, <3>4 DEF Item
  <2> QED
    BY <2>1, <2>2
<1> QED
  BY <1>1 DEF ItemRecords

LEMMA BelowIsStack ==
  ASSUME TypeOK, stack # <<>>
  PROVE  /\ Below \in Seq(Frames) /\ Len(Below) = Len(stack) - 1
         /\ \A i \in 1..(Len(stack) - 1) : Below[i] = stack[i]
<1> DEFINE s == stack
           n == Len(s) - 1
<1>1. s \in Seq(Frames) /\ Len(s) \in Nat \ {0}
  BY TopIsFrame DEF TypeOK
<1>2. 1 \in Int /\ n \in Int /\ \A i \in 1..n : s[i] \in Frames
  BY <1>1
<1>3. /\ SubSeq(s, 1, n) \in Seq(Frames)
      /\ Len(SubSeq(s, 1, n)) = IF 1 <= n THEN n - 1 + 1 ELSE 0
      /\ \A i \in 1..(n - 1 + 1) : SubSeq(s, 1, n)[i] = s[1 + i - 1]
  <2> HIDE DEF s, n
  <2> QED
    BY <1>2, SubSeqProperties
<1>4. Below = SubSeq(s, 1, n)
  BY DEF Below
<1>5. Len(Below) = n
  <2> n \in Nat
    BY <1>1
  <2> HIDE DEF s, n
  <2> QED
    BY <1>3, <1>4
<1>6. \A i \in 1..n : Below[i] = s[i]
  <2> n \in Nat
    BY <1>1
  <2> HIDE DEF s, n
  <2> QED
    BY <1>3, <1>4
<1> QED
  BY <1>3, <1>4, <1>5, <1>6

LEMMA NamesAreStrings ==
  ASSUME NEW s \in Seq(Frames)
  PROVE  Names(s, Len(s)) \in Seq(STRING)
<1> DEFINE n == Len(s)
           names == [i \in 1..n |-> s[i].name]
<1>1. ASSUME NEW i \in 1..n PROVE s[i].name \in STRING
  <2>1. s[i] \in Frames
    OBVIOUS
  <2> QED
    BY <2>1 DEF Frames
<1>2. n \in Nat
  OBVIOUS
<1>3. names \in [1..n -> STRING]
  <2> HIDE DEF n
  <2> QED
    BY <1>1
<1>4. names \in UNION {[1..m -> STRING] : m \in Nat}
  <2> HIDE DEF names, n
  <2> QED
    BY <1>2, <1>3
<1>5. Seq(STRING) = UNION {[1..m -> STRING] : m \in Nat}
  BY SeqDef, Zenon
<1>6. names \in Seq(STRING)
  BY <1>4, <1>5, Zenon
<1> QED
  BY <1>6 DEF Names

LEMMA GoOnKeepsTypes ==
  ASSUME TypeOK, NEW s \in Seq(Frames), NEW end, GoOn(s, end)
  PROVE  /\ stack' \in Seq(Frames)
         /\ outcome' = outcome \/ outcome' = end
<1>1. CASE s = <<>>
  BY <1>1 DEF GoOn
<1>2. CASE s # <<>>
  <2>1. Len(s) \in 1..Len(s) /\ s[Len(s)] \in Frames
    BY <1>2
  <2>2. [s[Len(s)] EXCEPT !.at = @ + 1] \in Frames
    BY <2>1 DEF Frames
  <2>3. stack' = [s EXCEPT ![Len(s)] = [s[Len(s)] EXCEPT !.at = @ + 1]]
    BY <1>2, <2>1 DEF GoOn
  <2>4. outcome' = outcome
    BY <1>2 DEF GoOn
  <2> QED
    BY <2>1, <2>2, <2>3, <2>4
<1> QED
  BY <1>1, <1>2

LEMMA DamageKeepsTypes ==
  ASSUME TypeOK, Reading, NEW kind \in Kinds, Damage(kind)
  PROVE  damaged' \subseteq Records
<1>1. [around |-> stack, name |-> Item.name, how |-> Item.how, kind |-> kind] \in Records
  BY ItemIsRecord DEF TypeOK, Records
<1>2. damaged \subseteq Records
  BY DEF TypeOK, Records, Kinds
<1> QED
  BY <1>1, <1>2 DEF Damage

\* Every variable has its type in every reachable state.
THEOREM TypeCorrect == Spec => []TypeOK
<1>1. Init => TypeOK
  <2> SUFFICES ASSUME Init PROVE TypeOK
    OBVIOUS
  <2>1. stack \in Seq(Frames)
    BY DEF Init
  <2> QED
    BY <2>1 DEF Init, TypeOK
<1>2. TypeOK /\ [Next]_vars => TypeOK'
  <2> SUFFICES ASSUME TypeOK, [Next]_vars PROVE TypeOK'
    OBVIOUS
  <2>0. /\ root \in Roots /\ stack \in Seq(Frames)
        /\ raised \in {"none", "out_of_range", "type_error"}
        /\ outcome \in {"none", "value", "nothing", "exception"}
        /\ damaged \subseteq Records /\ lost \subseteq Seq(STRING)
    BY DEF TypeOK, Records, Kinds
  <2>a. SUFFICES /\ root' \in Roots /\ stack' \in Seq(Frames)
                 /\ raised' \in {"none", "out_of_range", "type_error"}
                 /\ outcome' \in {"none", "value", "nothing", "exception"}
                 /\ damaged' \subseteq Records /\ lost' \subseteq Seq(STRING)
    BY DEF TypeOK, Records, Kinds
  <2>1. CASE UNCHANGED vars
    BY <2>0, <2>1
  <2>2. CASE ReadScalar \/ Absent
    <3>1. GoOn(stack, "value") /\ UNCHANGED <<root, raised, damaged, lost>>
      BY <2>2 DEF ReadScalar, Absent
    <3>2. stack' \in Seq(Frames) /\ (outcome' = outcome \/ outcome' = "value")
      BY <2>0, <3>1, GoOnKeepsTypes
    <3> QED
      BY <2>0, <3>1, <3>2
  <2>3. CASE Enter
    <3>1. Item.name \in STRING /\ Item.how \in Hows /\ Item.type \in DOMAIN Schema
      BY <2>3, ItemIsRecord DEF Enter
    <3> DEFINE frame == [type |-> Item.type, name |-> Item.name, how |-> Item.how, at |-> 1]
    <3>2. frame \in Frames
      BY <3>1 DEF Frames
    <3>3. stack' = Append(stack, frame) /\ UNCHANGED <<root, raised, outcome, damaged, lost>>
      BY <2>3 DEF Enter
    <3> HIDE DEF frame
    <3> QED
      BY <2>0, <3>2, <3>3
  <2>4. CASE NoResult
    <3>1. damaged' \subseteq Records
      BY <2>4, DamageKeepsTypes DEF NoResult, Kinds
    <3> QED
      BY <2>0, <2>4, <3>1 DEF NoResult
  <2>5. CASE Missing
    <3>1. damaged' \subseteq Records
      <4>1. PICK kind \in Kinds : Damage(kind)
        BY <2>5 DEF Missing, Kinds
      <4> QED
        BY <2>5, <4>1, DamageKeepsTypes DEF Missing
    <3> QED
      BY <2>0, <2>5, <3>1 DEF Missing
  <2>6. CASE Wrong
    <3>1. damaged' \subseteq Records
      BY <2>6, DamageKeepsTypes DEF Wrong, Kinds
    <3> QED
      BY <2>0, <2>6, <3>1 DEF Wrong
  <2>7. CASE NotAList
    <3>1. damaged' \subseteq Records
      BY <2>7, DamageKeepsTypes DEF NotAList, Kinds
    <3>2. stack' \in Seq(Frames) /\ (outcome' = outcome \/ outcome' = "nothing")
      BY <2>0, <2>7, GoOnKeepsTypes DEF NotAList
    <3>3. Append(Names(stack, Len(stack)), Item.name) \in Seq(STRING)
      <4>1. Names(stack, Len(stack)) \in Seq(STRING) /\ Item.name \in STRING
        BY <2>0, <2>7, NamesAreStrings, ItemIsRecord DEF NotAList
      <4> QED
        BY <4>1
    <3> QED
      BY <2>0, <2>7, <3>1, <3>2, <3>3 DEF NotAList
  <2>8. CASE NextElement
    <3>1. Len(stack) \in 1..Len(stack) /\ stack[Len(stack)] \in Frames
      BY <2>8, TopIsFrame DEF NextElement, AllRead
    <3>2. [stack[Len(stack)] EXCEPT !.at = 1] \in Frames
      BY <3>1 DEF Frames
    <3>3. stack' = [stack EXCEPT ![Len(stack)] = [stack[Len(stack)] EXCEPT !.at = 1]]
      BY <2>8 DEF NextElement
    <3>4. stack' \in Seq(Frames)
      BY <2>0, <3>1, <3>2, <3>3
    <3> QED
      BY <2>0, <2>8, <3>4 DEF NextElement
  <2>9. CASE Leave
    <3>1. Below \in Seq(Frames)
      BY <2>9, BelowIsStack DEF Leave, AllRead
    <3>2. stack' \in Seq(Frames) /\ (outcome' = outcome \/ outcome' = "value")
      BY <2>9, <3>1, GoOnKeepsTypes DEF Leave
    <3> QED
      BY <2>0, <2>9, <3>2 DEF Leave
  <2>10. CASE Catch
    <3>1. Below \in Seq(Frames)
      BY <2>10, BelowIsStack DEF Catch
    <3>2. stack' \in Seq(Frames) /\ (outcome' = outcome \/ outcome' = "nothing")
      BY <2>10, <3>1, GoOnKeepsTypes DEF Catch
    <3>3. Names(stack, Len(stack)) \in Seq(STRING)
      BY <2>0, NamesAreStrings
    <3> QED
      BY <2>0, <2>10, <3>2, <3>3 DEF Catch
  <2>11. CASE Unwind
    <3>1. Below \in Seq(Frames)
      BY <2>11, BelowIsStack DEF Unwind
    <3> QED
      BY <2>0, <2>11, <3>1 DEF Unwind
  <2>12. CASE Escape
    BY <2>0, <2>12 DEF Escape
  <2> QED
    BY <2>1, <2>2, <2>3, <2>4, <2>5, <2>6, <2>7, <2>8, <2>9, <2>10, <2>11, <2>12
    DEF Next
<1> QED
  BY <1>1, <1>2, PTL DEF Spec

-----------------------------------------------------------------------------
(* The invariant.                                                          *)

\* The part around e is left out.
Seen(e) == \E p \in lost : IsLossFor(p, e)

\* The exception under way comes from d.
Leads(d) ==
  /\ Len(stack) <= Len(d.around)
  /\ \A i \in 1..Len(stack) : stack[i] = d.around[i]
  /\ raised = "out_of_range" =>
       /\ d.kind # "wrong"
       /\ \A j \in (Len(stack) + 1)..Len(d.around) : ~Optional(d.around[j])
  /\ raised = "type_error" => d.kind = "wrong" /\ d.how # "list"

AllSeen == raised = "none" /\ outcome \in {"none", "value"}
             => \A d \in damaged : Seen(d)
OneLeads == raised # "none" =>
              /\ outcome = "none"
              /\ \E d \in damaged : Leads(d) /\ \A e \in damaged : e = d \/ Seen(e)

LossInv == OnlyDamagedIsLost /\ AllSeen /\ OneLeads /\ RefusedForCause

\* A step that finds nothing damaged and raises nothing.
LEMMA QuietStep ==
  ASSUME LossInv, UNCHANGED <<raised, damaged, lost>>, raised = "none",
         outcome = "none", outcome' \in {"none", "value"}
  PROVE  LossInv'
BY DEF LossInv, OnlyDamagedIsLost, AllSeen, OneLeads, RefusedForCause, Seen

\* What a damaged item adds.
LEMMA DamageIsNew ==
  ASSUME TypeOK, LossInv, Reading, NEW kind, Damage(kind)
  PROVE  LET d == [around |-> stack, name |-> Item.name, how |-> Item.how, kind |-> kind]
         IN  /\ damaged' = damaged \cup {d}
             /\ \A e \in damaged' : e = d \/ Seen(e)
<1> DEFINE d == [around |-> stack, name |-> Item.name, how |-> Item.how, kind |-> kind]
<1>1. damaged' = damaged \cup {d}
  BY DEF Damage
<1>2. \A e \in damaged : Seen(e)
  BY DEF LossInv, AllSeen, Reading
<1> HIDE DEF d
<1>3. \A e \in damaged' : e = d \/ Seen(e)
  BY <1>1, <1>2
<1> QED
  BY <1>1, <1>3 DEF d

\* An exception begins where the item is.
LEMMA RaisedHere ==
  ASSUME TypeOK, LossInv, Reading, NEW kind \in Kinds, Damage(kind),
         UNCHANGED <<stack, outcome, lost>>,
         \/ kind # "wrong" /\ raised' = "out_of_range"
         \/ kind = "wrong" /\ Item.how # "list" /\ raised' = "type_error"
  PROVE  LossInv'
<1>0. PICK d : d = [around |-> stack, name |-> Item.name, how |-> Item.how, kind |-> kind]
  OBVIOUS
<1>1. damaged' = damaged \cup {d} /\ \A e \in damaged' : e = d \/ Seen(e)
  BY <1>0, DamageIsNew
<1>2. d.around = stack /\ d.kind = kind /\ d.how = Item.how
  BY <1>0
<1>3. Len(stack) \in Nat
  BY DEF TypeOK
<1>4. Leads(d)'
  BY <1>2, <1>3 DEF Leads
<1>5. d \in damaged' /\ \A e \in damaged' : e = d \/ Seen(e)'
  BY <1>1 DEF Seen
<1>6. raised' # "none" /\ outcome' = "none"
  BY DEF Reading
<1>7. OneLeads'
  BY <1>4, <1>5, <1>6 DEF OneLeads
<1>8. OnlyDamagedIsLost'
  BY <1>1 DEF LossInv, OnlyDamagedIsLost
<1> QED
  BY <1>6, <1>7, <1>8 DEF LossInv, AllSeen, RefusedForCause

\* The part in whose try block the exception ends is the one to be left out.
LEMMA CaughtIsLoss ==
  ASSUME TypeOK, NEW d \in damaged, Leads(d), raised = "out_of_range",
         stack # <<>>, Catches(Top)
  PROVE  IsLossFor(Names(stack, Len(stack)), d)
<1> DEFINE n == Len(stack)
<1>1. n \in Nat \ {0} /\ Top = stack[n]
  BY TopIsFrame
<1>2. d.around \in Seq(Frames)
  BY DEF TypeOK
<1>3. n \in DOMAIN d.around
  <2>1. n <= Len(d.around) /\ Len(d.around) \in Nat /\ DOMAIN d.around = 1..Len(d.around)
    BY <1>2 DEF Leads
  <2> HIDE DEF n
  <2> QED
    BY <1>1, <2>1
<1>4. Innermost(n, d.around)
  BY <1>1 DEF Leads, Innermost, Catches, Optional
<1>5. Names(stack, n) = Names(d.around, n)
  <2>1. \A i \in 1..n : stack[i].name = d.around[i].name
    BY DEF Leads
  <2> HIDE DEF n
  <2> QED
    BY <2>1 DEF Names
<1>6. d.kind # "wrong"
  BY DEF Leads
<1> QED
  BY <1>3, <1>4, <1>5, <1>6 DEF IsLossFor

LEMMA CatchKeeps == ASSUME TypeOK, LossInv, Catch PROVE LossInv'
<1> DEFINE p == Names(stack, Len(stack))
<1>1. PICK d \in damaged : Leads(d) /\ \A e \in damaged : e = d \/ Seen(e)
  BY DEF LossInv, OneLeads, Catch
<1>2. IsLossFor(p, d)
  BY <1>1, CaughtIsLoss DEF Catch
<1>3. lost' = lost \cup {p} /\ damaged' = damaged /\ raised' = "none"
  BY DEF Catch
<1>4. OnlyDamagedIsLost'
  <2> HIDE DEF p
  <2> QED
    BY <1>2, <1>3 DEF LossInv, OnlyDamagedIsLost
<1>5. \A e \in damaged : Seen(e)'
  <2> HIDE DEF p
  <2> QED
    BY <1>1, <1>2, <1>3 DEF Seen
<1>6. RefusedForCause'
  <2>1. CASE Below = <<>>
    <3>1. Len(stack) = 1
      BY <2>1, BelowIsStack, TopIsFrame DEF Catch
    <3>2. d.kind # "wrong" /\ \A j \in 2..Len(d.around) : ~Optional(d.around[j])
      BY <1>1, <3>1 DEF Leads, Catch
    <3> QED
      BY <1>3, <3>2 DEF RefusedForCause
  <2>2. CASE Below # <<>>
    <3>1. outcome' = "none"
      BY <2>2 DEF Catch, GoOn, LossInv, OneLeads
    <3> QED
      BY <3>1 DEF RefusedForCause
  <2> QED
    BY <2>1, <2>2
<1> QED
  BY <1>3, <1>4, <1>5, <1>6 DEF LossInv, AllSeen, OneLeads

LEMMA UnwindKeeps == ASSUME TypeOK, LossInv, Unwind PROVE LossInv'
<1>1. PICK d \in damaged : Leads(d) /\ \A e \in damaged : e = d \/ Seen(e)
  BY DEF LossInv, OneLeads, Unwind
<1>2. /\ stack' = Below /\ raised' = raised /\ outcome' = outcome
      /\ damaged' = damaged /\ lost' = lost
  BY DEF Unwind
<1>3. Leads(d)'
  <2> DEFINE n == Len(stack)
  <2>1. n \in Nat \ {0} /\ Top = stack[n]
    BY TopIsFrame DEF Unwind
  <2>2. Len(Below) = n - 1 /\ \A i \in 1..(n - 1) : Below[i] = stack[i]
    BY BelowIsStack DEF Unwind
  <2>3. n <= Len(d.around) /\ \A i \in 1..n : stack[i] = d.around[i]
    BY <1>1 DEF Leads
  <2>4. Len(d.around) \in Nat
    BY DEF TypeOK
  <2>5. ASSUME raised = "out_of_range", NEW j \in n..Len(d.around)
        PROVE  ~Optional(d.around[j])
    <3>1. CASE j = n
      <4>1. d.around[j] = Top
        BY <2>1, <2>3, <3>1
      <4> QED
        BY <2>5, <4>1 DEF Unwind, Catches, Optional
    <3>2. CASE j # n
      <4>1. j \in (n + 1)..Len(d.around)
        BY <2>1, <2>4, <3>2
      <4> QED
        BY <1>1, <2>5, <4>1 DEF Leads
    <3> QED
      BY <3>1, <3>2
  <2>6. Len(Below) <= Len(d.around) /\ \A i \in 1..Len(Below) : Below[i] = d.around[i]
    BY <2>1, <2>2, <2>3, <2>4
  <2>7. Len(Below) + 1 = n
    BY <2>1, <2>2
  <2> HIDE DEF n
  <2> QED
    BY <1>1, <1>2, <2>5, <2>6, <2>7 DEF Leads
<1>4. OneLeads'
  BY <1>1, <1>2, <1>3 DEF OneLeads, LossInv, Seen
<1> QED
  BY <1>2, <1>4 DEF LossInv, OnlyDamagedIsLost, AllSeen, RefusedForCause, Unwind

LEMMA EscapeKeeps == ASSUME TypeOK, LossInv, Escape PROVE LossInv'
<1>1. PICK d \in damaged : Leads(d)
  BY DEF LossInv, OneLeads, Escape
<1>2. /\ raised' = "none" /\ outcome' \in {"nothing", "exception"}
      /\ damaged' = damaged /\ lost' = lost
  BY DEF Escape
<1>3. RefusedForCause'
  <2>1. raised \in {"out_of_range", "type_error"} /\ Len(stack) = 0
    BY DEF Escape, TypeOK
  <2>2. CASE raised = "type_error"
    BY <1>1, <1>2, <2>2 DEF Leads, RefusedForCause
  <2>3. CASE raised = "out_of_range"
    <3>1. \A j \in 2..Len(d.around) : ~Optional(d.around[j])
      BY <1>1, <2>1, <2>3 DEF Leads
    <3>2. d.kind # "wrong"
      BY <1>1, <2>3 DEF Leads
    <3> QED
      BY <1>2, <3>1, <3>2 DEF RefusedForCause
  <2> QED
    BY <2>1, <2>2, <2>3
<1> QED
  BY <1>2, <1>3 DEF LossInv, OnlyDamagedIsLost, AllSeen, OneLeads

LEMMA NoResultKeeps == ASSUME TypeOK, LossInv, NoResult PROVE LossInv'
<1> DEFINE d == [around |-> stack, name |-> Item.name, how |-> Item.how,
                 kind |-> "missing"]
<1>1. damaged' = damaged \cup {d}
  BY DEF NoResult, Damage
<1>2. d.kind = "missing" /\ d.around = <<>>
  BY DEF NoResult
<1> HIDE DEF d
<1>3. RefusedForCause'
  BY <1>1, <1>2 DEF RefusedForCause
<1>4. outcome' = "nothing" /\ lost' = lost /\ raised' = "none"
  BY DEF NoResult, Reading
<1> QED
  BY <1>1, <1>3, <1>4 DEF LossInv, OnlyDamagedIsLost, AllSeen, OneLeads

LEMMA NotAListKeeps == ASSUME TypeOK, LossInv, NotAList PROVE LossInv'
<1> DEFINE d == [around |-> stack, name |-> Item.name, how |-> Item.how,
                 kind |-> "wrong"]
           p == Append(Names(stack, Len(stack)), Item.name)
<1>1. damaged' = damaged \cup {d} /\ \A e \in damaged' : e = d \/ Seen(e)
  BY DamageIsNew DEF NotAList
<1>2. IsLossFor(p, d) /\ d.kind = "wrong" /\ d.around = stack
  BY DEF NotAList, IsLossFor
<1>3. lost' = lost \cup {p} /\ raised' = "none"
  BY DEF NotAList, Reading
<1>4. outcome' # "none" => stack = <<>>
  BY DEF NotAList, GoOn, Reading
<1> HIDE DEF d, p
<1>5. OnlyDamagedIsLost'
  BY <1>1, <1>2, <1>3 DEF LossInv, OnlyDamagedIsLost
<1>6. \A e \in damaged' : Seen(e)'
  BY <1>1, <1>2, <1>3 DEF Seen
<1>7. RefusedForCause'
  BY <1>1, <1>2, <1>4 DEF RefusedForCause
<1> QED
  BY <1>3, <1>5, <1>6, <1>7 DEF LossInv, AllSeen, OneLeads

LEMMA LossInvStep == TypeOK /\ LossInv /\ [Next]_vars => LossInv'
<1> SUFFICES ASSUME TypeOK, LossInv, [Next]_vars PROVE LossInv'
  OBVIOUS
<1>1. CASE UNCHANGED vars
  BY <1>1 DEF LossInv, OnlyDamagedIsLost, AllSeen, OneLeads, RefusedForCause, Seen, Leads
<1>2. CASE ReadScalar \/ Absent \/ Leave
  <2>1. /\ UNCHANGED <<raised, damaged, lost>> /\ raised = "none" /\ outcome = "none"
        /\ \E s \in {stack, Below} : GoOn(s, "value")
    BY <1>2 DEF ReadScalar, Absent, Leave, Reading, AllRead
  <2>2. outcome' \in {"none", "value"}
    BY <2>1 DEF GoOn
  <2> QED
    BY <2>1, <2>2, QuietStep
<1>3. CASE Enter \/ NextElement
  BY <1>3, QuietStep DEF Enter, NextElement, Reading, AllRead
<1>4. CASE Missing
  BY <1>4, RaisedHere DEF Missing, Kinds
<1>5. CASE Wrong
  BY <1>5, RaisedHere DEF Wrong, Kinds
<1> QED
  BY <1>1, <1>2, <1>3, <1>4, <1>5, NoResultKeeps, NotAListKeeps, CatchKeeps,
     UnwindKeeps, EscapeKeeps
  DEF Next

LEMMA LossInvHolds == Spec => []LossInv
<1>1. Init => LossInv
  BY DEF Init, LossInv, OnlyDamagedIsLost, AllSeen, OneLeads, RefusedForCause
<1> QED
  BY <1>1, LossInvStep, TypeCorrect, PTL DEF Spec

\* Nothing around the smallest optional part with a damaged item is left out with it.
THEOREM LossIsDamage == Spec => []OnlyDamagedIsLost
<1>1. LossInv => OnlyDamagedIsLost
  BY DEF LossInv
<1> QED
  BY <1>1, LossInvHolds, PTL

\* A value has no hole but the parts left out for what was damaged in them.
THEOREM ValueIsWhole == Spec => []NoHalfReadValue
<1>1. LossInv => NoHalfReadValue
  BY DEF LossInv, AllSeen, OneLeads, NoHalfReadValue, Seen
<1> QED
  BY <1>1, LossInvHolds, PTL

\* Nothing but damage outside of every optional part makes a reply unreadable.
THEOREM RefusalHasCause == Spec => []RefusedForCause
<1>1. LossInv => RefusedForCause
  BY DEF LossInv
<1> QED
  BY <1>1, LossInvHolds, PTL

-----------------------------------------------------------------------------
(* What a sender makes of its answers.                                     *)

LEMMA OperationsAreWrapped ==
  ASSUME NEW o \in Operations PROVE o.wrapper \in {"parse", "parse_vector", "get_bool"}
BY DEF Operations, AboutBot, Texts, Forwards, Edits, Files, Notes, LiveLocations, Places,
       Actions, Members, Chats, Questions, CallbackAnswers, Parse, ParseScalar,
       ParseVector, GetBool

\* An exception gets out of no function but those that catch none.
Uncaught == outcome = "exception" => root.wrapper \in {"get_bool", "from_json"}

LEMMA UncaughtStep == Uncaught /\ [Next]_vars => Uncaught'
<1> SUFFICES ASSUME Uncaught, [Next]_vars PROVE Uncaught'
  OBVIOUS
<1>1. UNCHANGED <<root, outcome>> \/ outcome' \in {"value", "nothing"} \/ Escape
  BY DEF Next, ReadScalar, Enter, Absent, NoResult, Missing, Wrong, NotAList,
         NextElement, Leave, Catch, Unwind, GoOn
<1> QED
  BY <1>1 DEF Uncaught, Escape

\* Whatever the server answers and however it is damaged, a call of a sender comes back
\* with an outcome that Sender's Answer allows: only the bool operations with an exception.
THEOREM AnswersAreAsAssumed == Spec => []AsSenderAssumes
<1>1. Init => Uncaught
  BY DEF Init, Uncaught
<1>2. TypeOK /\ Uncaught => AsSenderAssumes
  BY OperationsAreWrapped DEF TypeOK, Uncaught, AsSenderAssumes, Outcomes
<1> QED
  BY <1>1, <1>2, UncaughtStep, TypeCorrect, PTL DEF Spec
=============================================================================
