----------------------------- MODULE JsonReader -----------------------------
(***************************************************************************)
(* How an answer of the server, or a part of an update, is made an object: *)
(* from_json reads the items of a type in their order, an item that is an   *)
(* object by the from_json of its type, and so on down.  What is missing or *)
(* of another type raises an exception, and the helpers of optional.h and   *)
(* shared.h turn the one that says "missing" (json::out_of_range) into the  *)
(* absence of the optional part in which they catch it.                     *)
(*                                                                         *)
(* stack is the C++ stack of from_json calls.  An array is one frame whose  *)
(* elements are read one after the other.                                   *)
(***************************************************************************)
EXTENDS Integers, Sequences, FiniteSets

CONSTANTS Schema,    \* Schema[t]: the items that the from_json of t reads
          Roots,     \* what is read, and by which function of sender.h or base.h
          Unsent,    \* required items, <<type, name>>, that the server never sends
          MaxDepth,  \* bound: frames below which no optional object is
          MaxDamage  \* bound: damaged items in what is read

\* How an item is read (see Types).
Hows == {"need", "part", "plain", "maybe", "list", "each"}
Objects == {"part", "maybe", "list", "each"}
ItemRecords == {item \in [name : STRING, how : Hows, type : STRING] :
                  item.how \in Objects => item.type \in DOMAIN Schema}

ASSUME ReaderAssumption ==
  /\ \A t \in DOMAIN Schema : Schema[t] \in Seq(ItemRecords)
  /\ \A r \in Roots : r.item \in ItemRecords
  /\ MaxDepth \in Nat /\ MaxDamage \in Nat

VARIABLES root,     \* what is being read
          stack,    \* the calls of from_json, the outermost first
          raised,   \* the exception under way
          outcome   \* what the reading function comes back with

VARIABLES damaged,  \* history: what was found missing or of the wrong type, and where
          lost      \* history: the optional parts left out for an exception

vars == <<root, stack, raised, outcome, damaged, lost>>

Names(s, n) == [i \in 1..n |-> s[i].name]

Frames == [type : DOMAIN Schema, name : STRING, how : Hows, at : Nat \ {0}]

TypeOK == /\ root \in Roots
          /\ stack \in Seq(Frames)
          /\ raised \in {"none", "out_of_range", "type_error"}
          /\ outcome \in {"none", "value", "nothing", "exception"}
          /\ damaged \subseteq [around : Seq(Frames), name : STRING, how : Hows,
                                kind : {"missing", "unsent", "wrong"}]
          /\ lost \subseteq Seq(STRING)

Init == /\ root \in Roots
        /\ stack = <<>>
        /\ raised = "none"
        /\ outcome = "none"
        /\ damaged = {} /\ lost = {}

-----------------------------------------------------------------------------
Top == stack[Len(stack)]

\* The item to be read next.
Item == IF stack = <<>> THEN root.item ELSE Schema[Top.type][Top.at]

Reading == /\ raised = "none" /\ outcome = "none"
           /\ stack # <<>> => Top.at <= Len(Schema[Top.type])

IsUnsent == stack # <<>> /\ <<Top.type, Item.name>> \in Unsent

\* Mutated: the item is not gone past.
GoBack(s, end) ==
  IF s = <<>> THEN stack' = s /\ outcome' = end
              ELSE stack' = [s EXCEPT ![Len(s)].at = @ - 1] /\ UNCHANGED outcome

\* The reading goes on behind the item that a call with the calls of s below it has
\* read, or it is over.
GoOn(s, end) ==
  IF s = <<>> THEN stack' = s /\ outcome' = end
              ELSE stack' = [s EXCEPT ![Len(s)].at = @ + 1] /\ UNCHANGED outcome

Below == SubSeq(stack, 1, Len(stack) - 1)

Damage(kind) ==
  /\ kind = "unsent" \/ Cardinality(damaged) < MaxDamage
  /\ damaged' = damaged \cup
       {[around |-> stack, name |-> Item.name, how |-> Item.how, kind |-> kind]}

-----------------------------------------------------------------------------
(* The item is as it should be.                                            *)

ReadScalar == /\ Reading /\ Item.how \in {"need", "plain"} /\ ~IsUnsent
              /\ GoOn(stack, "value")
              /\ UNCHANGED <<root, raised, damaged, lost>>

\* from_json is called for the item, for a list for its first element.
Enter == /\ Reading /\ Item.how \in Objects
         /\ Item.how \in {"maybe", "list"} => Len(stack) < MaxDepth
         /\ stack' = Append(stack, [type |-> Item.type, name |-> Item.name,
                                    how |-> Item.how, at |-> 1])
         /\ UNCHANGED <<root, raised, outcome, damaged, lost>>

\* Mutated: an item that is not there is always an exception.
AbsentRaises == /\ Reading /\ stack # <<>> /\ Item.how \in {"plain", "maybe", "list"}
                /\ raised' = "out_of_range"
                /\ UNCHANGED <<root, stack, outcome, damaged, lost>>

\* For a list also: it is empty.
Absent == /\ Reading /\ stack # <<>> /\ Item.how \in {"plain", "maybe", "list"}
          /\ GoOn(stack, "value")
          /\ UNCHANGED <<root, raised, damaged, lost>>

-----------------------------------------------------------------------------
(* The item is missing, or of another type than expected.                   *)

\* An answer without a result; execute_callbacks reads no part that is not there.
NoResult == /\ Reading /\ stack = <<>> /\ Item.how \in {"plain", "maybe", "list"}
            /\ Damage("missing")
            /\ outcome' = "nothing"
            /\ UNCHANGED <<root, stack, raised, lost>>

Missing == /\ Reading /\ Item.how \in {"need", "part", "each"}
           /\ ~(stack = <<>> /\ root.wrapper = "callback")
           /\ Damage(IF IsUnsent THEN "unsent" ELSE "missing")
           /\ raised' = "out_of_range"
           /\ UNCHANGED <<root, stack, outcome, lost>>

Wrong == /\ Reading /\ Item.how # "list" /\ ~IsUnsent
         /\ Damage("wrong")
         /\ raised' = "type_error"
         /\ UNCHANGED <<root, stack, outcome, lost>>

\* What should be a list and is not an array counts as absent.
NotAList == /\ Reading /\ Item.how = "list"
            /\ Damage("wrong")
            /\ lost' = lost \cup {Append(Names(stack, Len(stack)), Item.name)}
            /\ GoOn(stack, "nothing")
            /\ UNCHANGED <<root, raised>>

-----------------------------------------------------------------------------
(* A call of from_json ends.                                               *)

AllRead == /\ raised = "none" /\ outcome = "none" /\ stack # <<>>
           /\ Top.at > Len(Schema[Top.type])

NextElement == /\ AllRead /\ Top.how \in {"list", "each"}
               /\ stack' = [stack EXCEPT ![Len(stack)].at = 1]
               /\ UNCHANGED <<root, raised, outcome, damaged, lost>>

Leave == /\ AllRead
         /\ GoOn(Below, "value")
         /\ UNCHANGED <<root, raised, damaged, lost>>

\* Mutated: make_optional_vector_from_json catches nothing.
OnlyMaybeCatches(frame) == frame.how = "maybe"

\* The item of the frame is read in a try block.
Catches(frame) == frame.how \in {"maybe", "list"}

\* Mutated: an exception of any kind is taken for absence.
CatchAll == /\ raised # "none" /\ stack # <<>> /\ Catches(Top)
            /\ raised' = "none"
            /\ lost' = lost \cup {Names(stack, Len(stack))}
            /\ GoOn(Below, "nothing")
            /\ UNCHANGED <<root, damaged>>

Catch == /\ raised = "out_of_range" /\ stack # <<>> /\ Catches(Top)
         /\ raised' = "none"
         /\ lost' = lost \cup {Names(stack, Len(stack))}
         /\ GoOn(Below, "nothing")
         /\ UNCHANGED <<root, damaged>>

Unwind == /\ raised # "none" /\ stack # <<>>
          /\ raised = "out_of_range" => ~Catches(Top)
          /\ stack' = Below
          /\ UNCHANGED <<root, raised, outcome, damaged, lost>>

\* Mutated: send_json_and_parse catches nothing.
EscapeUncaught == /\ raised # "none" /\ stack = <<>>
                  /\ raised' = "none"
                  /\ outcome' = IF root.wrapper = "callback" THEN "nothing" ELSE "exception"
                  /\ UNCHANGED <<root, stack, damaged, lost>>

\* send_json_and_parse and its vector form catch what is left, and the callback of
\* the update is not called; send_json_and_get_bool and a from_json called by the
\* program hand it on.
Escape == /\ raised # "none" /\ stack = <<>>
          /\ raised' = "none"
          /\ outcome' = IF root.wrapper \in {"get_bool", "from_json"}
                          THEN "exception" ELSE "nothing"
          /\ UNCHANGED <<root, stack, damaged, lost>>

-----------------------------------------------------------------------------
Next == \/ ReadScalar \/ Enter \/ Absent
        \/ NoResult \/ Missing \/ Wrong \/ NotAList
        \/ NextElement \/ Leave \/ Catch \/ Unwind \/ Escape

Spec == Init /\ [][Next]_vars

-----------------------------------------------------------------------------
(* Properties.                                                             *)

\* A part that an object may be without.
Optional(frame) == frame.how \in {"maybe", "list"}

\* The call number i of s reads the smallest optional part around the last one.
Innermost(i, s) == Optional(s[i]) /\ \A j \in (i + 1)..Len(s) : ~Optional(s[j])

\* p is what should be left out for the damaged item d, and no more: of what is
\* missing the smallest optional part around it, of what is of another type only a
\* list, and only itself.
IsLossFor(p, d) ==
  IF d.kind = "wrong"
    THEN d.how = "list" /\ p = Append(Names(d.around, Len(d.around)), d.name)
    ELSE \E i \in DOMAIN d.around : Innermost(i, d.around) /\ p = Names(d.around, i)

\* Whatever is left out was damaged: nothing around the smallest optional part with
\* the damaged item goes with it (optional.h:30, shared.h:20, optional.h:85).
OnlyDamagedIsLost == \A p \in lost : \E d \in damaged : IsLossFor(p, d)

\* What comes back as a value has no hole but those: each damaged item cost its
\* optional part, and an item of another type is never taken for an absent one
\* (optional.h:30, 39, 48, 76).
NoHalfReadValue ==
  outcome = "value" => \A d \in damaged : \E p \in lost : IsLossFor(p, d)

\* Nothing but damage outside of every optional part makes a reply unreadable.
RefusedForCause ==
  outcome \in {"nothing", "exception"} =>
    \E d \in damaged :
      \/ d.kind = "wrong" /\ (d.how # "list" \/ d.around = <<>>)
      \/ d.kind # "wrong" /\ \A j \in 2..Len(d.around) : ~Optional(d.around[j])

\* sender.h:1443, "Get a chat member by id", and chat_member.h:23, "status": an answer
\* as the server sends it is read.
AnswersAreRead ==
  (\A d \in damaged : d.kind = "unsent") => outcome \in {"none", "value"}
=============================================================================
