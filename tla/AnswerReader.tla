---------------------------- MODULE AnswerReader ----------------------------
(***************************************************************************)
(* JsonReader as the operations of a sender use it: what they read, and     *)
(* what Sender assumes of how that ends.                                   *)
(***************************************************************************)
EXTENDS JsonReader, Api

Answers == {[wrapper |-> o.wrapper, item |-> o.item] : o \in Operations}

\* Sender's Answer leaves open what an operation makes of the body it gets; it comes
\* back with nothing else than that (sender.h:449-455, 472-478, 492).
AsSenderAssumes ==
  \A o \in Operations :
    root.wrapper = o.wrapper => outcome \in {"none"} \cup Outcomes(o.wrapper)
=============================================================================
