------------------------------- MODULE MCBot -------------------------------
(* One bot; its answers are texts of two pieces.                              *)
EXTENDS Bot

CONSTANT a

A == INSTANCE Api

OneListener == {a}
Inline == {1}
TwoPieces == {[operation |-> A!Operation("send_message"), size |-> 3, between |-> 0..3]}
=============================================================================
