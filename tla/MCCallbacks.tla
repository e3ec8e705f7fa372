---------------------------- MODULE MCCallbacks ----------------------------
(***************************************************************************)
(* An instance of Callbacks for TLC: the whole update, both forms of a     *)
(* message and the last slot change; the others keep what they were born   *)
(* with, and differ from these in the name of the part alone.              *)
(***************************************************************************)
EXTENDS Callbacks

SomeSlots == {"json", "message_json", "message", "query_callback"}
=============================================================================
