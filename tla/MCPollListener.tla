--------------------------- MODULE MCPollListener ---------------------------
(***************************************************************************)
(* Instances of PollListener for TLC.  Listeners are model values; a       *)
(* listener's own thread count is the value the program gives to           *)
(* set_num_threads (the examples give 1, the default is 0).                *)
(***************************************************************************)
EXTENDS PollListener

CONSTANTS a, b

OneListener == {a}
TwoListeners == {a, b}
Inline == {1}
Automatic == {0}
Either == {0, 1}
=============================================================================
