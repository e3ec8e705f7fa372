------------------------------ MODULE MCSender ------------------------------
(* Two calls.  Texts of no, one, two and three pieces of two bytes are sent; in *)
(* two of them there is a character of two bytes, at a cut and elsewhere.  The  *)
(* other operations are one of each wrapper, and of each that needs a text.     *)
EXTENDS Sender

CONSTANTS c, d

TwoCalls == {c, d}
Ask(call, size, between) ==
  [operation |-> Operation(call), size |-> size, between |-> between]
Ascii(call, n) == Ask(call, n, 0..n)
SomeRequests ==
  {Ascii("send_message", n) : n \in {0, 2, 3, 5}}
    \cup {Ask("send_message", 3, {0, 1, 3}), Ask("send_message", 5, {0, 2, 3, 4, 5})}
    \cup {Ascii(call, n) : call \in {"edit_message_text", "edit_message_text_inline"},
                          n \in {0, 3}}
    \cup {Ascii(call, 0) : call \in {"get_me", "get_chat_administrators",
                                    "get_chat_members_count", "leave_chat"}}
=============================================================================
