-------------------------------- MODULE Api --------------------------------
(***************************************************************************)
(* The operations of sender.h.  Each is a request of its own and differs    *)
(* from the others in what its answer is read as: an object or a scalar     *)
(* (send_json_and_parse), a list of objects (send_json_and_parse_vector) or *)
(* a bool (send_json_and_get_bool).  A name ending in _inline is the form   *)
(* of the operation that takes an inline_message_id.                        *)
(***************************************************************************)
EXTENDS Types

Parse(calls, type) ==
  [call : calls, wrapper : {"parse"}, item : {Maybe("result", type)}]
ParseScalar(calls) == [call : calls, wrapper : {"parse"}, item : {Plain("result")}]
ParseVector(calls, type) ==
  [call : calls, wrapper : {"parse_vector"}, item : {List("result", type)}]
GetBool(calls) == [call : calls, wrapper : {"get_bool"}, item : {Need("result")}]

-----------------------------------------------------------------------------
AboutBot == Parse({"get_me"}, "user")

Texts == Parse({"send_message", "edit_message_text"}, "message")
           \cup GetBool({"edit_message_text_inline"})

Forwards == Parse({"forward_message"}, "message")

Edits == Parse({"edit_message_caption", "edit_message_reply_markup"}, "message")
           \cup GetBool({"edit_message_caption_inline",
                         "edit_message_reply_markup_inline", "delete_message"})

Files == Parse({"send_photo", "send_audio", "send_document", "send_video"}, "message")

Notes == Parse({"send_voice", "send_video_note", "send_sticker", "send_location"},
               "message")

LiveLocations == Parse({"edit_message_live_location",
                        "edit_message_live_location_inline",
                        "stop_message_live_location",
                        "stop_message_live_location_inline"}, "message")

Places == Parse({"send_venue", "send_contact"}, "message")

Actions == GetBool({"send_chat_action"}) \cup Parse({"get_file"}, "file")

Members == GetBool({"kick_chat_member", "unban_chat_member",
                    "restrict_chat_member", "promote_chat_member"})

Chats == GetBool({"delete_chat_photo", "set_chat_title", "set_chat_description",
                  "pin_chat_message", "unpin_chat_message", "leave_chat"})

Questions == Parse({"get_chat"}, "chat")
               \cup ParseVector({"get_chat_administrators"}, "chat_member")
               \cup ParseScalar({"get_chat_members_count"})
               \cup Parse({"get_chat_member"}, "chat_member")

CallbackAnswers == GetBool({"answer_callback_query"})

Operations == AboutBot \cup Texts \cup Forwards \cup Edits \cup Files \cup Notes
                \cup LiveLocations \cup Places \cup Actions \cup Members
                \cup Chats \cup Questions \cup CallbackAnswers

Operation(call) == CHOOSE o \in Operations : o.call = call

\* A text longer than the limit is cut and sent as several messages.
Cuts(o) == o.call = "send_message"

\* Without a text there is no request.
NeedsText(o) == o \in Texts

\* What a call comes back with when the server has carried it out: its value, or
\* nullopt or false, or an exception.
Outcomes(wrapper) == {"value", "nothing"}
                       \cup (IF wrapper = "get_bool" THEN {"exception"} ELSE {})
=============================================================================
