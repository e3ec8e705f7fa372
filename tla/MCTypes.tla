------------------------------ MODULE MCTypes ------------------------------
(* What the operations of a sender read, what the callbacks of a listener are  *)
(* offered, and what a program may read itself.                               *)
EXTENDS AnswerReader

Updates == {[wrapper |-> "callback", item |-> Part(part[1], part[2])] :
              part \in {<<"message", "message">>, <<"edited_message", "message">>,
                         <<"callback_query", "callback_query">>}}
Programs == {[wrapper |-> "from_json", item |-> Part("it", type)] :
               type \in {"sticker_set", "user_profile_photos"}}
AllRoots == Answers \cup Updates \cup Programs
Statuses == {<<"chat_member", "type">>}
=============================================================================
