------------------------------- MODULE Types -------------------------------
(***************************************************************************)
(* What the from_json functions of types/*.h read: for each type its items, *)
(* in the order in which they are read, and how each is read.               *)
(***************************************************************************)
EXTENDS Sequences

\* tree.at(name): the item is required.
Need(name)       == [name |-> name, how |-> "need", type |-> "scalar"]
\* T::from_json(tree, name): a required object.
Part(name, type) == [name |-> name, how |-> "part", type |-> type]
\* make_optional_from_json of a string, a number or a bool.
Plain(name)       == [name |-> name, how |-> "plain", type |-> "scalar"]
\* make_optional_from_json or make_shared_from_json of an object.
Maybe(name, type) == [name |-> name, how |-> "maybe", type |-> type]
\* make_optional_vector_from_json.
List(name, type)  == [name |-> name, how |-> "list", type |-> type]
\* A loop over tree.at(name).
Each(name, type)  == [name |-> name, how |-> "each", type |-> type]

Needs(names)  == [i \in DOMAIN names |-> Need(names[i])]
Plains(names) == [i \in DOMAIN names |-> Plain(names[i])]

-----------------------------------------------------------------------------
User == Needs(<<"id", "is_bot", "first_name">>)
          \o Plains(<<"last_name", "username", "language_code">>)

ChatPhoto == Needs(<<"small_file_id", "big_file_id">>)

Chat == Needs(<<"type", "id">>)
          \o Plains(<<"title", "username", "first_name", "last_name",
                      "all_members_are_administrators">>)
          \o <<Maybe("photo", "chat_photo")>>
          \o Plains(<<"description", "invite_link">>)
          \o <<Maybe("pinned_message", "message")>>

ChatMember == <<Need("type"), Part("user", "user")>>
                \o Plains(<<"until_date", "can_be_edited", "can_change_info",
                            "can_post_messages", "can_edit_messages",
                            "can_delete_messages", "can_invite_users",
                            "can_restrict_members", "can_pin_messages",
                            "can_promote_members", "can_send_messages",
                            "can_send_media_messages", "can_send_other_messages",
                            "can_add_web_page_previews">>)

Photosize == Needs(<<"file_id", "width", "height">>) \o <<Plain("file_size")>>

Audio == Needs(<<"file_id", "duration">>)
           \o Plains(<<"performer", "title", "mime_type", "file_size">>)

Document == <<Need("file_id"), Maybe("thumb", "photosize")>>
              \o Plains(<<"file_name", "mime_type", "file_size">>)

MaskPosition == Needs(<<"point", "x_shift", "y_shift", "scale">>)

Sticker == Needs(<<"file_id", "width", "height">>)
             \o <<Maybe("thumb", "photosize"), Plain("emoji"), Plain("set_name"),
                  Maybe("mask_position", "mask_position"), Plain("file_size")>>

StickerSet == <<Each("stickers", "sticker")>>
                \o Needs(<<"name", "title", "contains_masks">>)

Video == Needs(<<"file_id", "width", "height", "duration">>)
           \o <<Maybe("thumb", "photosize"), Plain("mime_type"), Plain("file_size")>>

VideoNote == Needs(<<"file_id", "length", "duration">>)
               \o <<Maybe("thumb", "photosize"), Plain("file_size")>>

Voice == Needs(<<"file_id", "duration">>) \o Plains(<<"mime_type", "file_size">>)

\* Rows of photos; nothing is caught between the two loops.
UserProfilePhotos == <<Each("photos", "photosize"), Need("total_count")>>

File == <<Need("file_id")>> \o Plains(<<"file_size", "file_path">>)

Contact == Needs(<<"phone_number", "first_name">>) \o Plains(<<"last_name", "user_id">>)

Location == Needs(<<"latitude", "longitude">>)

Venue == <<Part("location", "location"), Need("title"), Need("address"),
           Plain("foursquare_id")>>

Invoice == Needs(<<"title", "description", "start_parameter", "currency",
                   "total_amount">>)

ShippingAddress == Needs(<<"country_code", "state", "city", "street_line1",
                           "street_line2", "post_code">>)

OrderInfo == Plains(<<"name", "phone_number", "email">>)
               \o <<Maybe("shipping_address", "shipping_address")>>

SuccessfulPayment == Needs(<<"currency", "total_amount", "invoice_payload">>)
                       \o <<Plain("shipping_option_id"), Maybe("order_info", "order_info")>>
                       \o Needs(<<"telegram_payment_charge_id",
                                  "provider_payment_charge_id">>)

Message ==
  <<Need("message_id"), Maybe("from", "user"), Need("date"), Part("chat", "chat"),
    Maybe("forward_from", "user"), Maybe("forward_from_chat", "chat")>>
    \o Plains(<<"forward_from_message_id", "forward_signature", "forward_date">>)
    \o <<Maybe("reply_to_message", "message")>>
    \o Plains(<<"edit_date", "author_signature", "text">>)
    \o <<Maybe("audio", "audio"), Maybe("document", "document"),
         List("photo", "photosize"), Maybe("sticker", "sticker"),
         Maybe("video", "video"), Maybe("voice", "voice"),
         Maybe("video_note", "video_note"), Plain("caption"),
         Maybe("contact", "contact"), Maybe("location", "location"),
         Maybe("venue", "venue"), List("new_chat_members", "user"),
         Maybe("left_chat_member", "user"), Plain("new_chat_title"),
         List("new_chat_photo", "photosize")>>
    \o Plains(<<"delete_chat_photo", "group_chat_created",
                "supergroup_chat_created", "channel_chat_created",
                "migrate_to_chat_id", "migrate_from_chat_id">>)
    \o <<Maybe("pinned_message", "message"), Maybe("invoice", "invoice"),
         Maybe("successful_payment", "successful_payment")>>

CallbackQuery == <<Need("id"), Part("from", "user"), Maybe("message", "message")>>
                   \o Plains(<<"inline_message_id", "chat_instance", "data",
                               "game_short_name">>)

Items == [user |-> User, chat_photo |-> ChatPhoto, chat |-> Chat,
          chat_member |-> ChatMember, photosize |-> Photosize, audio |-> Audio,
          document |-> Document, mask_position |-> MaskPosition,
          sticker |-> Sticker, sticker_set |-> StickerSet, video |-> Video,
          video_note |-> VideoNote, voice |-> Voice,
          user_profile_photos |-> UserProfilePhotos, file |-> File,
          contact |-> Contact, location |-> Location, venue |-> Venue,
          invoice |-> Invoice, shipping_address |-> ShippingAddress,
          order_info |-> OrderInfo, successful_payment |-> SuccessfulPayment,
          message |-> Message, callback_query |-> CallbackQuery]
=============================================================================
