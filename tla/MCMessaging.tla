----------------------------- MODULE MCMessaging -----------------------------
(* Messaging for TLC: three bridged events and one that no handler forwards *)
EXTENDS Messaging

MCEvents == <<"post.created", "comment.deleted", "follow.followed", "chat.message.sent">>
=============================================================================
