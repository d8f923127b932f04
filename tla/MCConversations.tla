--------------------------- MODULE MCConversations ---------------------------
EXTENDS Conversations

CONSTANTS h1, h2

MCChat == {h1, h2}
MCCarriers == {h1}

(* Two chats, or one and a coding session; an answer whose write failed or *)
(* was not known to be made is followed on only without a session.         *)
Bounded ==
    sess = "none" \/ (chat[h2] = "none" /\ lost \cup stranded = {})
=============================================================================
