---------------------------- MODULE Conversations ----------------------------
(***************************************************************************)
(* One conversation of the gateway (conversations.go): the chats that      *)
(* write to it (chat_conversation.go), a coding session linked to it       *)
(* (conversations_workspace.go), a browser that saves and deletes it, the  *)
(* upload its messages refer to, and restarts.  Every step holds           *)
(* conversationStore.mu; the revision, which every write raises, is known  *)
(* to whoever compares it as being current or not.                         *)
(***************************************************************************)
EXTENDS PiSession

CONSTANTS
    Chat,     \* requests of proxyChat with the conversation's id
    Carriers  \* those whose message refers to the upload

ASSUME CarriersAssumption == Carriers \subseteq Chat

VARIABLES
    exists,       \* conversation.json is there
    msgs,         \* the messages in it
    pending,      \* the chats whose answer has the status "pending"
    upload,       \* the attachment is there
    other,        \* another conversation refers to it too
    initialized,  \* conversationStore.initialized
    chat,         \* [Chat -> position of the request]
    tab,          \* a browser's copy of the record: "none", "current", "stale"
    seen,         \* the messages in that copy
    torn,         \* history: a deletion failed half way
    lost,         \* history: answers whose settling write failed
    stranded      \* history: answers stored although the append failed

record == <<exists, msgs, pending>>
files == <<upload, other>>
browser == <<tab, seen>>
history == <<torn, lost, stranded>>
vars == <<session, record, files, initialized, chat, browser, history>>

Ask(h) == <<"ask", h>>
Reply(h) == <<"reply", h>>
Pi == <<"pi">>  \* whatever the coding session contributes

(* A record without its session yet, and nobody writing to it.             *)
Init ==
    /\ NoSession
    /\ exists = TRUE /\ msgs = {} /\ pending = {}
    /\ upload = TRUE /\ other \in BOOLEAN
    /\ initialized = TRUE /\ chat = [h \in Chat |-> "none"]
    /\ tab = "none" /\ seen = {} /\ torn = FALSE
    /\ lost = {} /\ stranded = {}

Using == {"begun", "asked", "started", "failed", "over"}
Active == {h \in Chat : chat[h] \in Using}

Referring(S) == \E h \in Carriers : Ask(h) \in S

(* controllerBytes: the record is replaced, or it is not, or it is and the *)
(* sync of its directory fails.                                            *)
Outcomes == {"ok", "refused", "unsure"}
Write(out, M, P) ==
    IF out = "refused"
    THEN UNCHANGED <<record, tab>>
    ELSE /\ msgs' = M /\ pending' = P /\ UNCHANGED exists
         /\ tab' = IF tab = "none" THEN tab ELSE "stale"

Open == initialized /\ exists

Goto(h, l) == chat' = [chat EXCEPT ![h] = l]

-----------------------------------------------------------------------------
(* A chat that is kept *)

(* Mutation: a chat does not ask for the coding session.                   *)
Begin_BesideCoding(h) ==
    /\ chat[h] = "none" /\ Open /\ Active = {} /\ Goto(h, "begun")
    /\ UNCHANGED <<session, record, files, initialized, browser, history>>

(* beginConversationUse.                                                   *)
Begin(h) ==
    /\ chat[h] = "none" /\ Open /\ Active = {} /\ ~Busy
    /\ Goto(h, "begun")
    /\ UNCHANGED <<session, record, files, initialized, browser, history>>

(* start, first half: the user's message; the request may also have been   *)
(* refused, or given up in the queue, before.                              *)
Submit(h) ==
    /\ chat[h] = "begun"
    /\ \/ Goto(h, "over") /\ UNCHANGED <<record, tab>>
       \/ /\ h \in Carriers => upload
          /\ \E out \in Outcomes :
                /\ Write(out, msgs \cup {Ask(h)}, pending)
                /\ Goto(h, IF out = "ok" THEN "asked" ELSE "over")
    /\ UNCHANGED <<session, files, initialized, seen, history>>

(* start, second half: the answer to be.                                   *)
Reserve(h) ==
    /\ chat[h] = "asked"
    /\ \E out \in Outcomes :
          /\ Write(out, msgs \cup {Reply(h)}, pending \cup {h})
          /\ Goto(h, IF out = "ok" THEN "started" ELSE "over")
          /\ stranded' = IF out = "unsure" THEN stranded \cup {h} ELSE stranded
    /\ UNCHANGED <<session, files, initialized, seen, torn, lost>>

(* Mutation: one write only, whatever becomes of it.                       *)
Save_Once(h, P, then) ==
    \/ Write("ok", msgs, P) /\ Goto(h, then) /\ UNCHANGED lost
    \/ /\ Write("refused", msgs, P) /\ UNCHANGED lost
       /\ Goto(h, IF then = "started" THEN "failed" ELSE then)

(* save: if the write fails, one more, of the text stored last and the     *)
(* status "error", and none after that.                                    *)
Save(h, P, then) ==
    \/ Write("ok", msgs, P) /\ Goto(h, then) /\ UNCHANGED lost
    \/ /\ \E out \in Outcomes :
             /\ Write(out, msgs, pending \ {h})
             /\ lost' = IF out = "refused" THEN lost \cup {h} ELSE lost
       /\ Goto(h, IF then = "started" THEN "failed" ELSE then)

Progress(h) ==
    /\ chat[h] = "started" /\ Save(h, pending, "started")
    /\ UNCHANGED <<session, files, initialized, seen, torn, stranded>>

(* finish, or close when the handler returned without it.                  *)
Finish(h) ==
    /\ \/ chat[h] = "started" /\ Save(h, pending \ {h}, "over")
       \/ chat[h] = "failed" /\ Goto(h, "over") /\ UNCHANGED <<record, tab, lost>>
    /\ UNCHANGED <<session, files, initialized, seen, torn, stranded>>

Leave(h) ==
    /\ chat[h] = "over" /\ Goto(h, "ended")
    /\ UNCHANGED <<session, record, files, initialized, browser, history>>

-----------------------------------------------------------------------------
(* A browser *)

Load ==
    /\ Open /\ tab' = "current" /\ seen' = msgs
    /\ UNCHANGED <<session, record, files, initialized, chat, history>>

(* Mutation: the revision is not compared.                                 *)
Current_Any == tab # "none"

(* The revision in a request is compared with that of the record.          *)
Current == tab = "current"

(* updateLocked, with some of the messages of the copy.                    *)
Put(M) ==
    /\ Open /\ Current /\ Active = {}
    /\ Pi \in M <=> Pi \in msgs
    /\ Referring(M) => upload
    /\ \E out \in Outcomes :
          /\ IF out = "refused" THEN UNCHANGED <<record, browser>>
             ELSE /\ msgs' = M /\ pending' = {h \in pending : Reply(h) \in M} /\ UNCHANGED exists
                  /\ tab' = (IF out = "ok" THEN "current" ELSE "stale")
                  /\ seen' = IF out = "ok" THEN M ELSE seen
    /\ UNCHANGED <<session, files, initialized, chat, history>>

DropUpload_Own == upload' = (upload /\ ~Referring(msgs))  \* mutation

DropUpload == upload' = (upload /\ (other \/ ~Referring(msgs)))
DropSession ==
    /\ deleted' = (Known \/ deleted) /\ dir' = (IF Known THEN "no" ELSE dir)
    /\ UNCHANGED <<sess, clean, op, rpc, process>>

(* Deletion of what is owned, in this order: the uploads nobody else       *)
(* refers to, the sessions, the record.  It may end after any of them.     *)
Delete ==
    /\ Open /\ Current /\ Active = {}
    /\ Known => sess = "CLOSED" /\ clean
    /\ \/ /\ DropUpload /\ torn' = TRUE
          /\ UNCHANGED <<session, record>>
       \/ /\ DropUpload /\ DropSession /\ torn' = TRUE
          /\ UNCHANGED record
       \/ /\ DropUpload /\ DropSession /\ exists' = FALSE /\ msgs' = {}
          /\ pending' = {} /\ UNCHANGED torn
    /\ UNCHANGED <<other, initialized, chat, browser, lost, stranded>>

-----------------------------------------------------------------------------
(* The upload, and other conversations that refer to it *)

(* DELETE of an attachment.                                                *)
Discard ==
    /\ initialized /\ upload /\ ~Referring(msgs) /\ ~other
    /\ upload' = FALSE
    /\ UNCHANGED <<session, record, other, initialized, chat, browser, history>>

OtherRefers ==
    /\ initialized /\ upload /\ ~other /\ other' = TRUE
    /\ UNCHANGED <<session, record, upload, initialized, chat, browser, history>>

OtherDeleted ==
    /\ initialized /\ other /\ other' = FALSE
    /\ upload' = (upload /\ Referring(msgs))
    /\ UNCHANGED <<session, record, initialized, chat, browser, history>>

-----------------------------------------------------------------------------
(* The coding session *)

(* create, linkLocked and createConfigured.                                *)
Create ==
    /\ Open /\ sess = "none" /\ dir = "no"
    /\ \E out \in Outcomes :
          /\ Write(out, msgs, pending)
          /\ IF out = "ok"
             THEN sess' \in {"CONNECTED", "FAILED"} /\ dir' = "session"
             ELSE dir' = "unlinked" /\ UNCHANGED sess
    /\ UNCHANGED <<clean, deleted, op, rpc, process, files, initialized, chat,
                  seen, history>>

(* prepareConversationPrompt, and the prompt sent.                         *)
Record ==
    /\ op = "send"
    /\ \/ /\ Active = {} /\ Open
          /\ Write("ok", msgs \cup {Pi}, pending)
          /\ op' = "ask" /\ Call /\ turn' = (IF pi = "up" /\ turn = "idle" THEN "asked" ELSE turn)
          /\ UNCHANGED <<sess, dir, late>>
       \/ /\ \E out \in {"refused", "unsure"} :
                /\ out = "unsure" => Active = {} /\ Open
                /\ Write(out, msgs \cup {Pi}, pending)
          /\ op' = "" /\ SetState("READY") /\ late' = (late /\ turn # "idle")
          /\ UNCHANGED <<rpc, turn>>
    /\ UNCHANGED <<clean, deleted, pi, scan, aborted, check, files,
                  initialized, chat, seen, history>>

(* The rest of recordPiMessage.  If the append fails, the session says so. *)
Append ==
    /\ scan = "record" /\ scan' = "read"
    /\ \E out \in Outcomes :
          /\ out # "refused" => Open
          /\ Write(out, msgs \cup {Pi}, pending)
          /\ IF out = "ok" THEN UNCHANGED dir ELSE Persist
    /\ UNCHANGED <<sess, clean, deleted, op, rpc, pi, turn, aborted, check, late,
                  files, initialized, chat, seen, history>>

-----------------------------------------------------------------------------
(* Restarts *)

Crash ==
    /\ SessionRestarts
    /\ initialized' = FALSE
    /\ chat' = [h \in Chat |-> IF chat[h] = "none" THEN "none" ELSE "ended"]
    /\ UNCHANGED <<record, files, browser, history>>

(* initializeLocked, by the first request: what is pending was             *)
(* interrupted.  A write that fails is not tried again.                    *)
Initialize ==
    /\ ~initialized /\ initialized' = TRUE
    /\ IF pending # {}
       THEN \E out \in Outcomes :
               /\ Write(out, msgs, {})
               /\ lost' = IF out = "refused" THEN lost \cup pending ELSE lost
       ELSE UNCHANGED <<record, tab, lost>>
    /\ UNCHANGED <<session, files, chat, seen, torn, stranded>>

Chats == \E h \in Chat :
    Begin(h) \/ Submit(h) \/ Reserve(h) \/ Progress(h) \/ Finish(h) \/ Leave(h)

Next ==
    \/ Chats \/ Load \/ Delete \/ Discard \/ OtherRefers \/ OtherDeleted
    \/ \E M \in SUBSET seen : Put(M)
    \/ Create \/ Record \/ Append \/ Crash \/ Initialize
    \/ /\ SessionNext
       /\ UNCHANGED <<record, files, initialized, chat, browser, history>>

Spec == Init /\ [][Next]_vars
-----------------------------------------------------------------------------
(* Chat and coding never write to a conversation at the same time, and no  *)
(* two chats do (docs/CONVERSATIONS.md:51-52); a turn of which the session *)
(* lost track is not counted (workspaces.go:746-784, conversations.go:302).*)
OneAtATime == Active # {} /\ turn # "idle" => late

(* Once the store is in use, an answer is pending only while its chat is   *)
(* under way: what was cut short became "error" or "interrupted".  "Nor    *)
(* leave the browser polling a permanently pending record"                 *)
(* (chat_conversation.go:90) and "it does not leave a permanently live     *)
(* spinner" (docs/CONVERSATIONS.md:42) say so without exception; the code  *)
(* has two.  An answer is lost when the write that settles it fails: the   *)
(* second one of save (chat_conversation.go:95), or the one of             *)
(* initializeLocked, which is not tried again (conversations.go:340, 361). *)
(* And it is stranded when start stored it, was told otherwise and returned*)
(* (chat_conversation.go:72): no write that settles it is tried before the *)
(* next start of the gateway.                                              *)
RepliesSettle ==
    initialized => pending \subseteq Active \cup lost \cup stranded

(* No step loses a message: a save removes at most what its browser has    *)
(* seen, and nothing of the coding session (conversations.go:238-301).     *)
HistoryIsKept == [][exists' => msgs \ msgs' \subseteq seen \ {Pi}]_vars

(* An upload outlives every conversation that refers to it, whoever deletes*)
(* what and when, unless a deletion stopped half way (conversations.go:600,*)
(* attachments.go:145).                                                    *)
AttachmentsAreKept == Referring(msgs) \/ other => upload \/ torn

(* Nothing under way when a conversation is deleted brings back the record *)
(* or its session (docs/CONVERSATIONS.md:77-78): neither a late write of   *)
(* the session's state nor a message that was already read.                *)
DeletedStaysDeleted ==
    [][/\ ~exists => ~exists'
       /\ deleted /\ deleted' /\ dir # "session" => dir' # "session"]_vars
-----------------------------------------------------------------------------
(* The invariant behind these properties.                                  *)

Message == {Ask(h) : h \in Chat} \cup {Reply(h) : h \in Chat} \cup {Pi}

RecordTypes == /\ exists \in BOOLEAN /\ msgs \subseteq Message /\ pending \subseteq Chat
               /\ upload \in BOOLEAN /\ other \in BOOLEAN
ChatTypes == /\ initialized \in BOOLEAN
             /\ chat \in [Chat -> {"none", "ended"} \cup Using]
BrowserTypes == /\ tab \in {"none", "current", "stale"} /\ seen \subseteq Message
                /\ torn \in BOOLEAN
                /\ lost \subseteq Chat /\ stranded \subseteq Chat

TypeOK == SessionTypes /\ RecordTypes /\ ChatTypes /\ BrowserTypes

(* An answer is pending until its chat has given it a status, or the next  *)
(* start of the gateway has.                                               *)
Settling ==
    /\ ~initialized => \A h \in Chat : chat[h] \in {"none", "ended"}
    /\ \A h \in pending \ (lost \cup stranded) :
          chat[h] = "started" \/ (~initialized /\ chat[h] = "ended")

(* A copy of the current revision is a copy of the record.                 *)
CopyIsTrue == exists /\ tab = "current" => seen = msgs

DeletedWasThere == deleted => sess # "none"

Inv ==
    /\ TypeOK /\ SessionInv /\ OneAtATime /\ Settling /\ CopyIsTrue
    /\ DeletedWasThere /\ AttachmentsAreKept
=============================================================================
