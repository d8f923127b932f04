------------------------------ MODULE PiSession ------------------------------
(***************************************************************************)
(* A coding session (PiWorkspaceSession of workspaces.go): its operations, *)
(* one at a time under opMu; the Pi process and its agent; scanPi, which   *)
(* reads what the agent emits and hands answers to whoever waits for them; *)
(* the goroutine that waits for the process, and the one that verifies.    *)
(* What a turn does to the conversation is in Conversations.               *)
(***************************************************************************)
EXTENDS Naturals

VARIABLES
    sess,     \* PiWorkspaceSession.State, "none" before it is created
    clean,    \* ClosedCleanly
    deleted,  \* deleted, together with its conversation
    dir,      \* its directory: "no", "session", "unlinked" or "remains"
    op,       \* what holds opMu and where it stands, "" if nothing does
    rpc,      \* its call of Pi: "no", "sent", "answered" or "failed"
    pi,       \* the process: "none", "up", "dead", or "gone" when waited for
    turn,     \* the turn of the agent, as far as it was read
    scan,     \* scanPi: "read", "record" a message, "end", "cut" or "verify"
              \* a turn
    aborted,  \* lastCompletion is "ABORTED"
    check,    \* the verification: "no", "queued" or "running"
    late      \* history: the state no longer tells of the turn that is read

process == <<pi, turn, scan, aborted, check, late>>
session == <<sess, clean, deleted, dir, op, rpc, process>>

NoSession ==
    /\ sess = "none" /\ clean = FALSE /\ deleted = FALSE /\ dir = "no"
    /\ op = "" /\ rpc = "no" /\ pi = "none" /\ turn = "idle" /\ scan = "read"
    /\ aborted = FALSE /\ check = "no" /\ late = FALSE

(* In workspaceManager.sessions.                                           *)
Known == sess # "none" /\ ~deleted

(* beginConversationUse: a turn, or the check of one, is under way.        *)
Busy == Known /\ sess \in {"RUNNING", "ABORTING", "VERIFYING"}

(* Mutation: persistLocked does not ask.                                   *)
Persist_Always == dir' = "session"

(* persistLocked refuses once the session is deleted; writeJSON would make *)
(* the directory again.                                                    *)
Persist == dir' = IF deleted THEN dir ELSE "session"

SetState(s) == sess' = s /\ Persist

Call == rpc' = IF pi = "up" THEN "sent" ELSE "failed"
Release == op' = "" /\ rpc' = "no"

(* An answer is handed over by scanPi, if that is reading; Pi answers an   *)
(* abort when its turn is over.                                            *)
Answer ==
    /\ rpc = "sent" /\ pi = "up" /\ scan = "read"
    /\ op \in {"abort", "settle"} => turn = "idle"
    /\ rpc' = "answered"
    /\ UNCHANGED <<sess, clean, deleted, dir, op, process>>

(* Whose waits nothing limits but the client's own patience: those of abort*)
(* and close, with the context of their request.                           *)
Unlimited == op \in {"clear", "drain", "abort", "settle"} /\ rpc = "sent"

(* Mutation: rpc does not watch the process, only the clock and the client.*)
Unanswered_Blind ==
    /\ rpc = "sent" /\ rpc' = "failed"
    /\ Unlimited => pi # "gone"
    /\ turn' \in {turn} \cup IF op = "ask" /\ turn = "asked" THEN {"idle"} ELSE {}
    /\ UNCHANGED <<sess, clean, deleted, dir, op, pi, scan, aborted, check, late>>

(* The time is up, the client is gone or the process is; or Pi refuses.    *)
Unanswered ==
    /\ rpc = "sent" /\ rpc' = "failed"
    /\ turn' \in {turn} \cup IF op = "ask" /\ turn = "asked" THEN {"idle"} ELSE {}
    /\ UNCHANGED <<sess, clean, deleted, dir, op, pi, scan, aborted, check, late>>

-----------------------------------------------------------------------------
(* The operations *)

Start ==
    /\ op = "" /\ sess = "CONNECTED" /\ Known
    /\ op' = "start" /\ pi' = "up" /\ rpc' = "sent" /\ SetState("STARTING")
    /\ UNCHANGED <<clean, deleted, turn, scan, aborted, check, late>>

Kill == pi' = IF pi = "up" THEN "dead" ELSE pi

Started ==
    /\ op = "start" /\ Release
    /\ \/ rpc = "answered" /\ SetState("READY") /\ UNCHANGED pi
       \/ rpc = "failed" /\ Kill /\ UNCHANGED <<sess, dir>>
       \/ rpc = "answered" /\ Kill /\ SetState("FAILED")  \* verifyScope
    /\ UNCHANGED <<clean, deleted, turn, scan, aborted, check, late>>

(* prompt: the state first, then the conversation, then Pi.                *)
Prompt ==
    /\ op = "" /\ sess = "READY" /\ Known
    /\ op' = "send" /\ SetState("RUNNING") /\ aborted' = FALSE
    /\ UNCHANGED <<clean, deleted, rpc, pi, turn, scan, check, late>>

Prompted ==
    /\ op = "ask" /\ Release
    /\ \/ rpc = "answered" /\ UNCHANGED <<sess, dir, late>>
       \/ rpc = "failed" /\ SetState("FAILED") /\ late' = (turn # "idle")
    /\ UNCHANGED <<clean, deleted, pi, turn, scan, aborted, check>>

(* abort, and the drain of close: what is queued is cleared, then the turn *)
(* is ended.                                                               *)
Clear(then) ==
    /\ aborted' = (aborted \/ sess \in {"RUNNING", "ABORTING"})
    /\ IF sess \in {"RUNNING", "ABORTING"} THEN Persist ELSE UNCHANGED dir
    /\ op' = then /\ Call
    /\ UNCHANGED <<sess, clean, deleted, pi, turn, scan, check, late>>

Abort ==
    /\ op = "" /\ Known /\ sess \notin {"CONNECTED", "CLOSED"}
    /\ Clear("clear")

Cleared ==
    /\ op \in {"clear", "drain"}
    /\ \/ rpc = "failed" /\ Release /\ UNCHANGED <<sess, dir>>
       \/ /\ rpc = "answered" /\ SetState("ABORTING")
          /\ op' = (IF op = "clear" THEN "abort" ELSE "settle") /\ Call
    /\ UNCHANGED <<clean, deleted, process>>

Aborted ==
    /\ op \in {"abort", "settle"}
    /\ \/ rpc = "failed" /\ Release /\ UNCHANGED <<sess, dir>>
       \/ /\ rpc = "answered" /\ SetState("READY")
          /\ op' = (IF op = "abort" THEN "" ELSE "scope") /\ rpc' = "no"
    /\ UNCHANGED <<clean, deleted, process>>

Close ==
    /\ op = "" /\ Known
    /\ op' = (IF sess \in {"RUNNING", "ABORTING"} THEN "closing" ELSE "scope")
    /\ UNCHANGED <<sess, clean, deleted, dir, rpc, process>>

(* abortLocked looks at the state again.  It may be another one by now, but*)
(* nobody makes it CONNECTED or CLOSED meanwhile.                          *)
Drain == op = "closing" /\ Clear("drain")

(* The bridge is drained and the whole scope stopped, or close gives up.   *)
Stopped ==
    /\ op = "scope"
    /\ \/ op' = "" /\ UNCHANGED <<sess, dir, pi>>
       \/ op' = "reap" /\ SetState("CLOSED") /\ Kill
    /\ UNCHANGED <<clean, deleted, rpc, turn, scan, aborted, check, late>>

Closed ==
    /\ op = "reap" /\ op' = ""
    /\ \/ pi \in {"none", "gone"} /\ clean' = TRUE /\ Persist
       \/ UNCHANGED <<clean, dir>>
    /\ UNCHANGED <<sess, deleted, rpc, process>>

-----------------------------------------------------------------------------
(* The process and what is read of it *)

PiDies ==
    /\ pi = "up" /\ pi' = "dead"
    /\ UNCHANGED <<sess, clean, deleted, dir, op, rpc, turn, scan, aborted, check, late>>

(* The goroutine that waits for the process.                               *)
Waited ==
    /\ pi = "dead" /\ pi' = "gone"
    /\ sess' = (IF sess = "CLOSED" THEN sess ELSE "FAILED") /\ Persist
    /\ late' = (turn # "idle")
    /\ UNCHANGED <<clean, deleted, op, rpc, turn, scan, aborted, check>>

(* Nothing is left to read.                                                *)
Eof ==
    /\ pi \in {"dead", "gone"} /\ scan = "read" /\ turn # "idle"
    /\ turn' = "idle" /\ late' = FALSE
    /\ UNCHANGED <<sess, clean, deleted, dir, op, rpc, pi, scan, aborted, check>>

AgentStart ==
    /\ scan = "read" /\ turn = "asked" /\ turn' = "busy" /\ SetState("RUNNING")
    /\ UNCHANGED <<clean, deleted, op, rpc, pi, scan, aborted, check, late>>

(* recordPiMessage, up to the lock of the conversations.                   *)
MessageEnd ==
    /\ scan = "read" /\ turn = "busy" /\ ~deleted /\ scan' = "record"
    /\ UNCHANGED <<sess, clean, deleted, dir, op, rpc, pi, turn, aborted, check, late>>

AgentEnd ==
    /\ scan = "read" /\ turn = "busy"
    /\ turn' = "idle" /\ late' = FALSE /\ scan' = "end"
    /\ IF sess = "CLOSED" THEN UNCHANGED <<sess, dir>> ELSE SetState("VERIFYING")
    /\ UNCHANGED <<clean, deleted, op, rpc, pi, aborted, check>>

-----------------------------------------------------------------------------
(* The verification *)

Queue == check' = "queued" /\ SetState("VERIFYING")

(* onProtectionAgentEnd: how the turn ended, under the mutex.  One that    *)
(* ended of itself is verified, any other is incomplete.                   *)
EndTurn ==
    /\ scan = "end"
    /\ scan' = "cut" \/ (~aborted /\ scan' = "verify")
    /\ UNCHANGED <<sess, clean, deleted, dir, op, rpc, pi, turn, aborted, check, late>>

(* The mutex is taken once more for that.                                  *)
Incomplete ==
    /\ scan = "cut" /\ scan' = "read"
    /\ sess' = (IF sess = "CLOSED" THEN sess ELSE "READY") /\ Persist
    /\ late' = (turn # "idle" \/ op = "send")
    /\ UNCHANGED <<clean, deleted, op, rpc, pi, turn, aborted, check>>

(* scanPi itself takes opMu for that.                                      *)
BeginVerification ==
    /\ scan = "verify" /\ op = "" /\ scan' = "read"
    /\ IF sess \in {"READY", "CONNECTED", "VERIFYING"} /\ check = "no"
       THEN Queue
       ELSE /\ sess' = (IF sess = "VERIFYING" THEN "READY" ELSE sess)
            /\ Persist /\ UNCHANGED check
    /\ UNCHANGED <<clean, deleted, op, rpc, pi, turn, aborted, late>>

Verify ==
    /\ op = "" /\ Known /\ sess \in {"READY", "CONNECTED"} /\ check = "no"
    /\ Queue
    /\ UNCHANGED <<clean, deleted, op, rpc, pi, turn, scan, aborted, late>>

Checks ==
    /\ check = "queued" /\ op = "" /\ check' = "running" /\ op' = "check"
    /\ UNCHANGED <<sess, clean, deleted, dir, rpc, pi, turn, scan, aborted, late>>

(* The receipt is written whatever has become of the session: writeJSON    *)
(* makes its directory.                                                    *)
Checked ==
    /\ check = "running" /\ check' = "no" /\ op' = ""
    /\ sess' = IF sess # "VERIFYING" THEN sess
               ELSE IF pi \in {"none", "gone"} THEN "CONNECTED" ELSE "READY"
    /\ dir' = IF ~deleted THEN "session" ELSE IF dir = "no" THEN "remains" ELSE dir
    /\ UNCHANGED <<clean, deleted, rpc, pi, turn, scan, aborted, late>>

SessionNext ==
    \/ Answer \/ Unanswered \/ Start \/ Started \/ Prompt \/ Prompted
    \/ Abort \/ Cleared \/ Aborted \/ Close \/ Drain \/ Stopped \/ Closed
    \/ PiDies \/ Waited \/ Eof \/ AgentStart \/ MessageEnd \/ AgentEnd
    \/ EndTurn \/ Incomplete \/ BeginVerification \/ Verify \/ Checks \/ Checked

(* The process ends and the gateway starts anew: Pi dies with its parent;  *)
(* a session on disk is CLOSED, and closed again cleanly by hand.          *)
SessionRestarts ==
    /\ sess' = (IF dir \in {"session", "unlinked"} THEN "CLOSED" ELSE "none")
    /\ dir' = (IF dir = "unlinked" THEN "session" ELSE dir)
    /\ clean' \in {FALSE, clean} /\ deleted' = FALSE
    /\ op' = "" /\ rpc' = "no" /\ pi' = "none" /\ turn' = "idle" /\ scan' = "read"
    /\ aborted' = FALSE /\ check' = "no" /\ late' = FALSE
-----------------------------------------------------------------------------
(* What the session knows of its turn, with the places of opMu that the    *)
(* modules which extend this one add.                                      *)

States == {"none", "PREPARING", "CONNECTED", "STARTING", "READY", "RUNNING", "SHELL", "ABORTING",
           "VERIFYING", "CLOSED", "FAILED"}
Callers == {"", "start", "send", "ask", "clear", "closing", "drain", "abort", "settle", "scope",
            "reap", "check", "shell", "unshell", "apply", "undo"}

SessionPlaces ==
    /\ sess \in States /\ op \in Callers /\ dir \in {"no", "session", "unlinked", "remains"}
    /\ rpc \in {"no", "sent", "answered", "failed"}
    /\ pi \in {"none", "up", "dead", "gone"} /\ turn \in {"idle", "asked", "busy"}
    /\ scan \in {"read", "record", "end", "cut", "verify"}
    /\ check \in {"no", "queued", "running"}
SessionFlags ==
    clean \in BOOLEAN /\ deleted \in BOOLEAN /\ aborted \in BOOLEAN /\ late \in BOOLEAN
SessionTypes == SessionPlaces /\ SessionFlags

Lost == turn = "idle" \/ late

(* Of a turn that goes on the state tells, unless the session lost track of*)
(* it; VERIFYING tells of it, too, while scanPi is not done with the turn  *)
(* before and thus hands over no answer to the prompt.                     *)
TurnIsTold ==
    Lost \/ /\ ~deleted
            /\ \/ sess \in {"RUNNING", "ABORTING"}
               \/ /\ sess = "VERIFYING" /\ scan \in {"end", "cut", "verify"}
                  /\ op = "ask" /\ rpc # "answered"

(* A prompt under way begins a turn of which the state already tells.      *)
PromptIsTold ==
    op = "send" =>
        /\ sess \in {"RUNNING", "READY", "FAILED", "VERIFYING"} /\ ~deleted /\ Lost
        /\ \/ pi # "up" \/ late \/ sess = "RUNNING"
           \/ sess = "VERIFYING" /\ scan \in {"end", "cut", "verify"}

(* Whoever holds opMu to start, stop, apply or run a command found no turn,*)
(* and none begins meanwhile; an abort that was answered ended it.         *)
HolderFindsNone ==
    /\ op \in {"start", "scope", "shell", "unshell", "apply", "undo"} => Lost
    /\ op \in {"abort", "settle"} /\ rpc = "answered" => turn = "idle"
    /\ check = "running" <=> op = "check"

SessionInv == SessionTypes /\ TurnIsTold /\ PromptIsTold /\ HolderFindsNone
=============================================================================
