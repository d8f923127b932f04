------------------------- MODULE WorkspaceProtection -------------------------
(***************************************************************************)
(* A protected coding session (workspace_protection.go): Pi works in a copy*)
(* of the user's project; what it leaves is tested independently; and only *)
(* a candidate that passed is written to the original, by the transaction  *)
(* of ApplyTransaction, which is seen from here file by file.  The session,*)
(* its turns and the places of opMu are those of PiSession.  The copy may  *)
(* be written at any time, by the agent, a shell or from outside; so may   *)
(* the original, by the user.                                              *)
(***************************************************************************)
EXTENDS PiSession

CONSTANTS
    File,       \* the source files of the project
    Candidate,  \* what the copy may look like
    Good        \* those on which the user's build and tests pass

(* A file is as in the snapshot, as Pi left it or deleted; the user edits  *)
(* to yet another version.                                                 *)
Snapshot == [f \in File |-> "old"]

ASSUME CandidateAssumption ==
    Candidate \subseteq [File -> {"old", "new", "none"}]
ASSUME GoodAssumption == Good \subseteq Candidate

VARIABLES
    original,  \* the project: [File -> version]
    working,   \* the copy Pi works in
    preparing, \* createConfigured is under way
    verdict,   \* Verification: "TEST_PASS", "applied", or any other status
    tree,      \* CandidateSHA256 of a record that passed
    last,      \* lastCompletion: "", "RUNNING", "NATURAL", "ABORTED" or,
               \* for any other reason to stop, "CUT"
    natural,   \* the queued verification follows a natural end, or no turn
    cand,      \* the tree that is checked or applied by whoever holds opMu
    todo,      \* files the apply has yet to replace
    written,   \* files it has replaced
    edited     \* history: the user edited the project during this apply

verification == <<verdict, tree>>
completion == <<last, natural>>
transaction == <<cand, todo, written>>
disk == <<original, working, edited>>
protectedVars == <<session, disk, preparing, verification, completion, transaction>>

ProtectedInit ==
    /\ NoSession /\ preparing = FALSE
    /\ original = Snapshot /\ working = Snapshot
    /\ verdict = "other" /\ tree = Snapshot
    /\ last = "" /\ natural = TRUE
    /\ cand = Snapshot /\ todo = {} /\ written = {} /\ edited = FALSE

(* UNVERIFIED, VERIFYING, BUILD_PASS, FAIL and INCOMPLETE let nothing be   *)
(* applied.                                                                *)
NoPass == verdict' = "other" /\ tree' = Snapshot
Pass(t) == verdict' = "TEST_PASS" /\ tree' = t

-----------------------------------------------------------------------------
(* Creation: the tree is read, the session made public, the copies written *)
(* and the tree read again.                                                *)

CreateProtected ==
    /\ sess = "none" /\ original = Snapshot
    /\ SetState("PREPARING") /\ preparing' = TRUE
    /\ UNCHANGED <<clean, deleted, op, rpc, process, disk, verification,
                   completion, transaction>>

(* The session may have been closed meanwhile; that is not asked.          *)
Configure ==
    /\ preparing /\ preparing' = FALSE
    /\ \/ original = Snapshot /\ SetState("CONNECTED")
       \/ SetState("FAILED")
    /\ UNCHANGED <<clean, deleted, op, rpc, process, disk, verification,
                   completion, transaction>>

-----------------------------------------------------------------------------
(* Turns and shell commands *)

BeginTurn ==
    /\ Prompt /\ NoPass /\ last' = "RUNNING"
    /\ UNCHANGED <<disk, preparing, natural, transaction>>

(* The conversation is written, the prompt sent; or neither.               *)
Send ==
    /\ op = "send"
    /\ \/ /\ op' = "ask" /\ Call
          /\ turn' = (IF pi = "up" /\ turn = "idle" THEN "asked" ELSE turn)
          /\ UNCHANGED <<sess, dir, late>>
       \/ /\ op' = "" /\ SetState("READY") /\ late' = (late /\ turn # "idle")
          /\ UNCHANGED <<rpc, turn>>
    /\ UNCHANGED <<clean, deleted, pi, scan, aborted, check, disk, preparing,
                   verification, completion, transaction>>

Recorded ==
    /\ scan = "record" /\ scan' = "read"
    /\ UNCHANGED <<sess, clean, deleted, dir, op, rpc, pi, turn, aborted, check,
                   late, disk, preparing, verification, completion, transaction>>

(* abortLocked marks what it finds running.                                *)
CutTurn ==
    /\ Abort \/ Drain
    /\ IF sess \in {"RUNNING", "ABORTING"}
       THEN NoPass /\ last' = "ABORTED"
       ELSE UNCHANGED <<verification, last>>
    /\ UNCHANGED <<disk, preparing, natural, transaction>>

Shell ==
    /\ op = "" /\ sess = "READY" /\ Known
    /\ op' = "shell" /\ SetState("SHELL") /\ Call
    /\ NoPass
    /\ UNCHANGED <<clean, deleted, process, disk, preparing, completion,
                   transaction>>

(* A command without an answer is called back.                             *)
Shelled ==
    /\ op \in {"shell", "unshell"}
    /\ \/ rpc = "answered" /\ Release /\ SetState("READY")
       \/ /\ op = "shell" /\ rpc = "failed" /\ op' = "unshell" /\ Call
          /\ UNCHANGED <<sess, dir>>
       \/ op = "unshell" /\ rpc = "failed" /\ Release /\ SetState("FAILED")
    /\ UNCHANGED <<clean, deleted, process, disk, preparing, verification,
                   completion, transaction>>

-----------------------------------------------------------------------------
(* The verification *)

Ended ==
    /\ EndTurn
    /\ last' = IF scan' = "verify" THEN "NATURAL" ELSE IF aborted THEN "ABORTED" ELSE "CUT"
    /\ UNCHANGED <<disk, preparing, verification, natural, transaction>>

Disqualified ==
    /\ Incomplete /\ NoPass
    /\ UNCHANGED <<disk, preparing, completion, transaction>>

(* beginVerification, by scanPi or by hand.                                *)
BeginChecks ==
    /\ BeginVerification \/ Verify
    /\ IF check' = "queued" /\ check = "no"
       THEN NoPass /\ natural' = (last \in {"", "NATURAL"})
       ELSE NoPass /\ UNCHANGED natural
    /\ UNCHANGED <<disk, preparing, last, transaction>>

(* The candidate is read once and kept as the artifact.                    *)
ReadCandidate ==
    /\ Checks /\ cand' = working
    /\ UNCHANGED <<disk, preparing, verification, completion, todo, written>>

(* The checks are on the candidate in memory; then the copy is read again. *)
Passes == natural /\ cand \in Good /\ working = cand

Judge ==
    /\ Checked
    /\ (Passes /\ Pass(cand)) \/ NoPass
    /\ cand' = Snapshot /\ natural' = TRUE
    /\ UNCHANGED <<disk, preparing, last, todo, written>>

(* A record that is applied stays as it is.                                *)
Mine == verdict = "TEST_PASS"

Review ==
    /\ op = "" /\ Known /\ sess \notin {"RUNNING", "SHELL", "VERIFYING"}
    /\ Mine /\ tree # working /\ NoPass
    /\ UNCHANGED <<session, disk, preparing, completion, transaction>>

-----------------------------------------------------------------------------
(* applyProtection.  A request that does not allow changed tests, where    *)
(* there are any, is refused like any other and changes nothing.           *)

(* Mutation: the state of the session is not asked.                        *)
Apply_AnyState ==
    /\ op = "" /\ Known /\ Mine
    /\ working = tree /\ original = Snapshot /\ \A f \in File : tree[f] # "none"
    /\ op' = "apply" /\ cand' = tree
    /\ todo' = {f \in File : tree[f] # "old"} /\ written' = {} /\ edited' = FALSE
    /\ UNCHANGED <<sess, clean, deleted, dir, rpc, process, original, working,
                   preparing, verification, completion>>

(* Mutation: only the files to be replaced are compared with the snapshot. *)
Apply_ChangedFilesOnly ==
    /\ op = "" /\ Known /\ sess \in {"READY", "CONNECTED"} /\ Mine
    /\ working = tree /\ \A f \in File : tree[f] # "none"
    /\ \A f \in File : tree[f] # "old" => original[f] = "old"
    /\ op' = "apply" /\ cand' = tree
    /\ todo' = {f \in File : tree[f] # "old"} /\ written' = {} /\ edited' = FALSE
    /\ UNCHANGED <<sess, clean, deleted, dir, rpc, process, original, working,
                   preparing, verification, completion>>

Apply ==
    /\ op = "" /\ Known /\ sess \in {"READY", "CONNECTED"} /\ Mine
    /\ IF working # tree
       THEN NoPass /\ UNCHANGED <<op, transaction, edited>>
       ELSE /\ original = Snapshot /\ \A f \in File : tree[f] # "none"
            /\ op' = "apply" /\ cand' = tree
            /\ todo' = {f \in File : tree[f] # "old"} /\ written' = {}
            /\ edited' = FALSE /\ UNCHANGED verification
    /\ UNCHANGED <<sess, clean, deleted, dir, rpc, process, original, working,
                   preparing, completion>>

(* One file, if it is still the one of the snapshot.                       *)
Replace(f) ==
    /\ op = "apply" /\ f \in todo /\ original[f] = "old"
    /\ original' = [original EXCEPT ![f] = cand[f]]
    /\ todo' = todo \ {f} /\ written' = written \cup {f}
    /\ UNCHANGED <<session, working, edited, preparing, verification,
                   completion, cand>>

(* A file that has changed, or any error up to the last write of the       *)
(* receipt.                                                                *)
Refused ==
    /\ op = "apply" /\ op' = "undo" /\ todo' = {}
    /\ UNCHANGED <<sess, clean, deleted, dir, rpc, process, disk, preparing,
                   verification, completion, cand, written>>

(* The file is put back unless it changed again, or that fails.            *)
Undo(f) ==
    /\ op = "undo" /\ f \in written /\ written' = written \ {f}
    /\ original' \in {original} \cup
                     IF original[f] = cand[f] THEN {[original EXCEPT ![f] = "old"]} ELSE {}
    /\ UNCHANGED <<session, working, edited, preparing, verification,
                   completion, cand, todo>>

(* Applied is set, on the record the apply began with; not if the apply    *)
(* failed, were it only in the last save of its receipt (apply.go:274).    *)
EndApply ==
    /\ \/ /\ op = "apply" /\ todo = {} /\ Persist
          /\ verdict' = "applied" /\ tree' = Snapshot
       \/ op = "apply" /\ todo = {} /\ UNCHANGED <<verification, dir>>
       \/ op = "undo" /\ written = {} /\ UNCHANGED <<verification, dir>>
    /\ op' = "" /\ written' = {} /\ cand' = Snapshot /\ edited' = FALSE
    /\ UNCHANGED <<sess, clean, deleted, rpc, process, original, working,
                   preparing, completion, todo>>

-----------------------------------------------------------------------------
(* The environment *)

Work ==
    /\ sess \notin {"none", "CLOSED"} /\ working' \in Candidate
    /\ UNCHANGED <<session, original, edited, preparing, verification,
                   completion, transaction>>

Edit(f) ==
    /\ sess # "CLOSED" /\ original' = [original EXCEPT ![f] = "user"]
    /\ edited' = (edited \/ op \in {"apply", "undo"})
    /\ UNCHANGED <<session, working, preparing, verification, completion,
                   transaction>>

(* A session is loaded as CLOSED; its snapshot has lost its identity.      *)
Restart ==
    /\ sess # "none" /\ SessionRestarts /\ preparing' = FALSE
    /\ last' = "" /\ natural' = TRUE /\ todo' = {} /\ written' = {}
    /\ cand' = Snapshot /\ edited' = FALSE
    /\ UNCHANGED <<original, working, verification>>

(* Steps of the session that do not concern the candidate: of the caller   *)
(* that holds opMu, and of the others.                                     *)
QuietCaller ==
    /\ Unanswered \/ Started \/ Prompted \/ Cleared \/ Aborted \/ Stopped \/ Closed
    /\ UNCHANGED <<disk, preparing, verification, completion, transaction>>

Quiet ==
    /\ Answer \/ Start \/ Close \/ PiDies \/ Waited \/ Eof \/ AgentStart \/ MessageEnd \/ AgentEnd
    /\ UNCHANGED <<disk, preparing, verification, completion, transaction>>

Caller ==
    \/ QuietCaller \/ Send \/ Shelled \/ Judge \/ Refused \/ EndApply
    \/ (op = "closing" /\ CutTurn)
    \/ \E f \in File : Replace(f) \/ Undo(f)

ProtectedNext ==
    \/ CreateProtected \/ Configure \/ BeginTurn \/ Recorded \/ CutTurn \/ Shell
    \/ Ended \/ Disqualified \/ BeginChecks \/ ReadCandidate \/ Review \/ Apply \/ Caller
    \/ Quiet \/ Work \/ Restart \/ \E f \in File : Edit(f)

(* Who holds opMu gives it back: answers are awaited for a bounded time    *)
(* (workspaces.go:679, 777, workspace_shell.go:112) or until the process is*)
(* gone (613), checks have a time limit, and sync.Mutex starves nobody who *)
(* waits for it.  Excepted are the waits of abort and close for a process  *)
(* that lives, and that of close for requests that the session's processes *)
(* began at its bridge (824): the client may be as patient as it likes.    *)
Endless == (Unlimited /\ pi # "gone") \/ op = "scope"

Fairness ==
    /\ WF_protectedVars(~Endless /\ Caller) /\ WF_protectedVars(Ended \/ Disqualified)
    /\ SF_protectedVars(scan = "verify" /\ BeginChecks) /\ SF_protectedVars(ReadCandidate)

ProtectedSpec == ProtectedInit /\ [][ProtectedNext]_protectedVars /\ Fairness
-----------------------------------------------------------------------------
(* Safety: what applyProtection leaves in the original, when it says that  *)
(* it applied, is a tree on which the user's build and tests passed, all   *)
(* files of it and not only those that were replaced; unless the user      *)
(* edited the original while it ran.  The copy and the original are hashed *)
(* anew for that, because both may have changed since the checks.          *)
AppliedPassedAsAWhole ==
    [][op = "apply" /\ op' = "" /\ verdict' = "applied"
       => original \in Good \/ edited]_protectedVars

(* Safety: no turn of the agent is under way while the original is written,*)
(* as "Apply requires an idle session" (workspace_protection.go:640) says; *)
(* although the state that is asked is also written by scanPi, the checks  *)
(* and the wait for the process.  A turn that answers after it was given up*)
(* is excepted: nothing tells of it any more.                              *)
ApplyFindsAgentIdle == op \in {"apply", "undo"} => turn = "idle" \/ late

(* Liveness: a session does not stay VERIFYING, neither between the end of *)
(* the turn and the checks, where only scanPi could lead on, nor behind    *)
(* checks that wait for opMu, unless an abort or a close waits for ever    *)
(* with it.  The code allows that, for a silent agent or when the two wait *)
(* for each other: scanPi for opMu in beginVerification                    *)
(* (workspace_protection.go:390), and whoever holds it for an answer that  *)
(* only scanPi would read (workspaces.go:610).                             *)
VerificationsEnd ==
    (sess = "VERIFYING" ~> sess # "VERIFYING") \/ <>[](Endless /\ sess = "VERIFYING")

(* Violated: docs/PROTECTED_WORKSPACES.md says of INCOMPLETE "the agent did*)
(* not conclude naturally [...]; not a completed solution", and of a later *)
(* verification that it "does not turn a previously incomplete agent       *)
(* response into natural completion".  Checks that were queued before that *)
(* turn do: they find the outcome of the turn before.                      *)
IncompleteStaysUnverified ==
    scan = "read" /\ sess \in {"READY", "CONNECTED"} /\ Mine => last # "CUT"
-----------------------------------------------------------------------------
(* The invariant behind the first two.                                     *)

(* Before createConfigured is done, a session can only be closed or, as    *)
(* there is no process yet, fail to abort.                                 *)
FreshIsIdle ==
    preparing \/ sess = "none" =>
        /\ sess \in {"none", "PREPARING", "CLOSED"} /\ op \in {"", "clear", "scope", "reap"}
        /\ rpc \in {"no", "failed"} /\ pi = "none" /\ turn = "idle" /\ scan = "read"
        /\ check = "no"

Trees == [File -> {"old", "new", "none"}]

TreeTypes ==
    /\ original \in [File -> {"old", "new", "none", "user"}]
    /\ working \in Trees /\ tree \in Trees /\ cand \in Trees

(* A record of a pass is of a tree that passed; and unless the user edits  *)
(* it, the original is that tree but for the files yet to be replaced.     *)
PassIsTrue == verdict = "TEST_PASS" => tree \in Good
Replacing ==
    /\ verdict # "applied"
    /\ edited \/ /\ cand \in Good
                 /\ \A f \in File : original[f] = IF f \in todo THEN "old" ELSE cand[f]
PassedIsApplied == PassIsTrue /\ (op = "apply" => Replacing)

ProtectedInv == SessionInv /\ FreshIsIdle /\ TreeTypes /\ PassedIsApplied
=============================================================================
