-------------------------- MODULE ApplyTransaction --------------------------
(***************************************************************************)
(* How verified files reach the user's repository: applyTaskInternal of    *)
(* internal/app/apply.go, called once by the agent when the task asked for *)
(* it (finishVerifiedTask of agent.go) and any number of times by the user *)
(* as long as the task is not applied.  The repository belongs to the user,*)
(* who edits it at any moment; any system call may fail; the process may   *)
(* crash, which ends every task (their frozen metadata is in memory only). *)
(* A task holds its own mutex for the whole transaction.                   *)
(***************************************************************************)
EXTENDS Naturals

CONSTANTS N,     \* the changed files are 1..N, in the order they are applied
          New    \* those that did not exist when the task froze the tree;
                 \* they live in one directory that did not exist either

ASSUME NAssumption == N \in Nat \ {0}
ASSUME NewAssumption == New \subseteq 1..N

VARIABLES
    tree,     \* [1..N -> Contents]: the file in the repository
    dir,      \* the directory of the new files: "absent", "made", "theirs"
    temps,    \* files staged under a temporary name in the repository
    backup,   \* files saved by the latest transaction
    disk,     \* receipt.json of the latest transaction, or NoReceipt
    rcpt,     \* its copy in memory
    pc, i,    \* position of the transaction, and the entry it looks at
    failed,   \* ret # nil
    errors,   \* len(receipt.RollbackErrors) > 0
    status,   \* Task.Status: "applying" (automatic) or "PASS"
    applied,  \* Task.Applied
    told,     \* what the last transaction returned
    late      \* history: edits made between the last check and the rename

taskVars == <<status, applied, told>>
diskVars == <<tree, dir, temps, backup, disk>>
vars == <<tree, dir, temps, backup, disk, rcpt, pc, i, failed, errors,
          status, applied, told, late>>

Files == 1..N
Contents == {"absent", "before", "after", "edited"}
Original(f) == IF f \in New THEN "absent" ELSE "before"

Receipt(s, n, d) == [status |-> s, applied |-> n, made |-> d]
NoReceipt == Receipt("none", 0, FALSE)

Init ==
    /\ tree = [f \in Files |-> Original(f)]
    /\ dir = "absent" /\ temps = {} /\ backup = {}
    /\ disk = NoReceipt /\ rcpt = NoReceipt
    /\ pc = "idle" /\ i = 1
    /\ failed = FALSE /\ errors = FALSE
    /\ status \in {"applying", "PASS"}
    /\ applied = FALSE /\ told = "nothing" /\ late = {}

-----------------------------------------------------------------------------
(* readApplySource: the file is what it was when the task froze it.        *)
Unchanged(f) == tree[f] = Original(f)

Goto(l, k) == pc' = l /\ i' = k
Persist == disk' = rcpt'
PersistFails == disk' \in {disk, rcpt'}  \* before or after the rename

(* Errors before the receipt exists end the transaction: nothing to undo.  *)
GiveUp ==
    /\ Goto("settle", 1)
    /\ told' = "refused"
    /\ UNCHANGED <<diskVars, rcpt, failed, errors, status, applied, late>>

(* Later errors lead through the deferred rollback.                        *)
RollBack ==
    /\ failed' = TRUE
    /\ Goto("rollback", rcpt'.applied)

Begin ==
    /\ pc = "idle" /\ ~applied
    /\ Goto("inspect", 1)
    /\ UNCHANGED <<diskVars, rcpt, failed, errors, taskVars, late>>

(* ALL originals are inspected before anything is written.                 *)
Inspect ==
    /\ pc = "inspect"
    /\ \/ /\ Unchanged(i)
          /\ IF i = N THEN Goto("backup", 1) ELSE Goto("inspect", i + 1)
          /\ UNCHANGED <<diskVars, rcpt, failed, errors, taskVars, late>>
       \/ GiveUp

(* Mutation: the receipt is first written when the files have been staged. *)
BackUp_NoReceipt ==
    /\ pc = "backup"
    /\ backup' = (IF i = 1 THEN {} ELSE backup) \cup ({i} \ New)
    /\ rcpt' = Receipt("PREPARED", 0, FALSE)
    /\ IF i = N THEN Goto("stage", 1) ELSE Goto("backup", i + 1)
    /\ UNCHANGED <<tree, dir, temps, disk, failed, errors, taskVars, late>>

(* One backup per existing file, then the receipt.                         *)
BackUp ==
    /\ pc = "backup"
    /\ \/ /\ backup' = (IF i = 1 THEN {} ELSE backup) \cup ({i} \ New)
          /\ rcpt' = Receipt("PREPARED", 0, FALSE)
          /\ IF i = N THEN Persist /\ Goto("stage", 1)
             ELSE Goto("backup", i + 1) /\ UNCHANGED disk
          /\ UNCHANGED <<tree, dir, temps, failed, errors, taskVars, late>>
       \/ GiveUp

(* ensureApplyParents and stageApplyFile for one entry; the last one saves *)
(* the receipt, which now names the directory.                             *)
Stage ==
    /\ pc = "stage"
    /\ LET mkdir == i \in New /\ dir = "absent"
       IN  /\ dir' = IF mkdir THEN "made" ELSE dir
           /\ rcpt' = [rcpt EXCEPT !.made = @ \/ mkdir]
           /\ \/ /\ temps' = temps \cup {i}
                 /\ \/ /\ IF i = N THEN Persist /\ Goto("check", 1)
                          ELSE Goto("stage", i + 1) /\ UNCHANGED disk
                       /\ UNCHANGED failed
                    \/ i = N /\ PersistFails /\ RollBack
              \/ UNCHANGED <<temps, disk>> /\ RollBack
    /\ UNCHANGED <<tree, backup, errors, taskVars, late>>

ParentFails ==
    /\ pc = "stage" /\ UNCHANGED rcpt /\ RollBack
    /\ UNCHANGED <<diskVars, errors, taskVars, late>>

(* verifyApplyEntry for the complete set.                                  *)
CheckAll ==
    /\ pc = "check"
    /\ UNCHANGED rcpt
    /\ \/ /\ \A f \in Files : Unchanged(f)
          /\ Goto("verify", 1) /\ UNCHANGED failed
       \/ RollBack
    /\ UNCHANGED <<diskVars, errors, taskVars, late>>

(* Mutation: the check of the complete set is taken for good.              *)
Verify_Once ==
    /\ pc = "verify" /\ UNCHANGED rcpt
    /\ Goto("rename", i)
    /\ UNCHANGED <<failed, diskVars, errors, taskVars, late>>

(* verifyApplyEntry again, for the entry about to be renamed.              *)
Verify ==
    /\ pc = "verify" /\ UNCHANGED rcpt
    /\ \/ Unchanged(i) /\ Goto("rename", i) /\ UNCHANGED failed
       \/ RollBack
    /\ UNCHANGED <<diskVars, errors, taskVars, late>>

(* Mutation: an entry is remembered when its directory has been synced.    *)
Rename_Remembered ==
    /\ pc = "rename"
    /\ tree' = [tree EXCEPT ![i] = "after"] /\ temps' = temps \ {i}
    /\ \/ /\ rcpt' = [rcpt EXCEPT !.applied = i]
          /\ Goto("record", i) /\ UNCHANGED failed
       \/ rcpt' = rcpt /\ RollBack
    /\ UNCHANGED <<dir, backup, disk, errors, taskVars, late>>

(* The staged file replaces whatever is there now.                         *)
Rename ==
    /\ pc = "rename"
    /\ \/ /\ tree' = [tree EXCEPT ![i] = "after"] /\ temps' = temps \ {i}
          /\ rcpt' = [rcpt EXCEPT !.applied = i]
          /\ Goto("record", i) /\ UNCHANGED failed
       \/ UNCHANGED <<tree, temps, rcpt>> /\ RollBack
    /\ UNCHANGED <<dir, backup, disk, errors, taskVars, late>>

(* Mutation: the receipt is only saved when everything has been renamed.   *)
Record_AtTheEnd ==
    /\ pc = "record" /\ UNCHANGED rcpt
    /\ IF i = N THEN Persist /\ Goto("finalize", 1)
       ELSE Goto("verify", i + 1) /\ UNCHANGED disk
    /\ UNCHANGED <<failed, tree, dir, temps, backup, errors, taskVars, late>>

(* The directory is synced and the receipt saved before the next entry.    *)
Record ==
    /\ pc = "record" /\ UNCHANGED rcpt
    /\ \/ /\ Persist /\ UNCHANGED failed
          /\ IF i = N THEN Goto("finalize", 1) ELSE Goto("verify", i + 1)
       \/ PersistFails /\ RollBack
    /\ UNCHANGED <<tree, dir, temps, backup, errors, taskVars, late>>

Finalize ==
    /\ pc = "finalize"
    /\ rcpt' = [rcpt EXCEPT !.status = "APPLIED"]
    /\ \/ /\ Persist /\ applied' = TRUE
          /\ Goto("clean", 1) /\ UNCHANGED failed
       \/ PersistFails /\ RollBack /\ UNCHANGED applied
    /\ UNCHANGED <<tree, dir, temps, backup, errors, status, told, late>>

-----------------------------------------------------------------------------
(* The deferred function: rollback in reverse order, cleanup, receipt.     *)

(* rollbackApplyEntry reads the file: what is no longer ours stays.        *)
RollbackEntry ==
    /\ pc = "rollback"
    /\ IF i = 0 THEN Goto("clean", 1) /\ UNCHANGED errors
       ELSE \/ tree[i] = "after" /\ Goto("restore", i) /\ UNCHANGED errors
            \/ Goto("rollback", i - 1) /\ errors' = TRUE
    /\ rcpt' = [rcpt EXCEPT !.status = "ROLLED_BACK"]
    /\ UNCHANGED <<diskVars, failed, taskVars, late>>

(* The saved bytes are renamed into place, a new file is removed.          *)
Restore ==
    /\ pc = "restore"
    /\ \/ tree' = [tree EXCEPT ![i] = Original(i)] /\ errors' \in {errors, TRUE}
       \/ UNCHANGED tree /\ errors' = TRUE
    /\ Goto("rollback", i - 1)
    /\ UNCHANGED <<dir, temps, backup, disk, rcpt, failed, taskVars, late>>

(* Temporary files are removed as far as that works; nobody asks.  The     *)
(* directory we made goes if it is still ours and empty.                   *)
DirInUse(left) == \E f \in New : tree[f] # "absent" \/ f \in left

Clean ==
    /\ pc = "clean"
    /\ \E left \in SUBSET temps :
          /\ temps' = left
          /\ \/ /\ failed /\ rcpt.made /\ dir = "made" /\ ~DirInUse(left)
                /\ dir' = "absent" /\ UNCHANGED errors
             \/ /\ failed /\ rcpt.made /\ dir # "absent"
                /\ errors' = TRUE /\ UNCHANGED dir
             \/ /\ ~failed \/ ~rcpt.made \/ dir = "absent"
                /\ UNCHANGED <<dir, errors>>
    /\ Goto("save", 1)
    /\ UNCHANGED <<tree, backup, disk, rcpt, failed, taskVars, late>>

(* The last save; its failure is an error of the whole transaction.        *)
Close ==
    /\ pc = "save"
    /\ rcpt' = [rcpt EXCEPT !.status = IF errors THEN "ROLLBACK_UNCERTAIN"
                                       ELSE @]
    /\ \/ Persist /\ told' = IF ~failed THEN "applied"
                             ELSE IF errors THEN "uncertain" ELSE "refused"
       \/ PersistFails /\ told' = "unsaved"
    /\ Goto("settle", 1)
    /\ failed' = FALSE /\ errors' = FALSE
    /\ UNCHANGED <<tree, dir, temps, backup, status, applied, late>>

(* finishVerifiedTask: the task is PASS whatever became of its patch.      *)
Settle ==
    /\ pc = "settle"
    /\ Goto("idle", 1)
    /\ status' = "PASS"
    /\ UNCHANGED <<diskVars, rcpt, failed, errors, applied, told, late>>

-----------------------------------------------------------------------------
(* The user edits or creates a file (external).                            *)
Edit(f) ==
    /\ tree[f] # "edited"
    /\ tree' = [tree EXCEPT ![f] = "edited"]
    /\ dir' = IF f \in New /\ dir = "absent" THEN "theirs" ELSE dir
    /\ late' = IF pc \in {"rename", "restore"} /\ i = f THEN late \cup {f}
               ELSE late \ {f}
    /\ UNCHANGED <<temps, backup, disk, rcpt, pc, i, failed, errors, taskVars>>

(* The user takes a file back to what it was (external).                   *)
Revert(f) ==
    /\ tree[f] = "edited"
    /\ dir # "absent" \/ f \notin New
    /\ tree' = [tree EXCEPT ![f] = Original(f)]
    /\ late' = late \ {f}
    /\ UNCHANGED <<dir, temps, backup, disk, rcpt, pc, i, failed, errors,
                   taskVars>>

Crash ==
    /\ pc # "gone"
    /\ Goto("gone", 1)
    /\ UNCHANGED <<diskVars, rcpt, failed, errors, taskVars, late>>

Next ==
    \/ Begin \/ Inspect \/ BackUp \/ Stage \/ ParentFails \/ CheckAll
    \/ Verify \/ Rename \/ Record \/ Finalize \/ RollbackEntry \/ Restore
    \/ Clean \/ Close \/ Settle \/ Crash
    \/ \E f \in Files : Edit(f) \/ Revert(f)

Spec == Init /\ [][Next]_vars
-----------------------------------------------------------------------------
Statuses == {"none", "PREPARED", "APPLIED", "ROLLED_BACK", "ROLLBACK_UNCERTAIN"}
Pcs == {"idle", "inspect", "backup", "stage", "check", "verify", "rename",
        "record", "finalize", "rollback", "restore", "clean", "save", "settle",
        "gone"}
Receipts == [status : Statuses, applied : 0..N, made : BOOLEAN]

(* Types, and the position agrees with the entries already applied.        *)
TypeOK ==
    /\ tree \in [Files -> Contents]
    /\ dir \in {"absent", "made", "theirs"}
    /\ temps \in SUBSET Files /\ backup \in SUBSET (Files \ New)
    /\ disk \in Receipts /\ rcpt \in Receipts
    /\ pc \in Pcs /\ i \in 0..N /\ (pc # "rollback" => i \in Files)
    /\ failed \in BOOLEAN /\ errors \in BOOLEAN
    /\ status \in {"applying", "PASS"} /\ applied \in BOOLEAN
    /\ told \in {"nothing", "applied", "refused", "uncertain", "unsaved"}
    /\ late \in SUBSET Files
    /\ pc \in {"verify", "rename"} => rcpt.applied = i - 1
    /\ pc = "finalize" => rcpt.applied = N

(* Safety: a crash at any point leaves a trail: nothing of ours is in the  *)
(* repository without a receipt on disk, and no replaced file without its  *)
(* backup.  ("keeps backups of replaced files".)                           *)
CrashLeavesATrail ==
    /\ temps # {} \/ dir = "made" => disk.status # "none"
    /\ \A f \in Files : tree[f] = "after" =>
          /\ disk.status # "none"
          /\ f \in New \/ f \in backup

(* Safety: the receipt on disk is at most one file behind the repository,  *)
(* so that what a crash cut short can be undone by hand; and a task counts *)
(* as applied only as a whole, with a receipt that says so on disk.        *)
ReceiptTracksTree ==
    /\ pc \in {"stage", "check", "verify", "rename", "record", "finalize"} =>
          \A f \in Files : tree[f] = "after" => f <= disk.applied + 1
    /\ applied => disk.status = "APPLIED" /\ disk.applied = N

(* Safety: at any moment the disk tells how far the repository was changed.*)
TrailTellsTheTree == CrashLeavesATrail /\ ReceiptTracksTree

(* Action property: a transaction that ends as refused, without a word     *)
(* about an uncertain rollback, leaves neither its files nor its directory *)
(* behind.                                                                 *)
RefusalUndoes ==
    pc = "save" /\ pc' = "settle" /\ told' = "refused" =>
        /\ \A f \in Files : tree[f] # "after"
        /\ rcpt.made => dir # "made"

RefusalUndoesEverything == [][RefusalUndoes]_vars

(* Action property: the transaction never overwrites an edit it could have *)
(* seen: only one made after the last check of that very file is lost.     *)
OverwritesOnlyUnseen ==
    \A f \in Files : tree[f] = "edited" /\ tree'[f] # "edited" /\ pc' # pc =>
        f \in late

EditsSurvive == [][OverwritesOnlyUnseen]_vars
-----------------------------------------------------------------------------
(* What makes the properties inductive.  Errors of a transaction are only  *)
(* remembered by its deferred function.                                    *)
Deferred == {"rollback", "restore", "clean", "save"}
Checked == {"verify", "rename"}

Calm == pc \notin Deferred \cup {"gone"} => ~failed /\ ~errors

(* Until the receipt of the backups is written nothing is in the tree.     *)
NotYetWritten ==
    /\ disk.status = "none" =>
          /\ temps = {} /\ dir # "made"
          /\ pc \in {"idle", "inspect", "backup", "settle", "gone"}
          /\ \A f \in Files : tree[f] # "after"
    /\ pc \in Deferred \cup Checked \cup {"stage", "check", "record", "finalize"} =>
          rcpt.status # "none"

(* What is in the tree, and what both receipts say of it.                  *)
HowFar ==
    /\ pc = "inspect" => \A f \in Files : f < i => tree[f] # "after"
    /\ pc \in {"backup", "stage", "check"} => \A f \in Files : tree[f] # "after"
    /\ pc \in {"stage", "check"} => rcpt.applied = 0
    /\ pc = "check" => disk.applied = 0
    /\ pc \in Checked =>
          /\ disk.applied = i - 1 /\ rcpt.applied = i - 1
          /\ \A f \in Files : tree[f] = "after" => f < i
    /\ pc = "record" =>
          /\ disk.applied = i - 1 /\ rcpt.applied = i
          /\ \A f \in Files : tree[f] = "after" => f <= i
    /\ pc = "finalize" => disk.applied = N /\ rcpt.applied = N

BackedUp ==
    /\ \A f \in Files : tree[f] = "after" => f \in New \/ f \in backup
    /\ pc = "backup" => \A f \in Files : f < i => f \in New \/ f \in backup
    /\ pc \in Checked \cup {"stage", "check", "record", "finalize"} =>
          \A f \in Files : f \in New \/ f \in backup

(* A rollback without an error has undone what it has passed.              *)
UndoneSoFar ==
    /\ pc \in {"rollback", "restore"} =>
          failed /\ (~errors => \A f \in Files : tree[f] = "after" => f <= i)
    /\ pc \in {"clean", "save"} /\ failed /\ ~errors =>
          /\ \A f \in Files : tree[f] # "after"
          /\ pc = "save" /\ rcpt.made => dir # "made"

AppliedIsFinal ==
    applied =>
        /\ disk.status = "APPLIED" /\ disk.applied = N
        /\ pc \in {"clean", "save", "settle", "idle", "gone"}
        /\ pc \in {"clean", "save"} =>
              ~failed /\ ~errors /\ rcpt.status = "APPLIED" /\ rcpt.applied = N

(* A file that is about to be replaced was ours, or edited since.          *)
EditsAreSeen ==
    pc \in {"rename", "restore"} => (tree[i] = "edited" => i \in late)

IndInv ==
    /\ TypeOK /\ Calm /\ NotYetWritten /\ HowFar /\ BackedUp
    /\ UndoneSoFar /\ AppliedIsFinal /\ EditsAreSeen
=============================================================================
