----------------------------- MODULE CodingTask -----------------------------
(***************************************************************************)
(* Coding tasks of the gateway (agent.go).  A task is a goroutine that     *)
(* asks the model for files, tests them in a sandbox, tries again with the *)
(* output of the failure, verifies a success and perhaps applies it to the *)
(* repository.  Beside it run the handlers that submit, cancel and apply   *)
(* tasks, the shutdown of main.go, crashes and restarts.                   *)
(* What a client sees of a task is its status in memory and, after a       *)
(* restart, its result.json.  Task.save writes that file, from a snapshot  *)
(* it took before, on behalf of the goroutine and of handlers alike, and   *)
(* nobody hears of a write that fails.                                     *)
(***************************************************************************)
EXTENDS Naturals, Sequences

CONSTANTS Task, Feedback, Silent, MaxRepairs, Nobody, Chat

ASSUME RepairAssumption == MaxRepairs \in Nat
ASSUME HolderAssumption == Nobody \notin Task /\ Chat \notin Task \cup {Nobody}
ASSUME SilentAssumption == Silent \in Feedback

VARIABLES
    status,   \* [Task -> Task.Status], "none": not in App.tasks
    ctx,      \* [Task -> BOOLEAN]: the task's context is cancelled
    pc,       \* [Task -> position of its goroutine]
    to,       \* [Task -> where it goes after the save under way]
    shot,     \* [Task -> the status that save writes]
    repeats,  \* [Task -> repeatFailures]
    auto,     \* [Task -> BOOLEAN]: TaskSpec.Apply
    fails,    \* [Task -> Seq(Feedback)]: the failures in Task.Attempts
    applied,  \* [Task -> BOOLEAN]: its patch is in the repository
    disk,     \* [Task -> the status in its result.json]
    behind,   \* history, [Task -> BOOLEAN]: result.json was overtaken
    submit,   \* [Task -> the handler that submits it]
    req,      \* [Task -> a handler that cancels or applies it]
    reqShot,  \* [Task -> the status that handler writes]
    gen,      \* who fills App.admission: a task, Chat or Nobody
    up,       \* the gateway runs
    shut,     \* position of the shutdown, "no" until App.closing
    pending   \* the tasks it waits for

goroutine == <<pc, to, shot, repeats, auto>>
file == <<disk, behind>>
tasks == <<status, ctx, goroutine, fails, applied, file>>
handlers == <<submit, req, reqShot>>
process == <<up, shut, pending>>
vars == <<tasks, handlers, gen, process>>

Active == {"queued", "running", "draining", "applying"}
Terminal == {"PASS", "FAIL", "BLOCKED", "CANCELLED", "INCOMPLETE"}

(* An attempt's verdict is a position as well: the one in which it is      *)
(* settled.                                                                *)
Working == {"attempt", "admission", "generate", "check", "verify", "finish"}
Position == {"none", "begin", "apply", "passed", "end", "done", "snap", "write"}
            \cup Working \cup Terminal

None == [t \in Task |-> "none"]

Init ==
    /\ status = None /\ ctx = [t \in Task |-> FALSE]
    /\ pc = None /\ to = None /\ shot = None
    /\ repeats = [t \in Task |-> 0] /\ auto = [t \in Task |-> FALSE]
    /\ fails = [t \in Task |-> <<>>]
    /\ applied = [t \in Task |-> FALSE]
    /\ disk = None /\ behind = [t \in Task |-> FALSE]
    /\ submit = [t \in Task |-> "no"]
    /\ req = [t \in Task |-> "no"] /\ reqShot = None
    /\ gen = Nobody /\ up = TRUE /\ shut = "no" /\ pending = {}

-----------------------------------------------------------------------------
(* Task.save gives the snapshot s to writeJSON and drops its error; late   *)
(* says whether the task has moved on meanwhile.                           *)
WriteResult(t, s, late) ==
    /\ disk' = [disk EXCEPT ![t] = s] /\ behind' = [behind EXCEPT ![t] = late]

WriteFails(t) == behind' = [behind EXCEPT ![t] = TRUE] /\ UNCHANGED disk

(* POST /v1/coding/tasks: the router looks at App.closing, submit runs     *)
(* later.  result.json says "queued" before the task is in App.tasks.      *)
Admit(t) ==
    /\ up /\ shut = "no" /\ submit[t] = "no"
    /\ submit' = [submit EXCEPT ![t] = "admitted"]
    /\ UNCHANGED <<tasks, req, reqShot, gen, process>>

Submit(t) ==
    /\ submit[t] = "admitted"
    /\ submit' = [submit EXCEPT ![t] = "over"]
    /\ WriteResult(t, "queued", FALSE) \/ WriteFails(t)
    /\ status' = [status EXCEPT ![t] = "queued"]
    /\ pc' = [pc EXCEPT ![t] = "begin"]
    /\ \E a \in BOOLEAN : auto' = [auto EXCEPT ![t] = a]
    /\ UNCHANGED <<ctx, to, shot, repeats, fails, applied, req, reqShot, gen, process>>

SubmitRefused(t) ==
    /\ submit[t] = "admitted"
    /\ submit' = [submit EXCEPT ![t] = "over"]
    /\ UNCHANGED <<tasks, req, reqShot, gen, process>>

-----------------------------------------------------------------------------
(* runTask *)

At(t, l) == pc[t] = l
Done(t) == At(t, "done")
Goto(t, l) == pc' = [pc EXCEPT ![t] = l] /\ UNCHANGED <<to, shot>>

(* Task.save on the way to l: first a snapshot under the mutex, then the   *)
(* file.                                                                   *)
Save(t, l) ==
    /\ pc' = [pc EXCEPT ![t] = "snap"] /\ to' = [to EXCEPT ![t] = l]
    /\ UNCHANGED shot

(* Task.status: set under the mutex, then saved.                           *)
SetStatus(t, s, l) == status' = [status EXCEPT ![t] = s] /\ Save(t, l)

Around == <<ctx, auto, applied, file, handlers, process>>

Snap(t) ==
    /\ At(t, "snap") /\ pc' = [pc EXCEPT ![t] = "write"]
    /\ shot' = [shot EXCEPT ![t] = status[t]]
    /\ UNCHANGED <<status, to, repeats, fails, gen, Around>>

Write(t) ==
    /\ At(t, "write") /\ Goto(t, to[t])
    /\ WriteResult(t, shot[t], FALSE) \/ WriteFails(t)
    /\ UNCHANGED <<status, ctx, repeats, auto, fails, applied, handlers, gen, process>>

Begin(t) ==
    /\ At(t, "begin") /\ SetStatus(t, "running", "attempt")
    /\ UNCHANGED <<repeats, fails, gen, Around>>

Attempt(t) ==
    /\ At(t, "attempt")
    /\ IF ctx[t] THEN SetStatus(t, "CANCELLED", "end")
       ELSE Save(t, "admission") /\ UNCHANGED status
    /\ UNCHANGED <<repeats, fails, gen, Around>>

(* modelLock: one generation at a time, in this process and, by a file     *)
(* lock that is only tried, beside others.  A cancelled task gives up its  *)
(* place.                                                                  *)
Acquire(t) ==
    /\ At(t, "admission") /\ ~ctx[t] /\ gen = Nobody
    /\ \/ gen' = t /\ Goto(t, "generate")
       \/ Save(t, "BLOCKED") /\ UNCHANGED gen
    /\ UNCHANGED <<status, repeats, fails, Around>>

(* Mutation: a cancelled task keeps its place until it is its turn.        *)
Renounce_InTurn(t) ==
    /\ At(t, "admission") /\ ctx[t] /\ gen = Nobody /\ Save(t, "CANCELLED")
    /\ UNCHANGED <<status, repeats, fails, gen, Around>>

Renounce(t) ==
    /\ At(t, "admission") /\ ctx[t] /\ Save(t, "CANCELLED")
    /\ UNCHANGED <<status, repeats, fails, gen, Around>>

(* generateProgress saves the task now and then, and drains the generation *)
(* whatever the context says.                                              *)
Progress(t) ==
    /\ At(t, "generate") /\ Save(t, "generate")
    /\ UNCHANGED <<status, repeats, fails, gen, Around>>

Generated(t) ==
    /\ At(t, "generate") /\ gen' = Nobody
    /\ IF ctx[t] THEN Save(t, "CANCELLED")
       ELSE \/ \E v \in {"BLOCKED", "INCOMPLETE"} : Save(t, v)
            \/ Goto(t, "check")
    /\ UNCHANGED <<status, repeats, fails, Around>>

(* The answer is no files map, or it is built and tested: a command that   *)
(* was cancelled has not passed, and is no error either.                   *)
Check(t) ==
    /\ At(t, "check")
    /\ \/ /\ \E f \in Feedback : fails' = [fails EXCEPT ![t] = Append(@, f)]
          /\ Save(t, "FAIL")
       \/ Save(t, "BLOCKED") /\ UNCHANGED fails
       \/ ~ctx[t] /\ Save(t, "PASS") /\ UNCHANGED fails
    /\ UNCHANGED <<status, repeats, gen, Around>>

(* lastFailure is "" before the first failure, like the output of a        *)
(* command that prints nothing.                                            *)
LastFailure(s) == IF Len(s) = 1 THEN Silent ELSE s[Len(s) - 1]

Repeats(t) ==
    LET s == fails[t] IN IF s[Len(s)] = LastFailure(s) THEN repeats[t] + 1 ELSE 0

(* A failed attempt is followed by the next one or, when the same failure  *)
(* came back or no repair is left, by FAIL.                                *)
Failed(t) ==
    /\ At(t, "FAIL")
    /\ repeats' = [repeats EXCEPT ![t] = Repeats(t)]
    /\ IF Repeats(t) >= 2 \/ Len(fails[t]) > MaxRepairs
       THEN SetStatus(t, "FAIL", "end")
       ELSE Goto(t, "attempt") /\ UNCHANGED status
    /\ UNCHANGED <<fails, gen, Around>>

Settle(t) ==
    /\ \/ At(t, "PASS") /\ Goto(t, "verify") /\ UNCHANGED status
       \/ \E s \in {"BLOCKED", "CANCELLED", "INCOMPLETE"} : At(t, s) /\ SetStatus(t, s, "end")
    /\ UNCHANGED <<repeats, fails, gen, Around>>

(* The independent verification, the patch and its files.                  *)
Verify(t) ==
    /\ At(t, "verify")
    /\ \/ ~ctx[t] /\ Goto(t, "finish") /\ UNCHANGED status
       \/ \E s \in {"FAIL", "BLOCKED"} : SetStatus(t, s, "end")
    /\ UNCHANGED <<repeats, fails, gen, Around>>

(* finishVerifiedTask.                                                     *)
(* Mutation: the task applies its patch before anybody is told.            *)
Finish_Silently(t) ==
    /\ At(t, "finish")
    /\ IF auto[t] THEN status' = [status EXCEPT ![t] = "applying"] /\ Goto(t, "apply")
       ELSE SetStatus(t, "PASS", "end")
    /\ UNCHANGED <<repeats, fails, gen, Around>>

Finish(t) ==
    /\ At(t, "finish")
    /\ IF auto[t] THEN SetStatus(t, "applying", "apply")
       ELSE SetStatus(t, "PASS", "end")
    /\ UNCHANGED <<repeats, fails, gen, Around>>

(* applyTaskInternal, under the mutex: done, or refused.                   *)
Apply(t) ==
    /\ At(t, "apply") /\ Goto(t, "passed")
    /\ applied' \in {applied, [applied EXCEPT ![t] = TRUE]}
    /\ UNCHANGED <<status, ctx, repeats, auto, fails, file, handlers, gen, process>>

Passed(t) ==
    /\ At(t, "passed") /\ SetStatus(t, "PASS", "end")
    /\ UNCHANGED <<repeats, fails, gen, Around>>

(* A panic while files are parsed, tested or compared is recovered.        *)
Panic(t) ==
    /\ pc[t] \in {"check", "verify"}
    /\ status' = [status EXCEPT ![t] = "BLOCKED"] /\ Goto(t, "end")
    /\ UNCHANGED <<repeats, fails, gen, Around>>

(* Mutation: nothing is saved on the way out.                              *)
End_Unsaved(t) ==
    /\ At(t, "end") /\ Goto(t, "done")
    /\ UNCHANGED <<status, repeats, fails, gen, Around>>

(* The deferred functions: the last save, close(t.done).                   *)
End(t) ==
    /\ At(t, "end") /\ Save(t, "done")
    /\ UNCHANGED <<status, repeats, fails, gen, Around>>

-----------------------------------------------------------------------------
(* POST .../cancel and .../apply: each changes the task under its mutex,   *)
(* then saves it.                                                          *)

Requested(t) ==
    /\ up /\ shut = "no" /\ status[t] # "none" /\ req[t] = "no"
    /\ req' = [req EXCEPT ![t] = "snap"]

(* Mutation: a task that has ended is drained as well.                     *)
Cancel_Anytime(t) ==
    /\ Requested(t)
    /\ ctx' = [ctx EXCEPT ![t] = TRUE]
    /\ status' = [status EXCEPT ![t] = "draining"]
    /\ UNCHANGED <<goroutine, fails, applied, file, submit, reqShot, gen, process>>

Cancel(t) ==
    /\ Requested(t)
    /\ IF status[t] \in {"queued", "running"}
       THEN /\ ctx' = [ctx EXCEPT ![t] = TRUE]
            /\ status' = [status EXCEPT ![t] = "draining"]
       ELSE UNCHANGED <<ctx, status>>
    /\ UNCHANGED <<goroutine, fails, applied, file, submit, reqShot, gen, process>>

ApplyTask(t) ==
    /\ Requested(t) /\ status[t] = "PASS" /\ ~applied[t]
    /\ applied' = [applied EXCEPT ![t] = TRUE]
    /\ behind' = [behind EXCEPT ![t] = @ \/ disk[t] # "PASS"]
    /\ UNCHANGED <<status, ctx, goroutine, fails, disk, submit, reqShot, gen, process>>

RequestSnap(t) ==
    /\ req[t] = "snap" /\ req' = [req EXCEPT ![t] = "write"]
    /\ reqShot' = [reqShot EXCEPT ![t] = status[t]]
    /\ UNCHANGED <<tasks, submit, gen, process>>

RequestWrite(t) ==
    /\ req[t] = "write" /\ req' = [req EXCEPT ![t] = "no"]
    /\ WriteResult(t, reqShot[t], reqShot[t] # status[t]) \/ UNCHANGED file
    /\ UNCHANGED <<status, ctx, goroutine, fails, applied, submit, reqShot, gen, process>>

-----------------------------------------------------------------------------
(* entry, "serve": shutdown on a signal, after operations, downloads and   *)
(* workspaces have stopped, with a deadline for all its waits.             *)

Signal ==
    /\ up /\ shut = "no" /\ shut' = "tasks"
    /\ UNCHANGED <<tasks, handlers, gen, up, pending>>

ShutTasks ==
    /\ shut = "tasks" /\ shut' = "handlers"
    /\ pending' = {t \in Task : status[t] # "none"}
    /\ ctx' = [t \in Task |-> ctx[t] \/ status[t] # "none"]
    /\ UNCHANGED <<status, goroutine, fails, applied, file, handlers, gen, up>>

(* srv.Shutdown: no handler runs any more.                                 *)
ShutHandlers ==
    /\ shut = "handlers" /\ shut' = "drain"
    /\ \A t \in Task : submit[t] # "admitted" /\ req[t] = "no"
    /\ UNCHANGED <<tasks, handlers, gen, up, pending>>

(* What the end of the process leaves: the files and the repository.       *)
Vanish ==
    /\ up' = FALSE /\ shut' = "no" /\ pending' = {} /\ gen' = Nobody
    /\ status' = None /\ ctx' = [t \in Task |-> FALSE]
    /\ pc' = None /\ to' = None /\ shot' = None
    /\ repeats' = [t \in Task |-> 0] /\ auto' = [t \in Task |-> FALSE]
    /\ fails' = [t \in Task |-> <<>>]
    /\ submit' = [t \in Task |-> IF submit[t] = "no" THEN "no" ELSE "over"]
    /\ req' = [t \in Task |-> "no"] /\ reqShot' = None
    /\ UNCHANGED <<applied, file>>

Exit == shut = "drain" /\ (\A t \in pending : Done(t)) /\ Vanish

Expire == shut \in {"handlers", "drain"} /\ Vanish

Crash == up /\ Vanish

Restart ==
    /\ ~up /\ up' = TRUE
    /\ UNCHANGED <<tasks, handlers, gen, shut, pending>>

(* Chats and other generations of the gateway take their turn as well.     *)
ChatBegins ==
    /\ up /\ gen = Nobody /\ gen' = Chat /\ UNCHANGED <<tasks, handlers, process>>

ChatEnds ==
    /\ gen = Chat /\ gen' = Nobody /\ UNCHANGED <<tasks, handlers, process>>

-----------------------------------------------------------------------------
(* Steps the goroutine takes by itself.                                    *)
Runs(t) ==
    \/ Snap(t) \/ Write(t) \/ Begin(t) \/ Attempt(t) \/ Renounce(t) \/ Check(t)
    \/ Failed(t) \/ Settle(t) \/ Verify(t) \/ Finish(t) \/ Apply(t) \/ Passed(t)
    \/ End(t)

Generates(t) == Acquire(t) \/ Progress(t) \/ Generated(t)

Handles(t) == Submit(t) \/ SubmitRefused(t) \/ RequestSnap(t) \/ RequestWrite(t)

Shutdown == ShutTasks \/ ShutHandlers \/ Exit

Next ==
    \/ \E t \in Task : \/ Admit(t) \/ Cancel(t) \/ ApplyTask(t) \/ Panic(t)
                       \/ Generates(t) \/ Runs(t) \/ Handles(t)
    \/ ChatBegins \/ ChatEnds
    \/ Signal \/ Shutdown \/ Expire \/ Crash \/ Restart

Spec == Init /\ [][Next]_vars

(* Goroutines are scheduled, generations end by their timeout, and senders *)
(* on a channel are served in turn.                                        *)
FairSpec ==
    /\ Spec /\ WF_vars(ChatEnds) /\ WF_vars(Shutdown)
    /\ \A t \in Task : /\ WF_vars(Runs(t)) /\ WF_vars(Handles(t))
                       /\ SF_vars(Acquire(t)) /\ SF_vars(Generated(t))

-----------------------------------------------------------------------------
(* The types of the variables.                                             *)
Status == Active \cup Terminal \cup {"none"}

TypeOK ==
    /\ status \in [Task -> Status] /\ disk \in [Task -> Status]
    /\ ctx \in [Task -> BOOLEAN] /\ applied \in [Task -> BOOLEAN]
    /\ behind \in [Task -> BOOLEAN]
    /\ pc \in [Task -> Position] /\ to \in [Task -> Position]
    /\ shot \in [Task -> Status] /\ auto \in [Task -> BOOLEAN]
    /\ repeats \in [Task -> Nat] /\ fails \in [Task -> Seq(Feedback)]
    /\ submit \in [Task -> {"no", "admitted", "over"}]
    /\ req \in [Task -> {"no", "snap", "write"}]
    /\ reqShot \in [Task -> Status]
    /\ gen \in Task \cup {Chat, Nobody}
    /\ up \in BOOLEAN /\ shut \in {"no", "tasks", "handlers", "drain"}
    /\ pending \subseteq Task

(* A status that says the task is over stays what it is, whatever handlers *)
(* do, and the task's patch belongs to the repository only if it passed:   *)
(* the handlers of main.go:288-294 race with finishVerifiedTask.           *)
PassedIfApplied(t) == applied[t] => status[t] \in {"none", "applying", "PASS"}

AppliedMeansPassed == \A t \in Task : PassedIfApplied(t)

(* Nobody can have seen a task end and then see it end otherwise.          *)
TerminalIsFinal ==
    [][\A t \in Task : status[t] \in Terminal => status'[t] \in {status[t], "none"}]_vars

(* When Task.done is closed, result.json has the final status, unless it   *)
(* was overtaken.                                                          *)
EndOnDisk(t) == Done(t) /\ ~behind[t] => disk[t] = status[t]

FinishedIsOnDisk == \A t \in Task : EndOnDisk(t)

(* A patch is never found in the repository without result.json pointing   *)
(* to the apply: a restart then says INTERRUPTED with the advice to look   *)
(* at the receipt (main.go:268-273), or PASS.                              *)
Announced(t) == applied[t] /\ ~behind[t] => disk[t] \in {"applying", "PASS"}

ApplyIsAnnounced == \A t \in Task : Announced(t)

(* What is on disk tells of every end and of every apply, but for three    *)
(* cases in which it is behind: the last save of the task failed (its      *)
(* error is dropped, agent.go:150); a handler wrote a snapshot that was    *)
(* out of date (main.go:295, 321); a handler applied the patch after the   *)
(* task had passed and before it had saved that (main.go:317).             *)
(* docs/REFERENCE_DEPLOYMENT.md:258, "Persisted results/diffs survive      *)
(* gateway restarts", makes none of these exceptions.                      *)
DiskTells == FinishedIsOnDisk /\ ApplyIsAnnounced

(* What those who wait for a task see of it.                               *)
Life == [t \in Task |-> IF status[t] = "none" THEN "none"
                        ELSE IF Done(t) THEN "over" ELSE "live"]

Outcome == [t \in Task |-> IF Done(t) THEN status[t] ELSE "none"]

P == INSTANCE TaskPromise WITH life <- Life, result <- Outcome, told <- ctx

(* Tasks keep the promise that operations and clients rely on: Task.done   *)
(* is closed once, on one result, and CANCELLED only if they were told to  *)
(* stop (agent.go:239-418 against the handlers and the shutdown).          *)
KeepsPromise == P!PromiseSafety

(* Every task comes to its end: repairs are bounded, a generation ends, a  *)
(* cancelled task does not wait for its turn (model.go:155-159).  So does  *)
(* a shutdown (main.go:608-645).                                           *)
TasksEnd == P!PromiseFairness /\ (shut # "no" ~> ~up)

-----------------------------------------------------------------------------
(* The inductive invariant of the proofs.  Where the goroutine stands or,  *)
(* while it saves the task, where it goes from there:                      *)
Stand(t) == IF pc[t] \in {"snap", "write"} THEN to[t] ELSE pc[t]

(* The status follows the position; cancelling changes it before the work  *)
(* ends, and never after.                                                  *)
StatusFollows(t) ==
    /\ Stand(t) \notin {"snap", "write"}
    /\ Stand(t) \in {"none", "begin"} => Stand(t) = pc[t]
    /\ status[t] = "none" <=> Stand(t) = "none"
    /\ Stand(t) = "begin" => status[t] \in {"queued", "draining"}
    /\ Stand(t) \in Working \cup Terminal => status[t] \in {"running", "draining"}
    /\ Stand(t) \in {"apply", "passed"} => status[t] = "applying"
    /\ Stand(t) \in {"end", "done"} => status[t] \in Terminal

(* Only a task told to stop is found cancelled.                            *)
ToldWhenCancelled(t) == status[t] = "CANCELLED" \/ Stand(t) = "CANCELLED" => ctx[t]

(* What a save has in hand once the status no longer changes.              *)
ShotIsCurrent(t) ==
    /\ pc[t] = "write" /\ Stand(t) \in {"apply", "passed", "end", "done"}
    => shot[t] = status[t]

(* A patch in the repository, and what result.json says of it.             *)
AppliedFollows(t) ==
    /\ applied[t] => \/ status[t] \in {"none", "PASS"} /\ submit[t] = "over"
                     \/ status[t] = "applying" /\ pc[t] = "passed"
    /\ submit[t] # "over" => status[t] = "none"
    /\ req[t] # "no" => status[t] # "none"
    /\ pc[t] \in {"apply", "passed"} /\ ~behind[t] => disk[t] = "applying"

(* A failure is there while it is settled.                                 *)
FailureCounted(t) == Stand(t) = "FAIL" => Len(fails[t]) > 0

TaskInv(t) ==
    /\ StatusFollows(t) /\ ToldWhenCancelled(t) /\ ShotIsCurrent(t)
    /\ AppliedFollows(t) /\ FailureCounted(t) /\ EndOnDisk(t) /\ Announced(t)

IndInv == TypeOK /\ \A t \in Task : TaskInv(t)

-----------------------------------------------------------------------------
(* docs/ARCHITECTURE.md:53: "a gateway restart must drain its work".  When *)
(* the shutdown of main.go has waited for everything, no task of this      *)
(* gateway has a generation under way.                                     *)
ExitDrains == [][Exit => gen \notin Task]_vars
=============================================================================
